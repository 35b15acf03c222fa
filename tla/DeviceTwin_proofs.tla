-------------------------- MODULE DeviceTwin_proofs --------------------------
(***************************************************************************)
(* Proofs about the Device Twin for any number of accounts, tenants,       *)
(* tokens, concurrent requests and publications of the tenant map; and     *)
(* first, about the keys it decides on, of any length and any level texts. *)
(***************************************************************************)
EXTENDS DeviceTwin, MCRoutingKey, WellFoundedInduction, TLAPS

-----------------------------------------------------------------------------
(***************************************************************************)
(* A key has at most one owner (topic.rs:112): ownership compares whole    *)
(* levels, so no identifier that extends another can share its keys.       *)
(***************************************************************************)
THEOREM OwnershipUnique ==
  ASSUME NEW s1, NEW d1, NEW s2, NEW d2, NEW key,
         OwnsRoutingKey(s1, d1, key), OwnsRoutingKey(s2, d2, key)
  PROVE  s1 = s2 /\ d1 = d2
BY DEF OwnsRoutingKey

(***************************************************************************)
(* A pattern a device owns matches only names beneath or at the device's   *)
(* own prefix (topic.rs:112-130 with the broker's topic matching): the     *)
(* three levels that name it are plain texts, which match only themselves. *)
(***************************************************************************)
THEOREM OwnedPatternConfined ==
  ASSUME NEW slug \in Names, NEW device \in Names,
         NEW pattern \in Seq(Level), NEW name \in Seq(Level),
         OwnsRoutingKey(slug, device, pattern),
         RoutingMatches(pattern, name)
  PROVE  InNamespace(slug, device, name)
<1> DEFINE open  == pattern # << >> /\ pattern[Len(pattern)] = Multi
           fixed == IF open THEN Len(pattern) - 1 ELSE Len(pattern)
<1>1. Len(pattern) \in Nat /\ Len(pattern) > 3
  BY DEF OwnsRoutingKey
<1>2. /\ pattern[1] = TopicRoot /\ pattern[2] = slug /\ pattern[3] = device
  BY DEF OwnsRoutingKey
<1>3. /\ IF open THEN Len(name) >= fixed ELSE Len(name) = fixed
      /\ \A i \in 1..fixed : pattern[i] \in {RoutingSingle, name[i]}
  BY DEF RoutingMatches, Matches
<1>4. fixed \in Nat /\ fixed >= 3
  BY <1>1
<1>5. Len(name) \in Nat /\ Len(name) >= 3
  BY <1>3, <1>4
<1>6. \A n \in Names : n # RoutingSingle
  BY LevelAssumption DEF Specials
<1>7. name[1] = TopicRoot /\ name[2] = slug /\ name[3] = device
  BY <1>2, <1>3, <1>4, <1>6, LevelAssumption
<1> QED
  BY <1>5, <1>7 DEF InNamespace, DevicePrefix

(***************************************************************************)
(* What one device may subscribe to never delivers what another one may    *)
(* publish.                                                                *)
(***************************************************************************)
THEOREM SubscriptionsDisjoint ==
  ASSUME NEW s1 \in Names, NEW d1 \in Names, NEW s2, NEW d2,
         NEW pattern \in Seq(Level), NEW name \in Seq(Level),
         OwnsRoutingKey(s1, d1, pattern),
         OwnsRoutingKey(s2, d2, name),
         RoutingMatches(pattern, name)
  PROVE  s1 = s2 /\ d1 = d2
<1>1. InNamespace(s1, d1, name)
  BY OwnedPatternConfined
<1>2. Len(name) \in Nat /\ Len(name) > 3 /\ name[2] = s2 /\ name[3] = d2
  BY DEF OwnsRoutingKey
<1>3. name[2] = s1 /\ name[3] = d1
  BY <1>1 DEF InNamespace, DevicePrefix
<1> QED
  BY <1>2, <1>3

(***************************************************************************)
(* Every topic a device writes beneath its own prefix translates, if it    *)
(* translates at all, to a key the Twin recognises as that device's.       *)
(***************************************************************************)
THEOREM TranslatedIsOwned ==
  ASSUME NEW slug \in Names, NEW device \in Names,
         NEW sent \in Seq(Level), Len(sent) > 3,
         sent[1] = TopicRoot, sent[2] = slug, sent[3] = device,
         ToRoutingKey(sent) # NoKey
  PROVE  OwnsRoutingKey(slug, device, ToRoutingKey(sent))
<1> DEFINE key == [i \in 1..Len(sent) |->
                     IF sent[i] = MqttSingle THEN RoutingSingle ELSE sent[i]]
<1>1. \A i \in 1..Len(sent) : Carries(sent, i)
  BY DEF ToRoutingKey
<1>2. ToRoutingKey(sent) = key
  BY <1>1 DEF ToRoutingKey
<1>3. Len(sent) \in Nat
  OBVIOUS
<1>8. Len(key) = Len(sent)
  BY <1>3
<1>4. \A n \in Names : n # MqttSingle
  BY LevelAssumption DEF Specials
<1>5. key[1] = TopicRoot /\ key[2] = slug /\ key[3] = device
  BY <1>3, <1>4, LevelAssumption
<1>6. \A i \in 1..Len(sent) : key[i] # Empty
  BY <1>1 DEF Carries, RoutingSingle, Empty
<1>7. \A i \in 1..(Len(sent) - 1) : key[i] # Multi
  <2> TAKE i \in 1..(Len(sent) - 1)
  <2>1. i \in 1..Len(sent) /\ i # Len(sent)
    BY <1>3
  <2>2. sent[i] # Multi
    BY <1>1, <2>1 DEF Carries
  <2> QED
    BY <2>1, <2>2 DEF RoutingSingle, Multi
<1> HIDE DEF key
<1> QED
  BY <1>2, <1>3, <1>5, <1>6, <1>7, <1>8 DEF OwnsRoutingKey

-----------------------------------------------------------------------------
USE TwinAssumption, NoneAssumption, FormAssumption

-----------------------------------------------------------------------------
(***************************************************************************)
(* Type correctness.                                                       *)
(***************************************************************************)
LEMMA HandlingSlot ==
  ASSUME TypeOK, NEW r \in Requests,
         req[r].stage \in {"known", "routing", "verifying", "verified", "naming"}
  PROVE  req[r] \in Handling
BY DEF TypeOK, Slot, Idle, Denied, Connecting, Handling, Named, Checking, Allowed

LEMMA NamedSlot ==
  ASSUME TypeOK, NEW r \in Requests, req[r].stage = "named"
  PROVE  req[r] \in Named
BY DEF TypeOK, Slot, Idle, Denied, Connecting, Handling, Named, Checking, Allowed

LEMMA CheckingSlot ==
  ASSUME TypeOK, NEW r \in Requests, req[r].stage = "looked"
  PROVE  req[r] \in Checking
BY DEF TypeOK, Slot, Idle, Denied, Connecting, Handling, Named, Checking, Allowed

LEMMA AllowedSlot ==
  ASSUME TypeOK, NEW r \in Requests, req[r].stage = "allowed"
  PROVE  req[r] \in Allowed
BY DEF TypeOK, Slot, Idle, Denied, Connecting, Handling, Named, Checking, Allowed

LEMMA StattedCall ==
  ASSUME TypeOK, NEW r \in Requests, call[r].at \in {"statted", "moved"}
  PROVE  call[r].onDisk \in Nat /\ call[r] = [at |-> call[r].at, onDisk |-> call[r].onDisk]
BY DEF TypeOK, Call, NoCall, Looking

LEMMA ReadCall ==
  ASSUME TypeOK, NEW r \in Requests, call[r].at \in {"read", "saved"}
  PROVE  /\ call[r].onDisk \in Nat /\ call[r].fresh \in Maps
         /\ call[r] = [at |-> call[r].at, onDisk |-> call[r].onDisk,
                       fresh |-> call[r].fresh]
BY DEF TypeOK, Call, NoCall, Looking

\* One slot written, with a slot.
LEMMA SlotWritten ==
  ASSUME TypeOK, NEW r \in Requests, NEW slot \in Slot, req' = [req EXCEPT ![r] = slot]
  PROVE  req' \in [Requests -> Slot]
BY DEF TypeOK

LEMMA CallWritten ==
  ASSUME TypeOK, NEW r \in Requests, NEW c \in Call, Calls(r, c)
  PROVE  call' \in [Requests -> Call]
BY DEF TypeOK, Calls

\* A handler that moves on stays one.
LEMMA MovedSlot ==
  ASSUME TypeOK, NEW r \in Requests,
         req[r].stage \in {"known", "routing", "verifying", "verified", "naming"},
         NEW stage \in {"known", "routing", "verifying", "verified", "naming"},
         Moves(r, stage)
  PROVE  \E slot \in Handling :
           /\ req' = [req EXCEPT ![r] = slot] /\ slot.stage = stage
           /\ slot.user = req[r].user /\ slot.token = req[r].token
<1>1. req[r] \in Handling
  BY HandlingSlot
<1>2. PICK slot : slot = [req[r] EXCEPT !.stage = stage]
  OBVIOUS
<1>3. /\ slot \in Handling /\ slot.stage = stage
      /\ slot.user = req[r].user /\ slot.token = req[r].token
  BY <1>1, <1>2 DEF Handling
<1>4. req' = [req EXCEPT ![r] = slot]
  BY <1>2 DEF Moves
<1> QED
  BY <1>3, <1>4

LEMMA ReplyWritten ==
  ASSUME TypeOK, NEW r \in Requests, NEW ask \in Asks, NEW allow, NEW awaited,
         Reply(r, ask, allow, awaited)
  PROVE  req' \in [Requests -> Slot]
<1>1. Idle \in Slot /\ Denied \in Slot /\ [stage |-> "allowed", ask |-> ask] \in Slot
  BY DEF Slot, Allowed
<1> QED
  BY <1>1 DEF Reply, TypeOK

LEMMA UserAsked ==
  ASSUME TypeOK, NEW r \in Requests,
         req[r].stage \in {"known", "routing", "verifying", "verified", "naming", "named"}
  PROVE  UserAsk(req[r].user) \in Asks /\ req[r].user \in Users
<1>1. req[r].user \in Users
  BY HandlingSlot, NamedSlot DEF Handling, Named, Users
<1> QED
  BY <1>1 DEF UserAsk, Asks

\* The places in which a request is inside a call.
Calling == {"known", "routing", "naming"}

LEMMA AnsweredType ==
  ASSUME TypeOK, NEW r \in Requests, NEW slug, Answered(r, slug),
         req[r].stage \in Calling,
         slug # None => slug \in Slugs /\ Asked(r) \in Tenants
  PROVE  /\ req' \in [Requests -> Slot] /\ call' \in [Requests -> Call]
         /\ verifiers' \subseteq Tenants
<1>1. NoCall \in Call /\ Looking \in Call
  BY DEF Call
<1>2. call' \in [Requests -> Call]
  BY <1>1, CallWritten DEF Answered
<1>3. verifiers' \subseteq Tenants
  BY DEF Answered, TypeOK
<1>4. CASE slug = None
  <2>1. Reply(r, UserAsk(req[r].user), FALSE, req[r].awaited)
    BY <1>4 DEF Answered
  <2> QED
    BY <1>2, <1>3, <2>1, UserAsked, ReplyWritten DEF Calling
<1>5. CASE slug # None /\ req[r].stage \in {"known", "routing"}
  <2>1. Moves(r, "routing") \/ Moves(r, "verifying")
    BY <1>5 DEF Answered
  <2>2. PICK slot \in Handling : req' = [req EXCEPT ![r] = slot]
    BY <1>5, <2>1, MovedSlot
  <2> QED
    BY <1>2, <1>3, <2>2, SlotWritten DEF Slot, Connecting
<1>6. CASE slug # None /\ req[r].stage = "naming"
  <2>1. req' = [req EXCEPT ![r] =
          [stage |-> "named", user |-> req[r].user, token |-> req[r].token,
           awaited |-> req[r].awaited, slug |-> slug]]
    BY <1>6 DEF Answered
  <2>2. req[r] \in Handling
    BY <1>6, HandlingSlot
  <2>3. [stage |-> "named", user |-> req[r].user, token |-> req[r].token,
         awaited |-> req[r].awaited, slug |-> slug] \in Named
    BY <1>6, <2>2 DEF Handling, Named, Asked
  <2> QED
    BY <1>2, <1>3, <2>1, <2>3, SlotWritten DEF Slot, Connecting
<1> QED
  BY <1>4, <1>5, <1>6 DEF Calling

(***************************************************************************)
(* A request is inside a call only where its handler makes one.            *)
(***************************************************************************)
InCall == \A r \in Requests : call[r] # NoCall => req[r].stage \in Calling

LEMMA TypeInit == Init => TypeOK
BY DEF Init, TypeOK, NoSessions, NoRequests, NoCalls, Idle, Slot, Call

LEMMA SlugStepType ==
  ASSUME TypeOK, InCall, NEW r \in Requests, Slug(r)
  PROVE  TypeOK'
<1>0. call[r].at # "none" => req[r].stage \in Calling
  BY DEF InCall, NoCall
<1>1. CASE Look(r)
  <2>1. CASE Asked(r) \in DOMAIN slugs /\ Answered(r, slugs[Asked(r)])
    <3>1. Asked(r) \in Tenants /\ slugs[Asked(r)] \in Slugs
      BY <2>1 DEF TypeOK
    <3>2. /\ req' \in [Requests -> Slot] /\ call' \in [Requests -> Call]
          /\ verifiers' \subseteq Tenants
      BY <1>0, <1>1, <2>1, <3>1, AnsweredType DEF Look
    <3> QED
      BY <1>1, <3>2 DEF Look, TypeOK, disk
  <2>2. CASE Calls(r, [at |-> "missed"]) /\ UNCHANGED <<req, verifiers>>
    <3>1. [at |-> "missed"] \in Call
      BY DEF Call
    <3>2. call' \in [Requests -> Call]
      BY <2>2, <3>1, CallWritten
    <3> QED
      BY <1>1, <2>2, <3>2 DEF Look, TypeOK, disk
  <2> QED
    BY <1>1, <2>1, <2>2 DEF Look
<1>2. CASE Stat(r)
  <2>1. [at |-> "statted", onDisk |-> file.mtime] \in Call
    BY DEF Call, TypeOK
  <2>2. call' \in [Requests -> Call]
    BY <1>2, <2>1, CallWritten DEF Stat
  <2> QED
    BY <1>2, <2>2 DEF Stat, TypeOK, disk, registry
<1>3. CASE Compare(r)
  <2>1. CASE Answered(r, None)
    <3>1. /\ req' \in [Requests -> Slot] /\ call' \in [Requests -> Call]
          /\ verifiers' \subseteq Tenants
      BY <1>0, <1>3, <2>1, AnsweredType DEF Compare
    <3> QED
      BY <1>3, <3>1 DEF Compare, TypeOK, disk
  <2>2. CASE Calls(r, [call[r] EXCEPT !.at = "moved"]) /\ UNCHANGED <<req, verifiers>>
    <3>0. PICK n \in Nat : call[r] = [at |-> "statted", onDisk |-> n]
      BY <1>3, StattedCall DEF Compare
    <3>1. [call[r] EXCEPT !.at = "moved"] \in Call
      <4>1. [call[r] EXCEPT !.at = "moved"] = [at |-> "moved", onDisk |-> n]
        BY <3>0
      <4> QED
        BY <4>1 DEF Call
    <3>2. call' \in [Requests -> Call]
      BY <2>2, <3>1, CallWritten
    <3> QED
      BY <1>3, <2>2, <3>2 DEF Compare, TypeOK, disk
  <2> QED
    BY <1>3, <2>1, <2>2 DEF Compare
<1>4. CASE Load(r)
  <2>1. [at |-> "read", onDisk |-> call[r].onDisk, fresh |-> file.map] \in Call
    BY <1>4, StattedCall DEF Load, Call, TypeOK
  <2>2. call' \in [Requests -> Call]
    BY <1>4, <2>1, CallWritten DEF Load
  <2> QED
    BY <1>4, <2>2 DEF Load, TypeOK, disk, registry
<1>5. CASE SaveMap(r)
  <2>0. PICK n \in Nat, m \in Maps : call[r] = [at |-> "read", onDisk |-> n, fresh |-> m]
    BY <1>5, ReadCall DEF SaveMap
  <2>1. [call[r] EXCEPT !.at = "saved"] \in Call /\ call[r].fresh \in Maps
    <3>1. [call[r] EXCEPT !.at = "saved"] = [at |-> "saved", onDisk |-> n, fresh |-> m]
      BY <2>0
    <3> QED
      BY <2>0, <3>1 DEF Call
  <2>2. call' \in [Requests -> Call]
    BY <1>5, <2>1, CallWritten DEF SaveMap
  <2> QED
    BY <1>5, <2>1, <2>2 DEF SaveMap, TypeOK, disk
<1>6. CASE SaveTime(r)
  <2>1. call[r].onDisk \in Nat /\ call[r].fresh \in Maps
    BY <1>6, ReadCall DEF SaveTime
  <2>2. PICK slug : slug = SlugIn(call[r].fresh, Asked(r))
    OBVIOUS
  <2>3. slug # None => slug \in Slugs /\ Asked(r) \in Tenants
    BY <2>1, <2>2 DEF SlugIn
  <2>4. /\ req' \in [Requests -> Slot] /\ call' \in [Requests -> Call]
        /\ verifiers' \subseteq Tenants
    BY <1>0, <1>6, <2>2, <2>3, AnsweredType DEF SaveTime
  <2> QED
    BY <1>6, <2>1, <2>4 DEF SaveTime, TypeOK, disk
<1> QED
  BY <1>1, <1>2, <1>3, <1>4, <1>5, <1>6 DEF Slug

LEMMA TypeStep == TypeOK /\ InCall /\ [Next]_vars => TypeOK'
<1> SUFFICES ASSUME TypeOK, InCall, [Next]_vars PROVE TypeOK'
  OBVIOUS
<1>1. ASSUME NEW r \in Requests, NEW form \in ConnectForms \cup {Unparsed},
             BeginConnect(r, form)
      PROVE  TypeOK'
  <2>1. CASE form = Unparsed \/ ~PassesIdentity(form)
    BY <1>1, <2>1 DEF BeginConnect, TypeOK, Denied, Slot, disk, registry
  <2>2. CASE ~(form = Unparsed \/ ~PassesIdentity(form))
    <3>1. form \in ConnectForms /\ form.user \in Accounts /\ form.token \in Tokens
      BY <2>2 DEF PassesIdentity, DecideUserIdentity, IsServiceAccountId
    <3>2. [stage |-> "known", user |-> form.user, token |-> form.token,
           awaited |-> TRUE] \in Slot
      BY <3>1 DEF Slot, Connecting, Handling
    <3>3. req' \in [Requests -> Slot]
      BY <1>1, <2>2, <3>2, SlotWritten DEF BeginConnect
    <3>4. call' \in [Requests -> Call]
      BY <1>1, <2>2, CallWritten DEF BeginConnect, Call
    <3> QED
      BY <1>1, <2>2, <3>3, <3>4 DEF BeginConnect, TypeOK, disk, registry
  <2> QED
    BY <2>1, <2>2
<1>2. ASSUME NEW r \in Requests, Slug(r)
      PROVE  TypeOK'
  BY <1>2, SlugStepType
<1>3. ASSUME NEW r \in Requests, VerifyAccepts(r)
      PROVE  TypeOK'
  <2>1. req[r].token \in Tokens
    BY <1>3, HandlingSlot DEF VerifyAccepts, Handling
  <2>2. PICK slot \in Handling : req' = [req EXCEPT ![r] = slot]
    BY <1>3, MovedSlot DEF VerifyAccepts
  <2>3. req' \in [Requests -> Slot]
    BY <2>2, SlotWritten DEF Slot, Connecting
  <2> QED
    BY <1>3, <2>1, <2>3 DEF VerifyAccepts, TypeOK, disk, registry
<1>4. ASSUME NEW r \in Requests, VerifyRejects(r)
      PROVE  TypeOK'
  <2>1. req' \in [Requests -> Slot]
    BY <1>4, UserAsked, ReplyWritten DEF VerifyRejects
  <2> QED
    BY <1>4, <2>1 DEF VerifyRejects, TypeOK, disk, registry
<1>5. ASSUME NEW r \in Requests, JudgeSubject(r)
      PROVE  TypeOK'
  <2>1. CASE Reply(r, UserAsk(req[r].user), FALSE, req[r].awaited) /\ UNCHANGED call
    <3>1. req' \in [Requests -> Slot]
      BY <1>5, <2>1, UserAsked, ReplyWritten DEF JudgeSubject
    <3> QED
      BY <1>5, <2>1, <3>1 DEF JudgeSubject, TypeOK, disk, registry
  <2>2. CASE Moves(r, "naming") /\ Calls(r, Looking)
    <3>1. PICK slot \in Handling : req' = [req EXCEPT ![r] = slot]
      BY <1>5, <2>2, MovedSlot DEF JudgeSubject
    <3>2. req' \in [Requests -> Slot]
      BY <3>1, SlotWritten DEF Slot, Connecting
    <3>3. call' \in [Requests -> Call]
      BY <2>2, CallWritten DEF Call
    <3> QED
      BY <1>5, <3>2, <3>3 DEF JudgeSubject, TypeOK, disk, registry
  <2> QED
    BY <1>5, <2>1, <2>2 DEF JudgeSubject
<1>6. ASSUME NEW r \in Requests, FinishConnect(r)
      PROVE  TypeOK'
  <2>1. req[r] \in Named
    BY <1>6, NamedSlot DEF FinishConnect
  <2>2. [tenant |-> Asked(r), slug |-> req[r].slug, exp |-> req[r].token.exp] \in Session
    BY <2>1 DEF Named, Asked, Session, TokenType
  <2>3. sessions' \in [Users -> Session \cup {None}]
    BY <1>6, <2>2 DEF FinishConnect, TypeOK
  <2>4. req' \in [Requests -> Slot]
    BY <1>6, UserAsked, ReplyWritten DEF FinishConnect
  <2> QED
    BY <1>6, <2>3, <2>4 DEF FinishConnect, TypeOK, disk, registry
<1>7. ASSUME NEW r \in Requests, BeginCheck(r)
      PROVE  TypeOK'
  <2>1. PICK form \in CheckForms \cup {Unparsed} :
          req' = [req EXCEPT ![r] =
            IF form = Unparsed \/ ~Admissible(form.ask, form.vhost, form.clientId)
            THEN Denied
            ELSE [stage |-> "looked", ask |-> form.ask,
                  session |-> sessions[form.ask.user]]]
    BY <1>7 DEF BeginCheck
  <2>2. form # Unparsed => form.ask \in Asks /\ form.ask.user \in Users
    BY DEF Asks
  <2>3. form # Unparsed => [stage |-> "looked", ask |-> form.ask,
                            session |-> sessions[form.ask.user]] \in Checking
    BY <2>2 DEF Checking, TypeOK
  <2>4. req' \in [Requests -> Slot]
    BY <2>1, <2>3 DEF TypeOK, Slot
  <2> QED
    BY <1>7, <2>4 DEF BeginCheck, TypeOK, disk, registry
<1>8. ASSUME NEW r \in Requests, FinishCheck(r)
      PROVE  TypeOK'
  <2>1. req[r].ask \in Asks
    BY <1>8, CheckingSlot DEF FinishCheck, Checking
  <2>2. req' \in [Requests -> Slot]
    BY <1>8, <2>1, ReplyWritten DEF FinishCheck
  <2> QED
    BY <1>8, <2>2 DEF FinishCheck, TypeOK, disk, registry
<1>9. ASSUME NEW r \in Requests, Deliver(r)
      PROVE  TypeOK'
  BY <1>9 DEF Deliver, TypeOK, Slot, disk, registry
<1>10. ASSUME NEW r \in Requests, Abandon(r)
      PROVE  TypeOK'
  <2>1. [req[r] EXCEPT !.awaited = FALSE] \in Slot
    BY <1>10, HandlingSlot DEF Abandon, Handling, Slot, Connecting
  <2>2. \/ req' = [req EXCEPT ![r] = Idle]
        \/ req' = [req EXCEPT ![r] = [req[r] EXCEPT !.awaited = FALSE]]
    BY <1>10 DEF Abandon
  <2>3. req' \in [Requests -> Slot]
    BY <2>1, <2>2 DEF TypeOK, Slot
  <2> QED
    BY <1>10, <2>3 DEF Abandon, TypeOK, disk, registry
<1>11. ASSUME NEW map \in Maps \ {NoMap}, Truncate(map)
       PROVE  TypeOK'
  BY <1>11 DEF Truncate, TypeOK, registry
<1>12. CASE Fill
  <2>1. PICK later \in {0, 1} : file' = [map |-> writer, mtime |-> file.mtime + later]
    BY <1>12 DEF Fill
  <2>2. writer \in Maps /\ file.mtime + later \in Nat
    BY <1>12, <2>1 DEF Fill, TypeOK
  <2> QED
    BY <1>12, <2>1, <2>2 DEF Fill, TypeOK, registry
<1>13. CASE WriterDies
  BY <1>13 DEF WriterDies, TypeOK, registry
<1>14. CASE Tick
  BY <1>14 DEF Tick, TypeOK, disk, registry
<1>15. CASE Restart
  BY <1>15 DEF Restart, TypeOK, NoSessions, NoRequests, NoCalls, disk, Slot, Call
<1>16. CASE Listens
  BY <1>16 DEF Listens, TypeOK, disk
<1>17. CASE UNCHANGED vars
  BY <1>17 DEF vars, disk, registry, TypeOK
<1> QED
  BY <1>1, <1>2, <1>3, <1>4, <1>5, <1>6, <1>7, <1>8, <1>9, <1>10, <1>11, <1>12,
     <1>13, <1>14, <1>15, <1>16, <1>17 DEF Next, Serve

-----------------------------------------------------------------------------
(***************************************************************************)
(* The inductive invariant.                                                *)
(***************************************************************************)
Inv == TypeOK /\ InCall /\ RegistryBacked /\ SessionsBacked /\ SlotsBacked

\* A slug some published map gives the tenant.
SlugBacked(t, slug) == \E m \in published : t \in DOMAIN m /\ m[t] = slug

\* More evidence never unsettles what rests on less.
LEMMA BackedMonotone ==
  ASSUME NEW u, NEW s, Backed(u, s),
         proven \subseteq proven', published \subseteq published'
  PROVE  Backed(u, s)'
BY DEF Backed

LEMMA JustifiedMonotone ==
  ASSUME NEW ask, Justified(ask),
         proven \subseteq proven', published \subseteq published'
  PROVE  Justified(ask)'
BY DEF Justified

LEMMA ServedMonotone ==
  ASSUME NEW t, EverServed(t), published \subseteq published'
  PROVE  EverServed(t)'
BY DEF EverServed

LEMMA SlugMonotone ==
  ASSUME NEW t, NEW slug, SlugBacked(t, slug), published \subseteq published'
  PROVE  SlugBacked(t, slug)'
BY DEF SlugBacked

LEMMA SlugServes ==
  ASSUME NEW t, NEW slug, SlugBacked(t, slug)
  PROVE  EverServed(t)
BY DEF SlugBacked, EverServed

(***************************************************************************)
(* The registry.                                                           *)
(***************************************************************************)
CallBacked(r) ==
  /\ call[r].at \in {"statted", "moved", "read", "saved"} => call[r].onDisk <= file.mtime
  /\ call[r].at \in {"read", "saved"} => call[r].fresh \in published

RegistryParts ==
  /\ {NoMap, slugs, file.map} \subseteq published /\ readAt <= file.mtime
  /\ \A t \in verifiers : EverServed(t)

LEMMA RegistrySplit ==
  RegistryBacked <=> RegistryParts /\ \A r \in Requests : CallBacked(r)
BY DEF RegistryBacked, RegistryParts, CallBacked

\* One call written, over a file that does not grow younger.
LEMMA CallsKept ==
  ASSUME TypeOK, RegistryBacked, NEW r \in Requests, NEW c, Calls(r, c),
         UNCHANGED file, published \subseteq published', CallBacked(r)', RegistryParts'
  PROVE  RegistryBacked'
<1>1. ASSUME NEW q \in Requests PROVE CallBacked(q)'
  <2>1. CASE q = r
    BY <2>1
  <2>2. CASE q # r
    <3>1. call'[q] = call[q]
      BY <2>2 DEF Calls, TypeOK
    <3>2. CallBacked(q)
      BY RegistrySplit
    <3> QED
      BY <3>1, <3>2 DEF CallBacked
  <2> QED
    BY <2>1, <2>2
<1> QED
  BY <1>1 DEF RegistryParts, CallBacked, RegistryBacked

\* A step outside the registry and the file.
LEMMA RegistryUntouched ==
  ASSUME RegistryBacked, UNCHANGED <<file, published, slugs, readAt, verifiers, call>>
  PROVE  RegistryBacked'
BY DEF RegistryBacked, EverServed

LEMMA PartsUntouched ==
  ASSUME RegistryBacked, UNCHANGED <<file, published, slugs, readAt, verifiers>>
  PROVE  RegistryParts'
BY DEF RegistryBacked, RegistryParts, EverServed

\* A call that begins or ends holds nothing yet.
LEMMA EmptyCall ==
  ASSUME TypeOK, NEW r \in Requests, NEW c \in {NoCall, Looking, [at |-> "missed"]},
         Calls(r, c)
  PROVE  CallBacked(r)'
<1>1. call'[r] = c
  BY DEF Calls, TypeOK
<1>2. c.at \notin {"statted", "moved", "read", "saved"}
  BY DEF NoCall, Looking
<1> QED
  BY <1>1, <1>2 DEF CallBacked

LEMMA InCallKept ==
  ASSUME TypeOK, InCall, NEW r \in Requests, NEW slot, NEW c,
         req' = [req EXCEPT ![r] = slot], Calls(r, c),
         c = NoCall \/ slot.stage \in Calling
  PROVE  InCall'
BY DEF InCall, TypeOK, Calls

\* A request outside a call changes its slot.
LEMMA InCallUntouched ==
  ASSUME TypeOK, InCall, NEW r \in Requests, NEW slot,
         req' = [req EXCEPT ![r] = slot], req[r].stage \notin Calling, UNCHANGED call
  PROVE  InCall'
BY DEF InCall, TypeOK

(***************************************************************************)
(* Slots and sessions a step does not touch keep what backs them.          *)
(***************************************************************************)
LEMMA SessionsKept ==
  ASSUME SessionsBacked, UNCHANGED sessions,
         proven \subseteq proven', published \subseteq published'
  PROVE  SessionsBacked'
BY BackedMonotone DEF SessionsBacked

SlotBacked(r) ==
  /\ req[r].stage \in {"routing", "verifying", "verified", "naming", "named"}
       => EverServed(Asked(r))
  /\ req[r].stage \in {"verified", "naming", "named"} => req[r].token \in proven
  /\ req[r].stage \in {"naming", "named"} => req[r].token.sub = req[r].user
  /\ req[r].stage = "named" => SlugBacked(Asked(r), req[r].slug)
  /\ req[r].stage = "looked" /\ req[r].session # None
       => Backed(req[r].ask.user, req[r].session)
  /\ req[r].stage = "allowed" => Justified(req[r].ask)

LEMMA SlotsSplit == SlotsBacked <=> \A r \in Requests : SlotBacked(r)
BY DEF SlotsBacked, SlotBacked, SlugBacked

LEMMA SlotMonotone ==
  ASSUME NEW q \in Requests, SlotBacked(q), req'[q] = req[q],
         proven \subseteq proven', published \subseteq published'
  PROVE  SlotBacked(q)'
<1>1. PICK slot : slot = req[q]
  OBVIOUS
<1>2. req'[q] = slot
  BY <1>1
<1>3. /\ slot.stage \in {"routing", "verifying", "verified", "naming", "named"}
           => EverServed(slot.token.tenant)
      /\ slot.stage = "named" => SlugBacked(slot.token.tenant, slot.slug)
      /\ slot.stage = "looked" /\ slot.session # None
           => Backed(slot.ask.user, slot.session)
      /\ slot.stage = "allowed" => Justified(slot.ask)
      /\ slot.stage \in {"verified", "naming", "named"} => slot.token \in proven
      /\ slot.stage \in {"naming", "named"} => slot.token.sub = slot.user
  BY <1>1 DEF SlotBacked, Asked
<1>4. /\ slot.stage \in {"routing", "verifying", "verified", "naming", "named"}
           => EverServed(slot.token.tenant)'
      /\ slot.stage = "named" => SlugBacked(slot.token.tenant, slot.slug)'
      /\ slot.stage = "looked" /\ slot.session # None
           => Backed(slot.ask.user, slot.session)'
      /\ slot.stage = "allowed" => Justified(slot.ask)'
  BY <1>3, BackedMonotone, JustifiedMonotone, ServedMonotone, SlugMonotone
<1> QED
  BY <1>2, <1>3, <1>4
  DEF SlotBacked, Asked, EverServed, SlugBacked, Backed, Justified

LEMMA SlotsKept ==
  ASSUME TypeOK, SlotsBacked, NEW r \in Requests, NEW slot,
         req' = [req EXCEPT ![r] = slot],
         proven \subseteq proven', published \subseteq published',
         SlotBacked(r)'
  PROVE  SlotsBacked'
<1>1. ASSUME NEW q \in Requests PROVE SlotBacked(q)'
  <2>1. CASE q = r
    BY <2>1
  <2>2. CASE q # r
    <3>1. req'[q] = req[q]
      BY <2>2 DEF TypeOK
    <3> QED
      BY <3>1, SlotsSplit, SlotMonotone
  <2> QED
    BY <2>1, <2>2
<1> QED
  BY <1>1 DEF SlotsBacked, SlotBacked, SlugBacked

LEMMA AllSlotsKept ==
  ASSUME SlotsBacked, UNCHANGED req,
         proven \subseteq proven', published \subseteq published'
  PROVE  SlotsBacked'
<1>1. ASSUME NEW q \in Requests PROVE SlotBacked(q)'
  BY SlotsSplit, SlotMonotone
<1> QED
  BY <1>1 DEF SlotsBacked, SlotBacked, SlugBacked

\* A refusal needs no evidence.
LEMMA RefusalBacked ==
  ASSUME TypeOK, NEW r \in Requests,
         req' = [req EXCEPT ![r] = Denied] \/ req' = [req EXCEPT ![r] = Idle]
  PROVE  SlotBacked(r)'
BY DEF SlotBacked, TypeOK, Idle, Denied

(***************************************************************************)
(* The answer of a call, on the evidence of a published map.               *)
(***************************************************************************)
LEMMA AnsweredBacked ==
  ASSUME Inv, NEW r \in Requests, NEW slug, Answered(r, slug),
         req[r].stage \in Calling, slug # None => SlugBacked(Asked(r), slug),
         UNCHANGED <<proven, published>>
  PROVE  /\ SlotsBacked' /\ InCall' /\ CallBacked(r)'
         /\ \E c : Calls(r, c)
         /\ \A t \in verifiers' : EverServed(t)'
<1> USE DEF Inv
<1>1. PICK c \in {NoCall, Looking} : Calls(r, c) /\ (c = Looking =>
        slug # None /\ req[r].stage = "known")
  <2>1. NoCall # Looking
    BY DEF NoCall, Looking
  <2>2. \/ Calls(r, NoCall)
        \/ Calls(r, Looking) /\ slug # None /\ req[r].stage = "known"
    BY DEF Answered
  <2> QED
    BY <2>1, <2>2
<1>2. CallBacked(r)'
  BY <1>1, EmptyCall
<1>9. PICK t : t = Asked(r)
  OBVIOUS
<1>3. slug # None => EverServed(t) /\ EverServed(t)' /\ SlugBacked(t, slug)'
  BY <1>9, SlugServes DEF EverServed, SlugBacked
<1>4. \A v \in verifiers : EverServed(v)'
  BY DEF RegistryBacked, EverServed
<1>5. \A v \in verifiers' : EverServed(v)'
  <2>1. \/ verifiers' = verifiers
        \/ verifiers' = verifiers \cup {t} /\ slug # None
    BY <1>9 DEF Answered
  <2> QED
    BY <1>3, <1>4, <2>1
<1>6. CASE slug = None
  <2>1. req' = [req EXCEPT ![r] = Denied] \/ req' = [req EXCEPT ![r] = Idle]
    BY <1>6 DEF Answered, Reply
  <2>2. SlotsBacked'
    BY <2>1, RefusalBacked, SlotsKept
  <2>3. InCall'
    BY <1>1, <1>6, <2>1, InCallKept
  <2> QED
    BY <1>1, <1>2, <1>5, <2>2, <2>3
<1>7. CASE slug # None /\ req[r].stage \in {"known", "routing"}
  <2>1. PICK stage \in {"routing", "verifying"} :
          Moves(r, stage) /\ (c = Looking => stage = "routing")
    BY <1>1, <1>7 DEF Answered, NoCall, Looking
  <2>2. PICK slot \in Handling :
          /\ req' = [req EXCEPT ![r] = slot] /\ slot.stage = stage
          /\ slot.token = req[r].token
    BY <1>7, <2>1, MovedSlot
  <2>3. req'[r] = slot
    BY <2>2 DEF TypeOK
  <2>4. SlotBacked(r)'
    BY <1>3, <1>7, <1>9, <2>1, <2>2, <2>3 DEF SlotBacked, Asked
  <2>5. SlotsBacked'
    BY <2>2, <2>4, SlotsKept
  <2>6. InCall'
    BY <1>1, <2>1, <2>2, InCallKept DEF Calling
  <2> QED
    BY <1>1, <1>2, <1>5, <2>5, <2>6
<1>8. CASE slug # None /\ req[r].stage = "naming"
  <2>1. PICK slot : slot = [stage |-> "named", user |-> req[r].user, token |-> req[r].token,
                            awaited |-> req[r].awaited, slug |-> slug]
    OBVIOUS
  <2>2. req' = [req EXCEPT ![r] = slot] /\ c = NoCall
    BY <1>1, <1>8, <2>1 DEF Answered
  <2>3. req'[r] = slot
    BY <2>2 DEF TypeOK
  <2>4. SlotBacked(r)
    BY SlotsSplit
  <2>5. /\ req[r].token \in proven /\ req[r].token.sub = req[r].user
    BY <1>8, <2>4 DEF SlotBacked
  <2>6. SlotBacked(r)'
    BY <1>3, <1>8, <1>9, <2>1, <2>3, <2>5 DEF SlotBacked, Asked
  <2>7. SlotsBacked'
    BY <2>2, <2>6, SlotsKept
  <2>8. InCall'
    BY <1>1, <2>2, InCallKept
  <2> QED
    BY <1>1, <1>2, <1>5, <2>7, <2>8
<1> QED
  BY <1>6, <1>7, <1>8 DEF Calling

LEMMA SlugStep ==
  ASSUME Inv, NEW r \in Requests, Slug(r)
  PROVE  InCall' /\ RegistryBacked' /\ SessionsBacked' /\ SlotsBacked'
<1> USE DEF Inv
<1>1. UNCHANGED <<sessions, proven, file, published>>
  BY DEF Slug, Look, Stat, Compare, Load, SaveMap, SaveTime, disk
<1>2. SessionsBacked'
  BY <1>1, SessionsKept
<1>3. call[r].at # "none" => req[r].stage \in Calling
  BY DEF InCall, NoCall
<1>4. CallBacked(r)
  BY RegistrySplit
<1>5. ASSUME NEW slug, Answered(r, slug), call[r].at # "none",
             slug # None => SlugBacked(Asked(r), slug),
             slugs' \in published, readAt' <= file.mtime
      PROVE  InCall' /\ RegistryBacked' /\ SlotsBacked'
  <2>1. /\ SlotsBacked' /\ InCall' /\ CallBacked(r)'
        /\ \A t \in verifiers' : EverServed(t)'
    BY <1>1, <1>3, <1>5, AnsweredBacked
  <2>2. PICK c : Calls(r, c)
    BY <1>1, <1>3, <1>5, AnsweredBacked
  <2>3. RegistryParts'
    BY <1>1, <1>5, <2>1 DEF RegistryParts, RegistryBacked
  <2> QED
    BY <1>1, <2>1, <2>2, <2>3, CallsKept
<1>6. ASSUME NEW c, Calls(r, c), UNCHANGED <<req, verifiers>>, call[r].at # "none",
             CallBacked(r)', slugs' \in published, readAt' <= file.mtime
      PROVE  InCall' /\ RegistryBacked' /\ SlotsBacked'
  <2>1. InCall'
    BY <1>3, <1>6 DEF InCall, Calls, TypeOK
  <2>2. SlotsBacked'
    BY <1>1, <1>6, AllSlotsKept
  <2>3. RegistryParts'
    BY <1>1, <1>6 DEF RegistryParts, RegistryBacked, EverServed
  <2> QED
    BY <1>1, <1>6, <2>1, <2>2, <2>3, CallsKept
<1>7. slugs \in published /\ readAt <= file.mtime /\ file.map \in published
  BY DEF RegistryBacked
<1>8. CASE Look(r)
  <2>1. UNCHANGED <<slugs, readAt>> /\ call[r].at # "none"
    BY <1>8 DEF Look
  <2>2. CASE Asked(r) \in DOMAIN slugs /\ Answered(r, slugs[Asked(r)])
    <3>1. SlugBacked(Asked(r), slugs[Asked(r)])
      BY <1>7, <2>2 DEF SlugBacked
    <3> QED
      BY <1>2, <1>5, <1>7, <2>1, <2>2, <3>1
  <2>3. CASE Calls(r, [at |-> "missed"]) /\ UNCHANGED <<req, verifiers>>
    <3>1. CallBacked(r)'
      BY <2>3, EmptyCall
    <3> QED
      BY <1>2, <1>6, <1>7, <2>1, <2>3, <3>1
  <2> QED
    BY <1>8, <2>2, <2>3 DEF Look
<1>9. CASE Stat(r)
  <2>1. PICK c : c = [at |-> "statted", onDisk |-> file.mtime]
    OBVIOUS
  <2>2. /\ Calls(r, c) /\ UNCHANGED <<req, verifiers, slugs, readAt>> /\ call[r].at # "none"
    BY <1>9, <2>1 DEF Stat, registry
  <2>3. call'[r] = c /\ file.mtime \in Nat
    BY <2>2 DEF Calls, TypeOK
  <2>4. CallBacked(r)'
    BY <1>1, <2>1, <2>3 DEF CallBacked
  <2> QED
    BY <1>2, <1>6, <1>7, <2>2, <2>4
<1>10. CASE Compare(r)
  <2>1. UNCHANGED <<slugs, readAt>> /\ call[r].at = "statted"
    BY <1>10 DEF Compare
  <2>2. CASE Answered(r, None)
    BY <1>2, <1>5, <1>7, <2>1, <2>2
  <2>3. CASE Calls(r, [call[r] EXCEPT !.at = "moved"]) /\ UNCHANGED <<req, verifiers>>
    <3>1. PICK n \in Nat : call[r] = [at |-> "statted", onDisk |-> n]
      BY <2>1, StattedCall
    <3>2. PICK c : c = [at |-> "moved", onDisk |-> n]
      OBVIOUS
    <3>3. [call[r] EXCEPT !.at = "moved"] = c
      BY <3>1, <3>2
    <3>4. Calls(r, c)
      BY <2>3, <3>3
    <3>5. n <= file.mtime
      BY <1>4, <3>1 DEF CallBacked
    <3>6. call'[r] = c
      BY <3>4 DEF Calls, TypeOK
    <3>7. CallBacked(r)'
      BY <1>1, <3>2, <3>5, <3>6 DEF CallBacked
    <3> QED
      BY <1>2, <1>6, <1>7, <2>1, <2>3, <3>4, <3>7
  <2> QED
    BY <1>10, <2>2, <2>3 DEF Compare
<1>11. CASE Load(r)
  <2>1. PICK c : c = [at |-> "read", onDisk |-> call[r].onDisk, fresh |-> file.map]
    OBVIOUS
  <2>2. /\ Calls(r, c) /\ UNCHANGED <<req, verifiers, slugs, readAt>> /\ call[r].at = "moved"
    BY <1>11, <2>1 DEF Load, registry
  <2>3. call'[r] = c
    BY <2>2 DEF Calls, TypeOK
  <2>4. c.onDisk <= file.mtime
    BY <1>4, <2>1, <2>2 DEF CallBacked
  <2>5. CallBacked(r)'
    BY <1>1, <1>7, <2>1, <2>3, <2>4 DEF CallBacked
  <2> QED
    BY <1>2, <1>6, <1>7, <2>2, <2>5
<1>12. CASE SaveMap(r)
  <2>1. PICK n \in Nat, m \in Maps : call[r] = [at |-> "read", onDisk |-> n, fresh |-> m]
    BY <1>12, ReadCall DEF SaveMap
  <2>2. PICK c : c = [at |-> "saved", onDisk |-> n, fresh |-> m]
    OBVIOUS
  <2>3. [call[r] EXCEPT !.at = "saved"] = c
    BY <2>1, <2>2
  <2>4. Calls(r, c) /\ slugs' = m /\ UNCHANGED <<req, verifiers, readAt>>
    BY <1>12, <2>1, <2>3 DEF SaveMap
  <2>5. n <= file.mtime /\ m \in published
    BY <1>4, <2>1 DEF CallBacked
  <2>6. call'[r] = c
    BY <2>4 DEF Calls, TypeOK
  <2>7. CallBacked(r)'
    BY <1>1, <2>2, <2>5, <2>6 DEF CallBacked
  <2> QED
    BY <1>2, <1>6, <1>7, <2>1, <2>4, <2>5, <2>7
<1>13. CASE SaveTime(r)
  <2>1. PICK slug : slug = SlugIn(call[r].fresh, Asked(r))
    OBVIOUS
  <2>2. call[r].fresh \in published /\ call[r].onDisk <= file.mtime
    BY <1>4, <1>13 DEF CallBacked, SaveTime
  <2>3. slug # None => SlugBacked(Asked(r), slug)
    BY <2>1, <2>2 DEF SlugIn, SlugBacked
  <2>4. Answered(r, slug) /\ readAt' = call[r].onDisk /\ slugs' = slugs /\ call[r].at # "none"
    BY <1>13, <2>1 DEF SaveTime
  <2> QED
    BY <1>2, <1>5, <1>7, <2>2, <2>3, <2>4
<1> QED
  BY <1>8, <1>9, <1>10, <1>11, <1>12, <1>13 DEF Slug

\* A file that grows younger, and what was published with it.
LEMMA Grows ==
  ASSUME TypeOK, RegistryBacked, NEW map, NEW step \in {0, 1},
         file' = [map |-> map, mtime |-> file.mtime + step], map \in published',
         published \subseteq published', UNCHANGED <<call, slugs, readAt, verifiers>>
  PROVE  RegistryBacked'
<1>1. file.mtime \in Nat /\ file'.mtime = file.mtime + step /\ file'.map = map
  BY DEF TypeOK
<1>2. \A t \in verifiers : EverServed(t)'
  BY DEF RegistryBacked, EverServed
<1>3. readAt' <= file'.mtime
  BY <1>1 DEF RegistryBacked, TypeOK
<1>4. ASSUME NEW r \in Requests PROVE CallBacked(r)'
  <2>1. CallBacked(r)
    BY RegistrySplit
  <2>2. call[r].at \in {"statted", "moved", "read", "saved"} => call[r].onDisk \in Nat
    BY StattedCall, ReadCall
  <2> QED
    BY <1>1, <2>1, <2>2 DEF CallBacked
<1> QED
  BY <1>1, <1>2, <1>3, <1>4 DEF RegistryBacked, CallBacked, TypeOK

LEMMA InvInit == Init => Inv
<1> SUFFICES ASSUME Init PROVE Inv
  OBVIOUS
<1>1. TypeOK
  BY TypeInit
<1>2. InCall /\ RegistryBacked
  BY DEF Init, InCall, RegistryBacked, NoCalls, NoCall
<1>3. SessionsBacked /\ SlotsBacked
  BY DEF Init, SessionsBacked, SlotsBacked, NoSessions, NoRequests, Idle
<1> QED
  BY <1>1, <1>2, <1>3 DEF Inv

LEMMA InvStep == Inv /\ [Next]_vars => Inv'
<1> SUFFICES ASSUME Inv, [Next]_vars PROVE Inv'
  OBVIOUS
<1> USE DEF Inv
<1>0. TypeOK'
  BY TypeStep
<1>1. ASSUME NEW r \in Requests, NEW form \in ConnectForms \cup {Unparsed},
             BeginConnect(r, form)
      PROVE  Inv'
  <2>1. SessionsBacked' /\ UNCHANGED <<file, published, proven, slugs, readAt, verifiers>>
    BY <1>1, SessionsKept DEF BeginConnect, disk, registry
  <2>2. CASE req' = [req EXCEPT ![r] = Denied] /\ UNCHANGED call
    <3>1. InCall'
      <4>1. req[r].stage \notin Calling
        BY <1>1 DEF BeginConnect, Idle, Calling
      <4> QED
        BY <2>2, <4>1, InCallUntouched
    <3> QED
      <4>1. RegistryBacked'
        BY <2>1, <2>2, RegistryUntouched
      <4>2. SlotsBacked'
        BY <2>1, <2>2, RefusalBacked, SlotsKept
      <4> QED
        BY <1>0, <2>1, <3>1, <4>1, <4>2
  <2>3. CASE /\ req' = [req EXCEPT ![r] = [stage |-> "known", user |-> form.user,
                                           token |-> form.token, awaited |-> TRUE]]
             /\ Calls(r, Looking)
    <3>1. PICK slot : slot.stage = "known" /\ req' = [req EXCEPT ![r] = slot]
      BY <2>3
    <3>2. SlotBacked(r)'
      BY <3>1 DEF SlotBacked, TypeOK
    <3>3. InCall'
      BY <2>3, <3>1, InCallKept DEF Calling
    <3>4. RegistryBacked'
      BY <2>1, <2>3, EmptyCall, PartsUntouched, CallsKept
    <3> QED
      BY <1>0, <2>1, <3>1, <3>2, <3>3, <3>4, SlotsKept
  <2> QED
    BY <1>1, <2>2, <2>3 DEF BeginConnect
<1>2. ASSUME NEW r \in Requests, Slug(r)
      PROVE  Inv'
  BY <1>0, <1>2, SlugStep
<1>3. ASSUME NEW r \in Requests, VerifyAccepts(r)
      PROVE  Inv'
  <2>1. RegistryBacked' /\ SessionsBacked' /\ UNCHANGED <<published, call>>
    BY <1>3, RegistryUntouched, SessionsKept DEF VerifyAccepts, disk, registry
  <2>2. PICK slot \in Handling :
          /\ req' = [req EXCEPT ![r] = slot] /\ slot.stage = "verified"
          /\ slot.token = req[r].token
    BY <1>3, MovedSlot DEF VerifyAccepts
  <2>3. InCall'
    BY <1>3, <2>1, <2>2, InCallUntouched DEF VerifyAccepts, Calling
  <2>4. EverServed(Asked(r))'
    BY <1>3, <2>1 DEF VerifyAccepts, SlotsBacked, EverServed, Asked, Moves
       , TypeOK
  <2>5. req'[r] = slot /\ slot.token \in proven'
    BY <1>3, <2>2 DEF VerifyAccepts, TypeOK
  <2>6. SlotBacked(r)'
    BY <2>2, <2>4, <2>5 DEF SlotBacked
  <2> QED
    BY <1>0, <1>3, <2>1, <2>2, <2>3, <2>6, SlotsKept DEF VerifyAccepts
<1>4. ASSUME NEW r \in Requests, VerifyRejects(r)
      PROVE  Inv'
  <2>1. RegistryBacked' /\ SessionsBacked' /\ UNCHANGED <<published, proven, call>>
    BY <1>4, RegistryUntouched, SessionsKept DEF VerifyRejects, disk, registry
  <2>2. req' = [req EXCEPT ![r] = Denied] \/ req' = [req EXCEPT ![r] = Idle]
    BY <1>4 DEF VerifyRejects, Reply
  <2>3. InCall'
    BY <1>4, <2>1, <2>2, InCallUntouched DEF VerifyRejects, Calling
  <2> QED
    BY <1>0, <2>1, <2>2, <2>3, RefusalBacked, SlotsKept
<1>5. ASSUME NEW r \in Requests, JudgeSubject(r)
      PROVE  Inv'
  <2>1. /\ SessionsBacked'
        /\ UNCHANGED <<file, published, proven, slugs, readAt, verifiers>>
    BY <1>5, SessionsKept DEF JudgeSubject, disk, registry
  <2>2. CASE Reply(r, UserAsk(req[r].user), FALSE, req[r].awaited) /\ UNCHANGED call
    <3>1. req' = [req EXCEPT ![r] = Denied] \/ req' = [req EXCEPT ![r] = Idle]
      BY <2>2 DEF Reply
    <3>2. InCall'
      BY <1>5, <2>2, <3>1, InCallUntouched DEF JudgeSubject, Calling
    <3> QED
      BY <1>0, <2>1, <2>2, <3>1, <3>2, RegistryUntouched, RefusalBacked, SlotsKept
  <2>3. CASE /\ DecideUserSubject(req[r].user, req[r].token)
             /\ Moves(r, "naming") /\ Calls(r, Looking)
    <3>1. PICK slot \in Handling :
            /\ req' = [req EXCEPT ![r] = slot] /\ slot.stage = "naming"
            /\ slot.token = req[r].token /\ slot.user = req[r].user
      BY <1>5, <2>3, MovedSlot DEF JudgeSubject
    <3>2. SlotBacked(r) /\ req'[r] = slot
      BY <3>1, SlotsSplit DEF TypeOK
    <3>3. slot.token \in proven /\ slot.token.sub = slot.user /\ EverServed(slot.token.tenant)
      BY <1>5, <2>3, <3>1, <3>2 DEF JudgeSubject, SlotBacked, DecideUserSubject, Asked
    <3>4. SlotBacked(r)'
      BY <2>1, <3>1, <3>2, <3>3 DEF SlotBacked, EverServed, Asked
    <3>5. InCall'
      BY <2>3, <3>1, InCallKept DEF Calling
    <3>6. RegistryBacked'
      BY <2>1, <2>3, EmptyCall, PartsUntouched, CallsKept
    <3> QED
      BY <1>0, <2>1, <3>1, <3>4, <3>5, <3>6, SlotsKept
  <2> QED
    BY <1>5, <2>2, <2>3 DEF JudgeSubject
<1>6. ASSUME NEW r \in Requests, FinishConnect(r)
      PROVE  Inv'
  <2>1. PICK u, token, slug :
          u = req[r].user /\ token = req[r].token /\ slug = req[r].slug
    OBVIOUS
  <2>2. u \in Accounts /\ u \in Users
    BY <1>6, <2>1, NamedSlot DEF FinishConnect, Named, Users
  <2>3. SlotBacked(r)
    BY SlotsSplit
  <2>4. /\ token \in proven /\ token.sub = u /\ EverServed(token.tenant)
        /\ SlugBacked(token.tenant, slug)
    BY <1>6, <2>1, <2>3 DEF FinishConnect, SlotBacked, Asked
  <2>5. RegistryBacked' /\ UNCHANGED <<published, proven, call>>
    BY <1>6, RegistryUntouched DEF FinishConnect, disk, registry
  <2>6. \/ req' = [req EXCEPT ![r] = [stage |-> "allowed", ask |-> UserAsk(u)]]
        \/ req' = [req EXCEPT ![r] = Idle]
    BY <1>6, <2>1 DEF FinishConnect, Reply
  <2>7. InCall'
    BY <1>6, <2>5, <2>6, InCallUntouched DEF FinishConnect, Calling
  <2>8. Justified(UserAsk(u))'
    BY <2>2, <2>4, <2>5 DEF Justified, UserAsk, EverServed
  <2>9. SlotBacked(r)'
    BY <2>6, <2>8 DEF SlotBacked, TypeOK, Idle
  <2>10. SlotsBacked'
    BY <2>5, <2>6, <2>9, SlotsKept
  <2>11. PICK s : s = [tenant |-> token.tenant, slug |-> slug, exp |-> token.exp]
    OBVIOUS
  <2>12. Backed(u, s)'
    BY <2>2, <2>4, <2>5, <2>11 DEF Backed, SlugBacked
  <2>13. sessions' = [sessions EXCEPT ![u] = s]
    BY <1>6, <2>1, <2>11 DEF FinishConnect, Asked
  <2>14. SessionsBacked'
    <3>1. ASSUME NEW v \in Users, NEW held, held = sessions'[v], held # None
          PROVE  Backed(v, held)'
      <4>1. CASE v = u
        BY <2>2, <2>12, <2>13, <3>1, <4>1 DEF TypeOK
      <4>2. CASE v # u
        <5>1. held = sessions[v]
          BY <2>13, <3>1, <4>2 DEF TypeOK
        <5>2. Backed(v, held)
          BY <3>1, <5>1 DEF SessionsBacked
        <5> QED
          BY <2>5, <5>2, BackedMonotone
      <4> QED
        BY <4>1, <4>2
    <3> QED
      BY <3>1 DEF SessionsBacked, Backed
  <2> QED
    BY <1>0, <2>5, <2>7, <2>10, <2>14
<1>7. ASSUME NEW r \in Requests, BeginCheck(r)
      PROVE  Inv'
  <2>1. RegistryBacked' /\ SessionsBacked' /\ UNCHANGED <<published, proven, call>>
    BY <1>7, RegistryUntouched, SessionsKept DEF BeginCheck, disk, registry
  <2>2. PICK form \in CheckForms \cup {Unparsed} :
          req' = [req EXCEPT ![r] =
            IF form = Unparsed \/ ~Admissible(form.ask, form.vhost, form.clientId)
            THEN Denied
            ELSE [stage |-> "looked", ask |-> form.ask,
                  session |-> sessions[form.ask.user]]]
    BY <1>7 DEF BeginCheck
  <2>3. form # Unparsed => form.ask.user \in Users
    BY DEF Asks
  <2>4. PICK u, s : u = form.ask.user /\ s = sessions[u]
    OBVIOUS
  <2>5. form # Unparsed /\ s # None => Backed(u, s)'
    BY <2>1, <2>3, <2>4, BackedMonotone DEF SessionsBacked
  <2>6. SlotBacked(r)'
    <3>1. CASE req' = [req EXCEPT ![r] = Denied]
      BY <3>1, RefusalBacked
    <3>2. CASE /\ form # Unparsed
               /\ req' = [req EXCEPT ![r] = [stage |-> "looked", ask |-> form.ask,
                                             session |-> s]]
      BY <2>4, <2>5, <3>2 DEF SlotBacked, TypeOK
    <3> QED
      BY <2>2, <2>4, <3>1, <3>2
  <2>7. InCall'
    <3>1. PICK slot : req' = [req EXCEPT ![r] = slot]
      BY <2>2
    <3> QED
      <4>1. req[r].stage \notin Calling
        BY <1>7 DEF BeginCheck, Idle, Calling
      <4> QED
        BY <2>1, <3>1, <4>1, InCallUntouched
  <2> QED
    BY <1>0, <2>1, <2>2, <2>6, <2>7, SlotsKept
<1>8. ASSUME NEW r \in Requests, FinishCheck(r)
      PROVE  Inv'
  <2>1. PICK s, ask : s = req[r].session /\ ask = req[r].ask
    OBVIOUS
  <2>2. RegistryBacked' /\ SessionsBacked' /\ UNCHANGED <<published, proven, call>>
    BY <1>8, RegistryUntouched, SessionsKept DEF FinishCheck, disk, registry
  <2>3. IsLive(s, now) /\ Covers(ask, s.slug) => Justified(ask)'
    <3> SUFFICES ASSUME s # None, Covers(ask, s.slug) PROVE Justified(ask)'
      BY DEF IsLive
    <3>1. Backed(ask.user, s)
      BY <1>8, <2>1 DEF FinishCheck, SlotsBacked
    <3>2. PICK token \in proven :
            token.sub = ask.user /\ token.tenant = s.tenant
      BY <3>1 DEF Backed
    <3>3. PICK m \in published : s.tenant \in DOMAIN m /\ m[s.tenant] = s.slug
      BY <3>1 DEF Backed
    <3>4. ask.user \in Accounts /\ Covers(ask, m[token.tenant])
      BY <3>1, <3>2, <3>3 DEF Backed
    <3> QED
      BY <2>2, <3>2, <3>3, <3>4 DEF Justified
  <2>4. SlotBacked(r)'
    BY <1>8, <2>1, <2>3 DEF FinishCheck, Reply, SlotBacked, TypeOK, Denied
  <2>5. PICK slot : req' = [req EXCEPT ![r] = slot]
    BY <1>8 DEF FinishCheck, Reply
  <2>6. InCall'
    BY <1>8, <2>2, <2>5, InCallUntouched DEF FinishCheck, Calling
  <2> QED
    BY <1>0, <2>2, <2>4, <2>5, <2>6, SlotsKept
<1>9. ASSUME NEW r \in Requests, Deliver(r)
      PROVE  Inv'
  <2>1. RegistryBacked' /\ SessionsBacked' /\ UNCHANGED <<published, proven, call>>
    BY <1>9, RegistryUntouched, SessionsKept DEF Deliver, disk, registry
  <2>2. req' = [req EXCEPT ![r] = Idle]
    BY <1>9 DEF Deliver
  <2>3. InCall'
    BY <1>9, <2>1, <2>2, InCallUntouched DEF Deliver, Calling
  <2> QED
    BY <1>0, <2>1, <2>2, <2>3, RefusalBacked, SlotsKept
<1>10. ASSUME NEW r \in Requests, Abandon(r)
      PROVE  Inv'
  <2>1. RegistryBacked' /\ SessionsBacked' /\ UNCHANGED <<published, proven, call>>
    BY <1>10, RegistryUntouched, SessionsKept DEF Abandon, disk, registry
  <2>2. PICK slot \in {Idle, [req[r] EXCEPT !.awaited = FALSE]} :
          req' = [req EXCEPT ![r] = slot]
    BY <1>10 DEF Abandon
  <2>3. InCall'
    BY <1>10, <2>1, <2>2, InCallUntouched DEF Abandon, Calling
  <2>4. SlotBacked(r) /\ req[r] \in Handling
    BY <1>10, SlotsSplit, HandlingSlot DEF Abandon
  <2>5. SlotBacked(r)'
    <3>1. CASE slot = Idle
      BY <2>2, <3>1, RefusalBacked
    <3>2. CASE slot = [req[r] EXCEPT !.awaited = FALSE]
      <4>1. slot.stage = "verifying" /\ slot.token = req[r].token
        BY <1>10, <2>4, <3>2 DEF Abandon, Handling
      <4>2. req'[r] = slot
        BY <2>2 DEF TypeOK
      <4>3. EverServed(slot.token.tenant)
        BY <1>10, <2>4, <4>1 DEF Abandon, SlotBacked, Asked
      <4> QED
        BY <2>1, <4>1, <4>2, <4>3 DEF SlotBacked, Asked, EverServed
    <3> QED
      BY <2>2, <3>1, <3>2
  <2> QED
    BY <1>0, <2>1, <2>2, <2>3, <2>5, SlotsKept
<1>11. ASSUME NEW map \in Maps \ {NoMap}, Truncate(map)
       PROVE  Inv'
  <2>1. UNCHANGED <<published, proven, req, sessions, call, slugs, readAt, verifiers>>
    BY <1>11 DEF Truncate, registry
  <2>2. file' = [map |-> NoMap, mtime |-> file.mtime + 1] /\ file.mtime \in Nat
    BY <1>11 DEF Truncate, TypeOK
  <2>3. RegistryBacked'
    <3>1. NoMap \in published'
      BY <2>1 DEF RegistryBacked
    <3> QED
      BY <2>1, <2>2, <3>1, Grows
  <2> QED
    BY <1>0, <2>1, <2>3, SessionsKept, AllSlotsKept DEF InCall
<1>12. CASE Fill
  <2>1. PICK later \in {0, 1} : file' = [map |-> writer, mtime |-> file.mtime + later]
    BY <1>12 DEF Fill
  <2>2. /\ UNCHANGED <<proven, req, sessions, call, slugs, readAt, verifiers>>
        /\ published' = published \cup {writer}
    BY <1>12 DEF Fill, registry
  <2>3. RegistryBacked'
    BY <2>1, <2>2, Grows
  <2> QED
    BY <1>0, <2>2, <2>3, SessionsKept, AllSlotsKept DEF InCall
<1>13. CASE WriterDies \/ Tick \/ UNCHANGED vars
  <2>1. UNCHANGED <<file, published, proven, req, sessions, call, slugs, readAt, verifiers>>
    BY <1>13 DEF WriterDies, Tick, vars, registry, disk
  <2> QED
    BY <1>0, <2>1, RegistryUntouched, SessionsKept, AllSlotsKept DEF InCall
<1>14. CASE Restart
  <2>1. RegistryBacked' /\ InCall'
    BY <1>14 DEF Restart, RegistryBacked, TypeOK, NoCalls, NoCall, disk, InCall
  <2>2. SessionsBacked' /\ SlotsBacked'
    BY <1>14 DEF Restart, SessionsBacked, SlotsBacked, NoSessions, NoRequests, Idle
  <2> QED
    BY <1>0, <2>1, <2>2
<1>15. CASE Listens
  <2>1. UNCHANGED <<published, proven, req, sessions, call, slugs, file>>
    BY <1>15 DEF Listens, disk
  <2>2. readAt' = file.mtime /\ verifiers' = DOMAIN slugs
    BY <1>15 DEF Listens
  <2>3. RegistryParts'
    BY <2>1, <2>2 DEF RegistryParts, RegistryBacked, EverServed, TypeOK
  <2>4. RegistryBacked'
    BY <2>1, <2>3 DEF RegistryBacked, RegistryParts
  <2> QED
    BY <1>0, <2>1, <2>4, SessionsKept, AllSlotsKept DEF InCall
<1> QED
  BY <1>1, <1>2, <1>3, <1>4, <1>5, <1>6, <1>7, <1>8, <1>9, <1>10, <1>11, <1>12,
     <1>13, <1>14, <1>15 DEF Next, Serve

(***************************************************************************)
(* The Twin's state keeps its types, whatever the broker sends and however *)
(* its requests interleave.                                                *)
(***************************************************************************)
THEOREM TypeCorrect == Spec => []TypeOK
<1>1. Inv => TypeOK
  BY DEF Inv
<1> QED
  BY <1>1, InvInit, InvStep, PTL DEF Spec

-----------------------------------------------------------------------------
(***************************************************************************)
(* The Twin's evidence is never ahead of its tokens: whatever the schedule *)
(* of awaits, locks, reloads, rewrites of the map and restarts, sessions,  *)
(* answers in flight and what the registry holds stay backed.              *)
(***************************************************************************)
THEOREM EvidenceKept == Spec => []EvidenceBacked
<1>1. Inv => EvidenceBacked
  BY DEF Inv, EvidenceBacked
<1> QED
  BY <1>1, InvInit, InvStep, PTL DEF Spec

\* An allowed topic is a key of the asking device, under some published slug.
LEMMA AllowedOwned ==
  ASSUME Inv, NEW r \in Requests, AllowedTopic(r)
  PROVE  /\ req[r].ask.user \in Accounts /\ req[r].ask.what \in Keys
         /\ \E slug \in Slugs : OwnsRoutingKey(slug, req[r].ask.user, req[r].ask.what)
<1>1. Justified(req[r].ask)
  BY DEF Inv, SlotsBacked, AllowedTopic
<1>2. PICK token \in proven, m \in published :
        /\ token.tenant \in DOMAIN m
        /\ req[r].ask.kind # "user" => Covers(req[r].ask, m[token.tenant])
  BY <1>1 DEF Justified
<1>3. m[token.tenant] \in Slugs
  BY <1>2 DEF Inv, TypeOK
<1>4. OwnsRoutingKey(m[token.tenant], req[r].ask.user, req[r].ask.what)
  BY <1>2 DEF AllowedTopic, Covers
<1>5. req[r] \in Allowed
  BY AllowedSlot DEF Inv, AllowedTopic
<1>6. req[r].ask \in Asks
  BY <1>5 DEF Allowed
<1>7. req[r].ask.what \in Keys
  BY <1>6 DEF Asks, AllowedTopic
<1> QED
  BY <1>1, <1>3, <1>4, <1>7 DEF Justified

(***************************************************************************)
(* No two devices are ever allowed keys that meet, whatever a tenant map   *)
(* reload, a restart or a late CONNECT does in between.                    *)
(***************************************************************************)
THEOREM TopicsStayPrivate == Spec => []NoSharedTopics
<1>1. Inv => NoSharedTopics
  <2> SUFFICES ASSUME Inv, NEW r1 \in Requests, NEW r2 \in Requests,
                      AllowedTopic(r1), AllowedTopic(r2), Concrete(req[r2].ask.what),
                      RoutingMatches(req[r1].ask.what, req[r2].ask.what)
               PROVE  req[r1].ask.user = req[r2].ask.user
    BY DEF NoSharedTopics
  <2>1. PICK slug1 \in Slugs : OwnsRoutingKey(slug1, req[r1].ask.user, req[r1].ask.what)
    BY AllowedOwned
  <2>2. PICK slug2 \in Slugs : OwnsRoutingKey(slug2, req[r2].ask.user, req[r2].ask.what)
    BY AllowedOwned
  <2>3. /\ req[r1].ask.user \in Names /\ req[r2].ask.user \in Names
        /\ req[r1].ask.what \in Seq(Level) /\ req[r2].ask.what \in Seq(Level)
    BY AllowedOwned
  <2> QED
    BY <2>1, <2>2, <2>3, SubscriptionsDisjoint
<1> QED
  BY <1>1, InvInit, InvStep, PTL DEF Spec
-----------------------------------------------------------------------------
(***************************************************************************)
(* The cache.                                                              *)
(***************************************************************************)
\* A CONNECT that ends changes at most its own user's session, and only when
\* it is allowed.
LEMMA ConnectCaches ==
  ASSUME TypeOK, NEW r \in Requests, FinishConnect(r)
  PROVE  /\ req[r].stage = "named"
         /\ req'[r] \in {Idle, [stage |-> "allowed", ask |-> UserAsk(req[r].user)]}
         /\ \A u \in Users \ {req[r].user} : sessions'[u] = sessions[u]
         /\ sessions'[req[r].user] # None
<1> DEFINE u == req[r].user
           s == [tenant |-> Asked(r), slug |-> req[r].slug, exp |-> req[r].token.exp]
<1>1. req[r] \in Named /\ u \in Users
  BY NamedSlot DEF FinishConnect, Named, Users
<1>2. s \in Session
  BY <1>1 DEF Named, Asked, Session, TokenType
<1>3. sessions' = [sessions EXCEPT ![u] = s]
  BY DEF FinishConnect
<1> HIDE DEF s
<1>4. \A v \in Users \ {u} : sessions'[v] = sessions[v]
  BY <1>3 DEF TypeOK
<1>5. sessions'[u] # None
  BY <1>1, <1>2, <1>3 DEF TypeOK
<1>6. req'[r] \in {Idle, [stage |-> "allowed", ask |-> UserAsk(u)]}
  BY DEF FinishConnect, Reply, TypeOK
<1> QED
  BY <1>4, <1>5, <1>6 DEF FinishConnect

(***************************************************************************)
(* A refused CONNECT caches nothing: whatever else runs, the cache changes *)
(* at a restart, or for the user whose CONNECT is being allowed.           *)
(***************************************************************************)
THEOREM CacheGuarded == Spec => OnlyAllowedConnectsCache
<1> DEFINE Guarded ==
      sessions' # sessions =>
        \/ sessions' = NoSessions /\ req' = NoRequests
        \/ \E r \in Requests :
             /\ req[r].stage = "named"
             /\ req'[r] \in {Idle, [stage |-> "allowed", ask |-> UserAsk(req[r].user)]}
             /\ \A u \in Users \ {req[r].user} : sessions'[u] = sessions[u]
             /\ sessions'[req[r].user] # None
<1>1. TypeOK /\ [Next]_vars => [Guarded]_vars
  <2> SUFFICES ASSUME TypeOK, Next, sessions' # sessions PROVE Guarded
    OBVIOUS
  <2>1. ASSUME NEW r \in Requests, FinishConnect(r) PROVE Guarded
    BY <2>1, ConnectCaches
  <2>2. CASE Restart
    BY <2>2 DEF Restart
  <2>3. ASSUME NEW r \in Requests, Serve(r) PROVE FinishConnect(r)
    BY <2>3 DEF Serve, BeginConnect, Slug, Look, Stat, Compare, Load, SaveMap, SaveTime,
       VerifyAccepts, VerifyRejects, JudgeSubject, BeginCheck, FinishCheck, Deliver, Abandon
  <2>4. CASE \/ Tick \/ Fill \/ WriterDies \/ Listens
             \/ \E map \in Maps \ {NoMap} : Truncate(map)
    BY <2>4 DEF Tick, Fill, WriterDies, Listens, Truncate
  <2> QED
    BY <2>1, <2>2, <2>3, <2>4 DEF Next
<1> QED
  BY <1>1, TypeCorrect, PTL DEF Spec, OnlyAllowedConnectsCache

-----------------------------------------------------------------------------
(***************************************************************************)
(* The Twin implements TwinAuthority: each step is one of the authority's, *)
(* or changes nothing the broker can see.                                  *)
(***************************************************************************)
\* The authority speaks of the same decisions.
LEMMA SameDecisions ==
  /\ \A ask, slug : Authority!Covers(ask, slug) <=> Covers(ask, slug)
  /\ \A token, t : Authority!Verifies(token, t) <=> Verifies(token, t)
  /\ Authority!Asks = Asks /\ Authority!NoMap = NoMap /\ Authority!Denied = Denied
BY DEF Covers, Authority!Covers, OwnedResource, Authority!OwnedResource, ExpectedClientId,
   Authority!ExpectedClientId, OwnsRoutingKey, Authority!OwnsRoutingKey, Empty,
   Authority!Empty, Multi, Authority!Multi, Verifies, Authority!Verifies,
   Asks, Authority!Asks, Users, Authority!Users, NoMap, Authority!NoMap,
   Denied, Authority!Denied

\* A slot that is not answered is hidden, and so is what happens in it.
LEMMA HiddenSlot ==
  ASSUME TypeOK, NEW r \in Requests, NEW slot, req' = [req EXCEPT ![r] = slot],
         req[r].stage \notin {"allowed", "denied"}, slot.stage \notin {"allowed", "denied"}
  PROVE  Answer' = Answer
BY DEF TypeOK, Answer

\* A slot that comes to be answered shows its answer, and no other slot moves.
LEMMA AnsweredSlot ==
  ASSUME TypeOK, NEW r \in Requests, NEW slot, req' = [req EXCEPT ![r] = slot],
         req[r].stage \notin {"allowed", "denied"}, slot.stage \in {"allowed", "denied"}
  PROVE  Answer[r] = None /\ Answer' = [Answer EXCEPT ![r] = slot]
BY DEF TypeOK, Answer

\* A refusal is the authority's, or nobody waits for it.
LEMMA RefusalMaps ==
  ASSUME TypeOK, NEW r \in Requests, req[r].stage \notin {"allowed", "denied"},
         req' = [req EXCEPT ![r] = Denied] \/ req' = [req EXCEPT ![r] = Idle],
         UNCHANGED <<now, published, proven>>
  PROVE  Authority!Deny(r) \/ UNCHANGED Authority!vars
<1>1. CASE req' = [req EXCEPT ![r] = Denied]
  BY <1>1, AnsweredSlot, SameDecisions DEF Denied, Authority!Deny
<1>2. CASE req' = [req EXCEPT ![r] = Idle]
  BY <1>2, HiddenSlot DEF Idle, Authority!vars
<1> QED
  BY <1>1, <1>2

\* What is allowed is allowed on the evidence the authority asks for.
LEMMA AllowanceMaps ==
  ASSUME TypeOK, NEW r \in Requests, req[r].stage \notin {"allowed", "denied"},
         NEW ask \in Asks, NEW token \in proven, NEW m \in published,
         req' = [req EXCEPT ![r] = [stage |-> "allowed", ask |-> ask]],
         token.sub = ask.user, token.tenant \in DOMAIN m,
         ask.kind # "user" => now < token.exp /\ Covers(ask, m[token.tenant]),
         UNCHANGED <<now, published, proven>>
  PROVE  Authority!Allow(r)
<1>1. Authority!Evidence(token, ask)
  BY SameDecisions DEF Authority!Evidence
<1>2. Answer[r] = None /\ Answer' = [Answer EXCEPT ![r] = [stage |-> "allowed", ask |-> ask]]
  BY AnsweredSlot
<1> QED
  BY <1>1, <1>2, SameDecisions DEF Authority!Allow

LEMMA AuthorityInit == Init => Authority!Init
BY SameDecisions DEF Init, Authority!Init, NoRequests, Idle, Answer

\* The answer of a call refuses, or the handler goes on unseen.
LEMMA AnsweredMaps ==
  ASSUME TypeOK, NEW r \in Requests, NEW slug, Answered(r, slug),
         req[r].stage \in Calling, UNCHANGED <<now, published, proven>>
  PROVE  Authority!Deny(r) \/ UNCHANGED Authority!vars
<1>0. req[r].stage \notin {"allowed", "denied"}
  BY DEF Calling
<1>1. CASE Reply(r, UserAsk(req[r].user), FALSE, req[r].awaited)
  BY <1>0, <1>1, RefusalMaps DEF Reply
<1>2. CASE Moves(r, "routing") \/ Moves(r, "verifying")
  <2>1. PICK slot : /\ req' = [req EXCEPT ![r] = slot]
                    /\ slot.stage \in {"routing", "verifying"}
    BY <1>2, MovedSlot DEF Calling
  <2> QED
    BY <1>0, <2>1, HiddenSlot DEF Authority!vars
<1>3. CASE req' = [req EXCEPT ![r] =
          [stage |-> "named", user |-> req[r].user, token |-> req[r].token,
           awaited |-> req[r].awaited, slug |-> slug]]
  <2>1. PICK named :
          named = [stage |-> "named", user |-> req[r].user, token |-> req[r].token,
                  awaited |-> req[r].awaited, slug |-> slug]
    OBVIOUS
  <2>2. req' = [req EXCEPT ![r] = named] /\ named.stage = "named"
    BY <1>3, <2>1
  <2> QED
    BY <1>0, <2>2, HiddenSlot DEF Authority!vars
<1> QED
  BY <1>1, <1>2, <1>3 DEF Answered

LEMMA AuthorityStep ==
  ASSUME Inv, [Next]_vars
  PROVE  Authority!Next \/ UNCHANGED Authority!vars
<1> USE DEF Inv
<1>1. ASSUME NEW r \in Requests, NEW form \in ConnectForms \cup {Unparsed},
             BeginConnect(r, form)
      PROVE  Authority!Deny(r) \/ UNCHANGED Authority!vars
  <2>1. req[r].stage = "idle" /\ UNCHANGED <<now, published, proven>>
    BY <1>1 DEF BeginConnect, Idle, disk
  <2>2. CASE req' = [req EXCEPT ![r] = Denied]
    BY <2>1, <2>2, RefusalMaps
  <2>3. CASE req' = [req EXCEPT ![r] = [stage |-> "known", user |-> form.user,
                                        token |-> form.token, awaited |-> TRUE]]
    <3>1. PICK slot : slot.stage = "known" /\ req' = [req EXCEPT ![r] = slot]
      BY <2>3
    <3> QED
      BY <2>1, <3>1, HiddenSlot DEF Authority!vars
  <2> QED
    BY <1>1, <2>2, <2>3 DEF BeginConnect
<1>2. ASSUME NEW r \in Requests, Slug(r)
      PROVE  Authority!Deny(r) \/ UNCHANGED Authority!vars
  <2>1. UNCHANGED <<now, published, proven>>
    BY <1>2 DEF Slug, Look, Stat, Compare, Load, SaveMap, SaveTime, disk
  <2>2. req[r].stage \in Calling
    BY <1>2 DEF Slug, Look, Stat, Compare, Load, SaveMap, SaveTime, InCall, NoCall
  <2>3. CASE UNCHANGED req
    BY <2>1, <2>3 DEF Authority!vars, Answer
  <2>4. ASSUME NEW slug, Answered(r, slug)
        PROVE  Authority!Deny(r) \/ UNCHANGED Authority!vars
    BY <2>1, <2>2, <2>4, AnsweredMaps
  <2>5. UNCHANGED req \/ \E slug : Answered(r, slug)
    BY <1>2 DEF Slug, Look, Stat, Compare, Load, SaveMap, SaveTime
  <2> QED
    BY <2>3, <2>4, <2>5
<1>3. ASSUME NEW r \in Requests, VerifyAccepts(r)
      PROVE  Authority!Accept
  <2>1. req[r].token \in Tokens
    BY <1>3, HandlingSlot DEF VerifyAccepts, Handling
  <2>2. EverServed(req[r].token.tenant)
    BY <1>3 DEF VerifyAccepts, SlotsBacked, Asked
  <2>3. PICK slot : req' = [req EXCEPT ![r] = slot] /\ slot.stage = "verified"
    BY <1>3, MovedSlot DEF VerifyAccepts
  <2>4. Answer' = Answer
    BY <1>3, <2>3, HiddenSlot DEF VerifyAccepts
  <2>5. /\ Verifies(req[r].token, now) /\ proven' = proven \cup {req[r].token}
        /\ UNCHANGED <<now, published>>
    BY <1>3 DEF VerifyAccepts, disk
  <2> QED
    BY <2>1, <2>2, <2>4, <2>5, SameDecisions DEF EverServed, Authority!Accept
<1>4. ASSUME NEW r \in Requests, VerifyRejects(r)
      PROVE  Authority!Deny(r) \/ UNCHANGED Authority!vars
  BY <1>4, RefusalMaps DEF VerifyRejects, Reply, disk
<1>14. ASSUME NEW r \in Requests, JudgeSubject(r)
      PROVE  Authority!Deny(r) \/ UNCHANGED Authority!vars
  <2>1. UNCHANGED <<now, published, proven>> /\ req[r].stage = "verified"
    BY <1>14 DEF JudgeSubject, disk
  <2>2. CASE Reply(r, UserAsk(req[r].user), FALSE, req[r].awaited)
    BY <2>1, <2>2, RefusalMaps DEF Reply
  <2>3. CASE Moves(r, "naming")
    <3>1. PICK slot : req' = [req EXCEPT ![r] = slot] /\ slot.stage = "naming"
      BY <2>1, <2>3, MovedSlot
    <3> QED
      BY <2>1, <3>1, HiddenSlot DEF Authority!vars
  <2> QED
    BY <1>14, <2>2, <2>3 DEF JudgeSubject
<1>5. ASSUME NEW r \in Requests, FinishConnect(r)
      PROVE  Authority!Allow(r) \/ UNCHANGED Authority!vars
  <2>1. PICK u, token : u = req[r].user /\ token = req[r].token
    OBVIOUS
  <2>2. u \in Accounts /\ UserAsk(u) \in Asks
    BY <1>5, <2>1, NamedSlot, UserAsked DEF FinishConnect, Named
  <2>3. token \in proven /\ token.sub = u /\ EverServed(token.tenant)
    BY <1>5, <2>1 DEF FinishConnect, SlotsBacked, Asked
  <2>4. UNCHANGED <<now, published, proven>> /\ req[r].stage = "named"
    BY <1>5 DEF FinishConnect, disk
  <2>5. CASE req[r].awaited
    <3>1. req' = [req EXCEPT ![r] = [stage |-> "allowed", ask |-> UserAsk(u)]]
      BY <1>5, <2>1, <2>5 DEF FinishConnect, Reply
    <3>2. UserAsk(u).user = u /\ UserAsk(u).kind = "user"
      BY DEF UserAsk
    <3>3. PICK m \in published : token.tenant \in DOMAIN m
      BY <2>3 DEF EverServed
    <3> QED
      BY <2>2, <2>3, <2>4, <3>1, <3>2, <3>3, AllowanceMaps
  <2>6. CASE ~req[r].awaited
    <3>1. req' = [req EXCEPT ![r] = Idle]
      BY <1>5, <2>6 DEF FinishConnect, Reply
    <3> QED
      BY <2>4, <3>1, HiddenSlot DEF Idle, Authority!vars
  <2> QED
    BY <2>5, <2>6
<1>6. ASSUME NEW r \in Requests, BeginCheck(r)
      PROVE  Authority!Deny(r) \/ UNCHANGED Authority!vars
  <2>1. PICK form \in CheckForms \cup {Unparsed} :
          \/ req' = [req EXCEPT ![r] = Denied]
          \/ req' = [req EXCEPT ![r] = [stage |-> "looked", ask |-> form.ask,
                                        session |-> sessions[form.ask.user]]]
    BY <1>6 DEF BeginCheck
  <2>2. req[r].stage = "idle" /\ UNCHANGED <<now, published, proven>>
    BY <1>6 DEF BeginCheck, Idle, disk
  <2>3. CASE req' = [req EXCEPT ![r] = Denied]
    BY <2>2, <2>3, RefusalMaps
  <2>4. CASE req' = [req EXCEPT ![r] = [stage |-> "looked", ask |-> form.ask,
                                        session |-> sessions[form.ask.user]]]
    <3>1. PICK slot : slot.stage = "looked" /\ req' = [req EXCEPT ![r] = slot]
      BY <2>4
    <3> QED
      BY <2>2, <3>1, HiddenSlot DEF Authority!vars
  <2> QED
    BY <2>1, <2>3, <2>4
<1>7. ASSUME NEW r \in Requests, FinishCheck(r)
      PROVE  Authority!Deny(r) \/ Authority!Allow(r)
  <2> DEFINE s == req[r].session
             ask == req[r].ask
  <2>1. CASE IsLive(s, now) /\ Covers(ask, s.slug)
    <3>1. s # None /\ now < s.exp /\ ask \in Asks
      BY <1>7, <2>1, CheckingSlot DEF FinishCheck, IsLive, Checking
    <3>2. Backed(ask.user, s)
      BY <1>7, <3>1 DEF FinishCheck, SlotsBacked
    <3>3. PICK token \in proven :
            token.sub = ask.user /\ token.tenant = s.tenant /\ token.exp = s.exp
      BY <3>2 DEF Backed
    <3>4. PICK m \in published : s.tenant \in DOMAIN m /\ m[s.tenant] = s.slug
      BY <3>2 DEF Backed
    <3>5. req' = [req EXCEPT ![r] = [stage |-> "allowed", ask |-> ask]]
      BY <1>7, <2>1 DEF FinishCheck, Reply
    <3>6. /\ token.sub = ask.user /\ token.tenant \in DOMAIN m
          /\ now < token.exp /\ Covers(ask, m[token.tenant])
      BY <2>1, <3>1, <3>3, <3>4
    <3> HIDE DEF ask, s
    <3> QED
      BY <1>7, <3>1, <3>5, <3>6, AllowanceMaps DEF FinishCheck, disk
  <2>2. CASE ~(IsLive(s, now) /\ Covers(ask, s.slug))
    <3>1. req' = [req EXCEPT ![r] = Denied]
      BY <1>7, <2>2 DEF FinishCheck, Reply
    <3>2. Answer[r] = None /\ Answer' = [Answer EXCEPT ![r] = Denied]
      BY <1>7, <3>1, AnsweredSlot DEF FinishCheck, Denied
    <3> QED
      BY <1>7, <3>2, SameDecisions DEF FinishCheck, disk, Authority!Deny
  <2> QED
    BY <2>1, <2>2
<1>8. ASSUME NEW r \in Requests, Deliver(r)
      PROVE  Authority!Deliver(r)
  <2>1. Answer[r] = req[r] /\ req[r] # None
    <3>1. req[r].stage = "allowed" => req[r] \in Allowed
      BY AllowedSlot
    <3>2. req[r].stage = "denied" => req[r] = Denied
      BY DEF TypeOK, Slot, Idle, Handling, Named, Connecting, Checking, Allowed
    <3>3. req[r].stage \in {"allowed", "denied"} /\ Answer[r] = req[r]
      BY <1>8 DEF Deliver, Answer
    <3> QED
      BY <3>1, <3>2, <3>3
  <2>2. Answer' = [Answer EXCEPT ![r] = None]
    BY <1>8 DEF Deliver, Answer, Idle, TypeOK
  <2> QED
    BY <1>8, <2>1, <2>2 DEF Deliver, disk, Authority!Deliver
<1>9. ASSUME NEW r \in Requests, Abandon(r)
      PROVE  UNCHANGED Authority!vars
  <2>1. PICK slot \in {Idle, [req[r] EXCEPT !.awaited = FALSE]} :
          req' = [req EXCEPT ![r] = slot]
    BY <1>9 DEF Abandon
  <2>2. req[r].stage = "verifying" /\ slot.stage \in {"idle", "verifying"}
    BY <1>9, <2>1, HandlingSlot DEF Abandon, Handling, Idle
  <2>3. Answer' = Answer
    BY <2>1, <2>2, HiddenSlot
  <2> QED
    BY <1>9, <2>3 DEF Abandon, Authority!vars, disk
<1>10. CASE Fill
  <2>1. writer \in Maps /\ published' = published \cup {writer}
    BY <1>10 DEF Fill, TypeOK
  <2>2. UNCHANGED <<now, req, proven>>
    BY <1>10 DEF Fill
  <2> QED
    BY <2>1, <2>2 DEF Authority!Publish, Authority!Next, Answer
<1>11. CASE Tick
  BY <1>11 DEF Tick, disk, Authority!Tick, Authority!Next, Answer
<1>12. CASE Restart
  BY <1>12 DEF Restart, disk, Authority!Forget, Authority!Next, Answer, NoRequests, Idle
<1>13. CASE \/ WriterDies \/ Listens \/ UNCHANGED vars
            \/ \E map \in Maps \ {NoMap} : Truncate(map)
  BY <1>13 DEF WriterDies, Listens, Truncate, vars, disk, Authority!vars, Answer
<1> QED
  BY <1>1, <1>2, <1>3, <1>4, <1>5, <1>6, <1>7, <1>8, <1>9, <1>10, <1>11, <1>12,
     <1>13, <1>14 DEF Next, Serve, Authority!Next

(***************************************************************************)
(* Behind its cache, its registry and its concurrent handlers the Twin     *)
(* gives only the answers of TwinAuthority: every "allow" rests on a token *)
(* verified since the start, of that user, of a tenant a published map     *)
(* served, and not expired at a token-less check.                          *)
(***************************************************************************)
THEOREM AuthorityKept == Spec => KeepsAuthority
<1>1. Inv /\ [Next]_vars => [Authority!Next]_(Authority!vars)
  BY AuthorityStep
<1> QED
  BY <1>1, AuthorityInit, InvInit, InvStep, PTL DEF Spec, KeepsAuthority, Authority!Spec

-----------------------------------------------------------------------------
(***************************************************************************)
(* The order on the natural numbers as a set of pairs.                     *)
(***************************************************************************)
Below == {p \in Nat \X Nat : p[1] < p[2]}

(***************************************************************************)
(* A nonempty set of natural numbers has a least element.                  *)
(***************************************************************************)
LEMMA LeastNat ==
  ASSUME NEW T \in SUBSET Nat, T # {}
  PROVE  \E m \in T : \A n \in T : m <= n
<1>1. OpToRel(<, Nat) = Below
  BY DEF OpToRel, Below
<1>2. IsWellFoundedOn(Below, Nat)
  BY <1>1, NatLessThanWellFounded
<1>3. PICK m \in T : \A y \in T : ~(<<y, m>> \in Below)
  BY <1>2, WFMin
<1>4. ASSUME NEW n \in T PROVE m <= n
  <2>1. m \in Nat /\ n \in Nat
    OBVIOUS
  <2>2. <<n, m>> \notin Below
    BY <1>3
  <2>3. ~(n < m)
    BY <2>1, <2>2 DEF Below
  <2> QED
    BY <2>1, <2>3
<1> QED
  BY <1>3, <1>4

(***************************************************************************)
(* A set that holds 0, and n + 1 with n, holds every natural number: the   *)
(* induction that the walk over a pattern's levels needs.                  *)
(***************************************************************************)
LEMMA SetInduction ==
  ASSUME NEW S, 0 \in S, \A n \in Nat : n \in S => n + 1 \in S
  PROVE  Nat \subseteq S
<1> SUFFICES ASSUME Nat \ S # {} PROVE FALSE
  OBVIOUS
<1>1. PICK m \in Nat \ S : \A n \in Nat \ S : m <= n
  BY LeastNat
<1>2. m # 0 /\ m \in Nat
  OBVIOUS
<1>3. m - 1 \in S
  BY <1>1, <1>2
<1>4. m - 1 \in Nat /\ (m - 1) + 1 = m
  BY <1>2
<1> QED
  BY <1>3, <1>4

(***************************************************************************)
(* The table Walk fills for a pattern and a name, up to the pattern's      *)
(* first n levels: no level matches the empty start of the name, and each  *)
(* further level extends the row before it.                                *)
(***************************************************************************)
FirstRow(name) == [j \in 0..Len(name) |-> j = 0]

IsRows(g, n, pattern, name, single) ==
  g = [i \in 0..n |-> IF i = 0 THEN FirstRow(name)
                      ELSE NextRow(pattern[i], name, single, g[i - 1])]

(***************************************************************************)
(* The table exists for any number of levels.                              *)
(***************************************************************************)
LEMMA RowsExist ==
  ASSUME NEW pattern, NEW name, NEW single, NEW n \in Nat
  PROVE  \E g : IsRows(g, n, pattern, name, single)
<1> DEFINE S == {k \in Nat : \E g : IsRows(g, k, pattern, name, single)}
<1>1. 0 \in S
  <2> DEFINE h == [i \in 0..0 |-> FirstRow(name)]
  <2>1. IsRows(h, 0, pattern, name, single)
    BY DEF IsRows
  <2> QED
    BY <2>1
<1>2. ASSUME NEW k \in Nat, k \in S PROVE k + 1 \in S
  <2>1. PICK g : IsRows(g, k, pattern, name, single)
    BY <1>2
  <2> DEFINE h == [i \in 0..(k + 1) |->
                     IF i <= k THEN g[i] ELSE NextRow(pattern[i], name, single, g[k])]
             w == [i \in 0..(k + 1) |-> IF i = 0 THEN FirstRow(name)
                      ELSE NextRow(pattern[i], name, single, h[i - 1])]
  <2>2. ASSUME NEW i \in 0..(k + 1) PROVE h[i] = w[i]
    <3>1. CASE i = 0
      <4>1. g[0] = FirstRow(name)
        BY <2>1 DEF IsRows
      <4> QED
        BY <3>1, <4>1
    <3>2. CASE i # 0 /\ i <= k
      <4>1. i \in 0..k /\ i - 1 \in 0..(k + 1) /\ i - 1 <= k
        BY <3>2
      <4>2. g[i] = NextRow(pattern[i], name, single, g[i - 1])
        BY <2>1, <3>2, <4>1 DEF IsRows
      <4>3. h[i - 1] = g[i - 1] /\ h[i] = g[i]
        BY <3>2, <4>1
      <4> QED
        BY <3>2, <4>2, <4>3
    <3>3. CASE i = k + 1
      <4>1. k \in 0..(k + 1) /\ i - 1 = k /\ ~(k + 1 <= k) /\ k + 1 # 0
        BY <3>3
      <4>2. h[k] = g[k]
        BY <4>1
      <4>3. h[i] = NextRow(pattern[i], name, single, g[k])
        BY <3>3, <4>1
      <4> QED
        BY <3>3, <4>1, <4>2, <4>3
    <3> QED
      BY <3>1, <3>2, <3>3
  <2>3. h = w
    <3> HIDE DEF FirstRow, NextRow
    <3> QED
    BY <2>2
  <2>4. IsRows(h, k + 1, pattern, name, single)
    BY <2>3 DEF IsRows
  <2> QED
    BY <2>4
<1>3. n \in S
  <2> HIDE DEF S
  <2> QED
    BY <1>1, <1>2, SetInduction
<1> QED
  BY <1>3

(***************************************************************************)
(* Walk is the last entry of its table.                                    *)
(***************************************************************************)
LEMMA WalkByRows ==
  ASSUME NEW pattern, NEW name, NEW single, Len(pattern) \in Nat
  PROVE  \E g : /\ IsRows(g, Len(pattern), pattern, name, single)
                /\ Walk(pattern, name, single) = g[Len(pattern)][Len(name)]
<1> DEFINE g == CHOOSE g : IsRows(g, Len(pattern), pattern, name, single)
<1>1. IsRows(g, Len(pattern), pattern, name, single)
  BY RowsExist
<1>2. Walk(pattern, name, single) = g[Len(pattern)][Len(name)]
  BY DEF Walk, IsRows, FirstRow
<1> QED
  BY <1>1, <1>2

(***************************************************************************)
(* A start of a pattern without "#", where it agrees with the name level   *)
(* by level, and the row it leads to.                                      *)
(***************************************************************************)
Plain(pattern, n) == \A i \in 1..n : pattern[i] # Multi

Agrees(pattern, name, single, n) ==
  \A i \in 1..n : pattern[i] \in {single, name[i]}

PlainRow(pattern, name, single, n) ==
  [j \in 0..Len(name) |-> j = n /\ Agrees(pattern, name, single, n)]

(***************************************************************************)
(* The empty start of a pattern agrees with the empty start of the name.   *)
(***************************************************************************)
LEMMA FirstPlainRow ==
  ASSUME NEW pattern, NEW name, NEW single
  PROVE  FirstRow(name) = PlainRow(pattern, name, single, 0)
<1>1. Agrees(pattern, name, single, 0)
  BY DEF Agrees
<1> QED
  BY <1>1 DEF FirstRow, PlainRow

(***************************************************************************)
(* A level other than "#" moves the one agreeing entry by one.             *)
(***************************************************************************)
LEMMA NextPlainRow ==
  ASSUME NEW pattern, NEW name, NEW single, NEW k \in Nat,
         pattern[k + 1] # Multi, Len(name) \in Nat
  PROVE  NextRow(pattern[k + 1], name, single, PlainRow(pattern, name, single, k))
           = PlainRow(pattern, name, single, k + 1)
<1> DEFINE row == PlainRow(pattern, name, single, k)
           A(i) == Agrees(pattern, name, single, i)
<1>1. A(k + 1) <=> A(k) /\ pattern[k + 1] \in {single, name[k + 1]}
  <2>1. 1..(k + 1) = (1..k) \cup {k + 1}
    OBVIOUS
  <2> QED
    BY <2>1 DEF Agrees
<1>2. ASSUME NEW j \in 0..Len(name)
      PROVE  (j > 0 /\ pattern[k + 1] \in {single, name[j]} /\ row[j - 1])
               <=> (j = k + 1 /\ A(k + 1))
  <2>1. CASE j > 0
    <3>1. j - 1 \in 0..Len(name) /\ (j - 1 = k <=> j = k + 1)
      BY <2>1
    <3>2. row[j - 1] <=> j - 1 = k /\ A(k)
      BY <3>1 DEF PlainRow
    <3> HIDE DEF A, row
    <3> QED
      BY <1>1, <2>1, <3>1, <3>2
  <2>2. CASE ~(j > 0)
    BY <2>2
  <2> QED
    BY <2>1, <2>2
<1> HIDE DEF row
<1>3. NextRow(pattern[k + 1], name, single, row)
        = [j \in 0..Len(name) |->
             j > 0 /\ pattern[k + 1] \in {single, name[j]} /\ row[j - 1]]
  BY DEF NextRow
<1>4. PlainRow(pattern, name, single, k + 1)
        = [j \in 0..Len(name) |-> j = k + 1 /\ A(k + 1)]
  BY DEF PlainRow
<1> HIDE DEF A
<1>5. NextRow(pattern[k + 1], name, single, row)
        = PlainRow(pattern, name, single, k + 1)
  BY <1>2, <1>3, <1>4
<1> QED
  BY <1>5 DEF row

(***************************************************************************)
(* Each row of the table is made from the one before it.                   *)
(***************************************************************************)
LEMMA RowsAt ==
  ASSUME NEW pattern, NEW name, NEW single, NEW n \in Nat, NEW g,
         IsRows(g, n, pattern, name, single)
  PROVE  \A i \in 1..n : g[i] = NextRow(pattern[i], name, single, g[i - 1])
<1>1. \A i \in 1..n : i \in 0..n /\ i # 0
  OBVIOUS
<1> QED
  BY <1>1 DEF IsRows

(***************************************************************************)
(* The table starts with the first row.                                    *)
(***************************************************************************)
LEMMA RowZero ==
  ASSUME NEW pattern, NEW name, NEW single, NEW n \in Nat, NEW g,
         IsRows(g, n, pattern, name, single)
  PROVE  g[0] = FirstRow(name)
<1>1. 0 \in 0..n
  OBVIOUS
<1> QED
  BY <1>1 DEF IsRows

(***************************************************************************)
(* After a start without "#" the row holds at that length only, and only   *)
(* if the levels agree.                                                    *)
(***************************************************************************)
LEMMA PlainRows ==
  ASSUME NEW pattern, NEW name, NEW single, NEW n \in Nat, NEW g,
         IsRows(g, n, pattern, name, single), Len(name) \in Nat,
         NEW m \in 0..n, Plain(pattern, m)
  PROVE  g[m] = PlainRow(pattern, name, single, m)
<1> DEFINE R(k) == PlainRow(pattern, name, single, k)
           S == {k \in Nat : k <= m => g[k] = R(k)}
<1>1. 0 \in S
  <2> HIDE DEF S, R
  <2>1. g[0] = FirstRow(name)
    BY RowZero
  <2>2. g[0] = R(0)
    BY <2>1, FirstPlainRow DEF R
  <2> QED
    BY <2>2 DEF S
<1>2. ASSUME NEW k \in Nat, k \in S PROVE k + 1 \in S
  <2> SUFFICES ASSUME k + 1 <= m
               PROVE  g[k + 1] = R(k + 1)
    OBVIOUS
  <2>1. k + 1 \in 1..n /\ k + 1 \in 1..m /\ (k + 1) - 1 = k
    OBVIOUS
  <2>2. pattern[k + 1] # Multi
    BY <2>1 DEF Plain
  <2>3. g[k + 1] = NextRow(pattern[k + 1], name, single, g[(k + 1) - 1])
    <3>1. \A i \in 1..n : g[i] = NextRow(pattern[i], name, single, g[i - 1])
      BY RowsAt
    <3> QED
      BY <2>1, <3>1
  <2>4. g[k] = R(k)
    <3>1. k <= m
      OBVIOUS
    <3> QED
      BY <1>2, <3>1
  <2>5. NextRow(pattern[k + 1], name, single, R(k)) = R(k + 1)
    BY <2>2, NextPlainRow
  <2> HIDE DEF R, S
  <2> QED
    BY <2>1, <2>3, <2>4, <2>5
<1>3. m \in S
  <2> HIDE DEF S
  <2> QED
    BY <1>1, <1>2, SetInduction
<1> QED
  BY <1>3

(***************************************************************************)
(* A pattern without "#" matches the names of its own length that agree    *)
(* with it.                                                                *)
(***************************************************************************)
LEMMA WalkPlain ==
  ASSUME NEW pattern, NEW name, NEW single,
         Len(pattern) \in Nat, Len(name) \in Nat,
         Plain(pattern, Len(pattern))
  PROVE  Walk(pattern, name, single)
           <=> Len(name) = Len(pattern) /\ Agrees(pattern, name, single, Len(pattern))
<1>1. PICK g : /\ IsRows(g, Len(pattern), pattern, name, single)
               /\ Walk(pattern, name, single) = g[Len(pattern)][Len(name)]
  BY WalkByRows
<1>2. Len(pattern) \in 0..Len(pattern) /\ Len(name) \in 0..Len(name)
  OBVIOUS
<1>3. g[Len(pattern)] = PlainRow(pattern, name, single, Len(pattern))
  BY <1>1, <1>2, PlainRows
<1>4. Walk(pattern, name, single)
        = PlainRow(pattern, name, single, Len(pattern))[Len(name)]
  BY <1>1, <1>3
<1> QED
  BY <1>2, <1>4 DEF PlainRow

(***************************************************************************)
(* A pattern whose only "#" is the last level matches the names at least   *)
(* as long as the rest that agree with the rest.                           *)
(***************************************************************************)
LEMMA WalkOpen ==
  ASSUME NEW pattern, NEW name, NEW single,
         Len(pattern) \in Nat \ {0}, Len(name) \in Nat,
         Plain(pattern, Len(pattern) - 1), pattern[Len(pattern)] = Multi
  PROVE  Walk(pattern, name, single)
           <=> /\ Len(name) >= Len(pattern) - 1
               /\ Agrees(pattern, name, single, Len(pattern) - 1)
<1> DEFINE m == Len(pattern)
           n == Len(name)
           R == PlainRow(pattern, name, single, m - 1)
           A == Agrees(pattern, name, single, m - 1)
<1>1. PICK g : /\ IsRows(g, m, pattern, name, single)
               /\ Walk(pattern, name, single) = g[m][n]
  BY WalkByRows
<1>2. m - 1 \in 0..m /\ m \in 1..m /\ n \in 0..n
  OBVIOUS
<1>3. g[m - 1] = R
  BY <1>1, <1>2, PlainRows
<1>4. g[m] = NextRow(Multi, name, single, R)
  <2>1. \A i \in 1..m : g[i] = NextRow(pattern[i], name, single, g[i - 1])
    BY <1>1, RowsAt
  <2> QED
    BY <1>2, <1>3, <2>1
<1>5. Walk(pattern, name, single) = NextRow(Multi, name, single, R)[n]
  BY <1>1, <1>4
<1>6. NextRow(Multi, name, single, R)[n] = (\E k \in 0..n : R[k])
  BY <1>2 DEF NextRow
<1>7. \A k \in 0..n : R[k] = (k = m - 1 /\ A)
  BY DEF PlainRow
<1> HIDE DEF R, A
<1>8. (\E k \in 0..n : R[k]) <=> n >= m - 1 /\ A
  <2>1. m - 1 \in Nat /\ n \in Nat
    OBVIOUS
  <2>2. ASSUME NEW k \in 0..n, R[k] PROVE n >= m - 1 /\ A
    <3>1. k = m - 1 /\ A
      BY <1>7, <2>2
    <3> QED
      BY <2>1, <3>1
  <2>3. ASSUME n >= m - 1, A PROVE \E k \in 0..n : R[k]
    <3>1. m - 1 \in 0..n
      BY <2>1, <2>3
    <3>2. R[m - 1]
      BY <1>7, <2>3, <3>1
    <3> QED
      BY <3>1, <3>2
  <2> QED
    BY <2>2, <2>3
<1> QED
  BY <1>5, <1>6, <1>8 DEF A

(***************************************************************************)
(* Where the only "#" is the last level, which is all that to_routing_key  *)
(* and owns_routing_key let through (topic.rs:70-130), the broker's        *)
(* general topic match is the level-by-level match the decision core is    *)
(* checked with.                                                           *)
(***************************************************************************)
THEOREM WalkIsMatches ==
  ASSUME NEW pattern \in Seq(Level), NEW name \in Seq(Level), NEW single,
         \A i \in 1..(Len(pattern) - 1) : pattern[i] # Multi
  PROVE  Walk(pattern, name, single) <=> Matches(pattern, name, single)
<1> DEFINE m == Len(pattern)
<1>1. m \in Nat /\ Len(name) \in Nat /\ (pattern = << >> <=> m = 0)
  OBVIOUS
<1>2. CASE m > 0 /\ pattern[m] = Multi
  <2>1. m \in Nat \ {0} /\ Plain(pattern, m - 1)
    BY <1>1, <1>2 DEF Plain
  <2>2. Walk(pattern, name, single)
          <=> Len(name) >= m - 1 /\ Agrees(pattern, name, single, m - 1)
    BY <1>1, <1>2, <2>1, WalkOpen
  <2>3. Matches(pattern, name, single)
          <=> Len(name) >= m - 1 /\ Agrees(pattern, name, single, m - 1)
    BY <1>1, <1>2 DEF Matches, Agrees
  <2> QED
    BY <2>2, <2>3
<1>3. CASE m = 0 \/ pattern[m] # Multi
  <2>1. Plain(pattern, m)
    <3>1. \A i \in 1..m : i \in 1..(m - 1) \/ (i = m /\ m # 0)
      BY <1>1
    <3> QED
      BY <3>1, <1>3 DEF Plain
  <2>2. Walk(pattern, name, single)
          <=> Len(name) = m /\ Agrees(pattern, name, single, m)
    BY <1>1, <2>1, WalkPlain
  <2>3. Matches(pattern, name, single)
          <=> Len(name) = m /\ Agrees(pattern, name, single, m)
    BY <1>1, <1>3 DEF Matches, Agrees
  <2> QED
    BY <2>2, <2>3
<1> QED
  BY <1>1, <1>2, <1>3

-----------------------------------------------------------------------------
(***************************************************************************)
(* The levels of a filter and a topic, however they are grown.             *)
(***************************************************************************)
KeyTypes == filter \in Seq(Level) /\ topic \in Seq(Level)

(***************************************************************************)
(* What filters and topics start from are keys.                            *)
(***************************************************************************)
LEMMA StartsAreKeys == Starts \subseteq Seq(Level)
<1>1. TopicRoot \in Level /\ KeySlugs \subseteq Level /\ KeyDevices \subseteq Level
  BY LevelAssumption, KeyAssumption DEF Level
<1>2. << >> \in Seq(Level) /\ <<TopicRoot>> \in Seq(Level)
  BY <1>1
<1>3. \A s \in KeySlugs : <<TopicRoot, s>> \in Seq(Level)
  BY <1>1
<1>4. \A s \in KeySlugs, d \in KeyDevices : DevicePrefix(s, d) \in Seq(Level)
  BY <1>1 DEF DevicePrefix
<1> DEFINE roots == {<< >>, <<TopicRoot>>}
           tenants == {<<TopicRoot, s>> : s \in KeySlugs}
           devices == {DevicePrefix(s, d) : s \in KeySlugs, d \in KeyDevices}
<1>5. roots \subseteq Seq(Level) /\ tenants \subseteq Seq(Level)
  BY <1>2, <1>3
<1>6. devices \subseteq Seq(Level)
  BY <1>4
<1>7. Starts = (roots \cup tenants) \cup devices
  BY DEF Starts
<1> HIDE DEF roots, tenants, devices
<1> QED
  BY <1>5, <1>6, <1>7

(***************************************************************************)
(* Filters and topics stay sequences of levels.                            *)
(***************************************************************************)
LEMMA KeyTypesInvariant == KeySpec => []KeyTypes
<1>1. KeyInit => KeyTypes
  BY StartsAreKeys DEF KeyInit, KeyTypes
<1>2. KeyTypes /\ [KeyNext]_keyVars => KeyTypes'
  <2> SUFFICES ASSUME KeyTypes, [KeyNext]_keyVars PROVE KeyTypes'
    OBVIOUS
  <2>1. CASE ExtendFilter
    BY <2>1 DEF KeyTypes, ExtendFilter
  <2>2. CASE ExtendTopic
    BY <2>2 DEF KeyTypes, ExtendTopic
  <2>3. CASE UNCHANGED keyVars
    BY <2>3 DEF KeyTypes, keyVars
  <2> QED
    BY <2>1, <2>2, <2>3 DEF KeyNext
<1> QED
  BY <1>1, <1>2, PTL DEF KeySpec

(***************************************************************************)
(* What a device may subscribe to (topic.rs:112) never delivers what       *)
(* another may publish, for filters and topics of any length.              *)
(***************************************************************************)
THEOREM CrossDeliveryNever == KeySpec => []NoCrossDelivery
<1>1. KeyTypes => NoCrossDelivery
  <2> SUFFICES ASSUME KeyTypes,
                      NEW s1 \in KeySlugs, NEW s2 \in KeySlugs,
                      NEW d1 \in KeyDevices, NEW d2 \in KeyDevices,
                      OwnsRoutingKey(s1, d1, filter),
                      OwnsRoutingKey(s2, d2, topic),
                      RoutingMatches(filter, topic)
               PROVE  s1 = s2 /\ d1 = d2
    BY DEF NoCrossDelivery
  <2>1. s1 \in Names /\ d1 \in Names
    BY KeyAssumption
  <2> QED
    BY <2>1, SubscriptionsDisjoint DEF KeyTypes
<1> QED
  BY <1>1, KeyTypesInvariant, PTL

(***************************************************************************)
(* An owned pattern delivers nothing from outside the device's namespace,  *)
(* by the broker's general match.                                          *)
(***************************************************************************)
THEOREM PatternsConfined == KeySpec => []PatternConfined
<1>1. KeyTypes => PatternConfined
  <2> SUFFICES ASSUME KeyTypes,
                      NEW s \in KeySlugs, NEW d \in KeyDevices,
                      OwnsRoutingKey(s, d, filter),
                      Walk(filter, topic, RoutingSingle)
               PROVE  InNamespace(s, d, topic)
    BY DEF PatternConfined
  <2>1. s \in Names /\ d \in Names /\ filter \in Seq(Level) /\ topic \in Seq(Level)
    BY KeyAssumption DEF KeyTypes
  <2>2. \A i \in 1..(Len(filter) - 1) : filter[i] # Multi
    <3>1. /\ filter[1] = TopicRoot /\ filter[2] = s /\ filter[3] = d
          /\ \A i \in 4..(Len(filter) - 1) : filter[i] # Multi
      BY DEF OwnsRoutingKey
    <3>2. Multi \notin Names
      BY LevelAssumption DEF Specials
    <3>3. filter[1] # Multi /\ filter[2] # Multi /\ filter[3] # Multi
      BY <2>1, <3>1, <3>2, LevelAssumption
    <3>4. \A i \in 1..(Len(filter) - 1) :
            i = 1 \/ i = 2 \/ i = 3 \/ i \in 4..(Len(filter) - 1)
      BY <2>1
    <3> QED
      BY <3>1, <3>3, <3>4
  <2>3. RoutingMatches(filter, topic)
    BY <2>1, <2>2, WalkIsMatches DEF RoutingMatches
  <2> QED
    BY <2>1, <2>3, OwnedPatternConfined
<1> QED
  BY <1>1, KeyTypesInvariant, PTL

(***************************************************************************)
(* A translated key has the topic's length, and each level is its own or   *)
(* the broker's single-level wildcard for MQTT's.                          *)
(***************************************************************************)
LEMMA Translation ==
  ASSUME NEW key \in Seq(Level), ToRoutingKey(key) # NoKey
  PROVE  /\ ToRoutingKey(key) \in Seq(Level)
         /\ Len(ToRoutingKey(key)) = Len(key)
         /\ \A i \in 1..Len(key) : Carries(key, i)
         /\ \A i \in 1..Len(key) :
              ToRoutingKey(key)[i]
                = IF key[i] = MqttSingle THEN RoutingSingle ELSE key[i]
<1>1. \A i \in 1..Len(key) : Carries(key, i)
  BY DEF ToRoutingKey
<1> DEFINE k == [i \in 1..Len(key) |->
                   IF key[i] = MqttSingle THEN RoutingSingle ELSE key[i]]
<1>2. ToRoutingKey(key) = k
  BY <1>1 DEF ToRoutingKey
<1>3. RoutingSingle \in Level
  BY DEF Level, Specials
<1>4. Len(key) \in Nat /\ \A i \in 1..Len(key) : key[i] \in Level
  OBVIOUS
<1>5. k \in Seq(Level) /\ Len(k) = Len(key)
  BY <1>3, <1>4
<1> QED
  BY <1>1, <1>2, <1>5

(***************************************************************************)
(* to_routing_key (topic.rs:70) merges no two topics or filters: each is   *)
(* told from its key, for the one character that is replaced is refused    *)
(* where it stands already.                                                *)
(***************************************************************************)
THEOREM TranslationInjective ==
  ASSUME NEW one \in Seq(Level), NEW other \in Seq(Level),
         ToRoutingKey(one) # NoKey, ToRoutingKey(one) = ToRoutingKey(other)
  PROVE  one = other
<1>1. /\ Len(ToRoutingKey(one)) = Len(one)
      /\ \A i \in 1..Len(one) : Carries(one, i)
      /\ \A i \in 1..Len(one) :
           ToRoutingKey(one)[i]
             = IF one[i] = MqttSingle THEN RoutingSingle ELSE one[i]
  BY Translation
<1>2. /\ Len(ToRoutingKey(other)) = Len(other)
      /\ \A i \in 1..Len(other) : Carries(other, i)
      /\ \A i \in 1..Len(other) :
           ToRoutingKey(other)[i]
             = IF other[i] = MqttSingle THEN RoutingSingle ELSE other[i]
  BY Translation
<1>3. Len(one) = Len(other)
  BY <1>1, <1>2
<1>4. ASSUME NEW i \in 1..Len(one) PROVE one[i] = other[i]
  <2>1. one[i] # RoutingSingle /\ other[i] # RoutingSingle
    BY <1>1, <1>2, <1>3 DEF Carries
  <2>2. (IF one[i] = MqttSingle THEN RoutingSingle ELSE one[i])
          = (IF other[i] = MqttSingle THEN RoutingSingle ELSE other[i])
    BY <1>1, <1>2, <1>3
  <2> QED
    BY <2>1, <2>2
<1> QED
  BY <1>3, <1>4

(***************************************************************************)
(* to_routing_key (topic.rs:70) keeps the meaning of a filter: on what can *)
(* be published, the broker's match of the translations is MQTT's own.     *)
(***************************************************************************)
THEOREM TranslationKeepsMeaning == KeySpec => []TranslationFaithful
<1>1. KeyTypes => TranslationFaithful
  <2> DEFINE f == ToRoutingKey(filter)
             t == ToRoutingKey(topic)
  <2> SUFFICES ASSUME KeyTypes, f # NoKey, t # NoKey, Concrete(topic)
               PROVE  Walk(f, t, RoutingSingle) <=> MqttMatches(filter, topic)
    BY DEF TranslationFaithful
  <2>1. filter \in Seq(Level) /\ topic \in Seq(Level)
    BY DEF KeyTypes
  <2>2. /\ f \in Seq(Level) /\ Len(f) = Len(filter)
        /\ \A i \in 1..Len(filter) : Carries(filter, i)
        /\ \A i \in 1..Len(filter) :
             f[i] = IF filter[i] = MqttSingle THEN RoutingSingle ELSE filter[i]
    BY <2>1, Translation
  <2>3. /\ t \in Seq(Level) /\ Len(t) = Len(topic)
        /\ \A i \in 1..Len(topic) : t[i] = topic[i]
    <3>1. /\ t \in Seq(Level) /\ Len(t) = Len(topic)
          /\ \A i \in 1..Len(topic) :
               t[i] = IF topic[i] = MqttSingle THEN RoutingSingle ELSE topic[i]
      BY <2>1, Translation
    <3>2. \A i \in 1..Len(topic) : topic[i] # MqttSingle
      BY DEF Concrete
    <3> HIDE DEF t
    <3> QED
      BY <3>1, <3>2
  <2> HIDE DEF f, t
  <2> DEFINE m == Len(filter)
  <2>4. m \in Nat /\ Len(topic) \in Nat
    BY <2>1
  <2>5. \A i \in 1..m : filter[i] # RoutingSingle /\ (filter[i] = Multi => i = m)
    BY <2>2 DEF Carries
  <2>6. \A i \in 1..m : f[i] = Multi <=> filter[i] = Multi
    BY <2>2 DEF Multi, MqttSingle, RoutingSingle
  <2>7. Walk(f, t, RoutingSingle) <=> Matches(f, t, RoutingSingle)
    <3>1. \A i \in 1..(Len(f) - 1) : f[i] # Multi
      <4>1. \A i \in 1..(m - 1) : i \in 1..m /\ i # m
        BY <2>4
      <4> QED
        BY <2>2, <2>5, <2>6, <4>1
    <3> QED
      BY <2>2, <2>3, <3>1, WalkIsMatches
  <2>8. \A i \in 1..m : i <= Len(topic) =>
          (f[i] \in {RoutingSingle, t[i]} <=> filter[i] \in {MqttSingle, topic[i]})
    <3> SUFFICES ASSUME NEW i \in 1..m, i <= Len(topic)
                 PROVE  f[i] \in {RoutingSingle, t[i]}
                          <=> filter[i] \in {MqttSingle, topic[i]}
      OBVIOUS
    <3>1. i \in 1..Len(topic)
      BY <2>4
    <3>2. t[i] = topic[i] /\ topic[i] \notin {MqttSingle, RoutingSingle}
      BY <2>3, <3>1 DEF Concrete
    <3>3. filter[i] # RoutingSingle
      BY <2>5
    <3>4. f[i] = IF filter[i] = MqttSingle THEN RoutingSingle ELSE filter[i]
      BY <2>2
    <3> QED
      BY <3>2, <3>3, <3>4
  <2> DEFINE Fits(k) == \A i \in 1..k : f[i] \in {RoutingSingle, t[i]}
             Means(k) == \A i \in 1..k : filter[i] \in {MqttSingle, topic[i]}
  <2>9. \A k \in 0..m : k <= Len(topic) => (Fits(k) <=> Means(k))
    <3> SUFFICES ASSUME NEW k \in 0..m, k <= Len(topic)
                 PROVE  Fits(k) <=> Means(k)
      OBVIOUS
    <3>1. \A i \in 1..k : i \in 1..m /\ i <= Len(topic)
      BY <2>4
    <3> QED
      BY <2>8, <3>1
  <2>10. CASE m > 0 /\ filter[m] = Multi
    <3>1. f[m] = Multi /\ f # << >> /\ filter # << >>
      BY <2>1, <2>2, <2>4, <2>6, <2>10
    <3>2. Matches(f, t, RoutingSingle) <=> Len(topic) >= m - 1 /\ Fits(m - 1)
      BY <2>2, <2>3, <3>1 DEF Matches
    <3>3. MqttMatches(filter, topic) <=> Len(topic) >= m - 1 /\ Means(m - 1)
      BY <2>10, <3>1 DEF Matches, MqttMatches
    <3>4. m - 1 \in 0..m /\ (Len(topic) >= m - 1 => m - 1 <= Len(topic))
      BY <2>4, <2>10
    <3> HIDE DEF Fits, Means
    <3> QED
      BY <2>7, <2>9, <3>2, <3>3, <3>4
  <2>11. CASE ~(m > 0 /\ filter[m] = Multi)
    <3>1. (f = << >> \/ f[m] # Multi) /\ (filter = << >> \/ filter[m] # Multi)
      BY <2>1, <2>2, <2>4, <2>6, <2>11
    <3>2. Matches(f, t, RoutingSingle) <=> Len(topic) = m /\ Fits(m)
      BY <2>2, <2>3, <3>1 DEF Matches
    <3>3. MqttMatches(filter, topic) <=> Len(topic) = m /\ Means(m)
      BY <3>1 DEF Matches, MqttMatches
    <3>4. m \in 0..m /\ (Len(topic) = m => m <= Len(topic))
      BY <2>4
    <3> HIDE DEF Fits, Means
    <3> QED
      BY <2>7, <2>9, <3>2, <3>3, <3>4
  <2> QED
    BY <2>10, <2>11
<1> QED
  BY <1>1, KeyTypesInvariant, PTL
=============================================================================
