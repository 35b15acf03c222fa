----------------------------- MODULE DeviceTwin -----------------------------
(***************************************************************************)
(* The Device Twin (services/device-twin): the broker's HTTP authorization *)
(* backend.  CONNECT (/rmq/user) verifies a token and caches a session;    *)
(* the token-less checks (/rmq/vhost, /rmq/resource, /rmq/topic) read that *)
(* cache.  Requests are served concurrently: a slot of `req' is one        *)
(* request in flight, and a step is the stretch of its handler between two *)
(* accesses to shared state or between two awaits.                         *)
(*                                                                         *)
(* A request that asks the tenant registry for a slug is inside a `call',  *)
(* one step per lock or file access, while the bootstrap rewrites the map  *)
(* in place: the registry may come to hold an old map for the file's own   *)
(* modification time, as module TenantRegistry shows.                      *)
(***************************************************************************)
EXTENDS Decide

CONSTANTS
  ConnectForms,  \* bodies of /rmq/user that parse
  CheckForms,    \* bodies of the other endpoints that parse
  Requests,      \* slots: broker requests in flight at once
  MaxClock,      \* bound on the clock
  MaxWrites      \* bound on the time at which a publication may begin

Unparsed == None    \* a body the endpoint's strict form refuses

ASSUME FormAssumption ==
  /\ ConnectForms \subseteq
       [user : Users, vhost : Vhosts \cup {None}, clientId : Users \cup {None},
        token : Tokens]
  /\ CheckForms \subseteq
       [ask : {ask \in Asks : ask.kind # "user"}, vhost : Vhosts,
        clientId : Users \cup {None}]
  /\ None \notin ConnectForms \cup CheckForms

VARIABLES
  now,        \* the wall clock
  file,       \* the tenant map's file: what it reads as, and its mtime
  writer,     \* the map the bootstrap is in the middle of writing, or None
  twin,       \* the Twin's process: "loaded" (inside new()) or "up"
  slugs,      \* TenantRegistry.slugs
  readAt,     \* TenantRegistry.slugs_read_at (0: None)
  verifiers,  \* tenants with a verifier built and pinned to them
  sessions,   \* SessionCache: user -> session
  req,        \* requests in flight
  call,       \* where each of them is inside TenantRegistry::slug, if it is
  proven,     \* history: tokens a verifier accepted since the Twin started
  published   \* history: every map content the file ever had

disk == <<file, writer, published>>
registry == <<slugs, readAt, verifiers>>
vars == <<now, disk, twin, registry, sessions, req, call, proven>>

-----------------------------------------------------------------------------
Idle == [stage |-> "idle"]
Handling ==
  [stage : {"known", "routing", "verifying", "verified", "naming"},
   user : Accounts, token : Tokens, awaited : BOOLEAN]
Named ==
  [stage : {"named"}, user : Accounts,
   token : {token \in Tokens : token.tenant \in Tenants}, awaited : BOOLEAN,
   slug : Slugs]
Connecting == Handling \cup Named
Checking == [stage : {"looked"}, ask : Asks, session : Session \cup {None}]
Slot == {Idle, Denied} \cup Connecting \cup Checking \cup Allowed

NoCall == [at |-> "none"]
Looking == [at |-> "looking"]
Call ==
  {NoCall, Looking, [at |-> "missed"]}
    \cup [at : {"statted", "moved"}, onDisk : Nat]
    \cup [at : {"read", "saved"}, onDisk : Nat, fresh : Maps]

TypeOK ==
  /\ now \in Nat
  /\ file \in [map : Maps, mtime : Nat] /\ writer \in Maps \cup {None}
  /\ twin \in {"loaded", "up"}
  /\ slugs \in Maps /\ readAt \in Nat
  /\ verifiers \subseteq Tenants
  /\ sessions \in [Users -> Session \cup {None}]
  /\ req \in [Requests -> Slot] /\ call \in [Requests -> Call]
  /\ proven \subseteq Tokens
  /\ published \subseteq Maps

-----------------------------------------------------------------------------
NoSessions == [u \in Users |-> None]
NoRequests == [r \in Requests |-> Idle]
NoCalls == [r \in Requests |-> NoCall]

\* The Twin starts before the bootstrap has published anything.
Init ==
  /\ now = 0
  /\ file = [map |-> NoMap, mtime |-> 0] /\ writer = None
  /\ twin = "up"
  /\ slugs = NoMap /\ readAt = 0 /\ verifiers = {}
  /\ sessions = NoSessions /\ req = NoRequests /\ call = NoCalls
  /\ proven = {} /\ published = {NoMap}

\* The local hops of a CONNECT, and the peek at the token's tenant.
PassesIdentity(form) ==
  /\ DecideUserIdentity(form.user, form.vhost, form.clientId)
  /\ form.token.tenant # None

\* The answer goes to a broker that still waits for it, or nowhere.
Reply(r, ask, allow, awaited) ==
  req' = [req EXCEPT ![r] =
            IF ~awaited THEN Idle
            ELSE IF allow THEN [stage |-> "allowed", ask |-> ask]
            ELSE Denied]

Moves(r, stage) == req' = [req EXCEPT ![r].stage = stage]
Calls(r, c) == call' = [call EXCEPT ![r] = c]

\* rmq_user up to the knows() gate on the token's unverified tenant claim.
BeginConnect(r, form) ==
  /\ twin = "up" /\ req[r] = Idle
  /\ IF form = Unparsed \/ ~PassesIdentity(form)
     THEN /\ req' = [req EXCEPT ![r] = Denied]
          /\ UNCHANGED call
     ELSE /\ req' = [req EXCEPT ![r] =
               [stage |-> "known", user |-> form.user, token |-> form.token,
                awaited |-> TRUE]]
          /\ Calls(r, Looking)
  /\ UNCHANGED <<now, disk, twin, registry, sessions, proven>>

-----------------------------------------------------------------------------
(***************************************************************************)
(* TenantRegistry::slug, called three times by a CONNECT: by the knows()   *)
(* gate, by verifier() - which asks again and then reuses or builds the    *)
(* tenant's verifier - and for the session's slug.  Answered is what the   *)
(* handler does with the answer until its next access to shared state.     *)
(***************************************************************************)
Asked(r) == req[r].token.tenant
SlugIn(map, t) == IF t \in DOMAIN map THEN map[t] ELSE None

AnsweredMutant(r, slug) ==    \* a tenant that lost its slug is cached without one
  \/ /\ slug = None /\ req[r].stage # "naming"
     /\ Reply(r, UserAsk(req[r].user), FALSE, req[r].awaited)
     /\ Calls(r, NoCall) /\ UNCHANGED verifiers
  \/ /\ slug # None /\ req[r].stage = "known"
     /\ Moves(r, "routing") /\ Calls(r, Looking) /\ UNCHANGED verifiers
  \/ /\ slug # None /\ req[r].stage = "routing"
     /\ Moves(r, "verifying") /\ Calls(r, NoCall)
     /\ verifiers' = verifiers \cup {Asked(r)}
  \/ /\ req[r].stage = "naming"
     /\ req' = [req EXCEPT ![r] =
          [stage |-> "named", user |-> req[r].user, token |-> req[r].token,
           awaited |-> req[r].awaited, slug |-> slug]]
     /\ Calls(r, NoCall) /\ UNCHANGED verifiers

Answered(r, slug) ==
  \/ /\ slug = None
     /\ Reply(r, UserAsk(req[r].user), FALSE, req[r].awaited)
     /\ Calls(r, NoCall) /\ UNCHANGED verifiers
  \/ /\ slug # None /\ req[r].stage = "known"
     /\ Moves(r, "routing") /\ Calls(r, Looking) /\ UNCHANGED verifiers
  \/ /\ slug # None /\ req[r].stage = "routing"
     /\ Moves(r, "verifying") /\ Calls(r, NoCall)
     /\ verifiers' = verifiers \cup {Asked(r)}
  \/ /\ slug # None /\ req[r].stage = "naming"
     /\ req' = [req EXCEPT ![r] =
          [stage |-> "named", user |-> req[r].user, token |-> req[r].token,
           awaited |-> req[r].awaited, slug |-> slug]]
     /\ Calls(r, NoCall) /\ UNCHANGED verifiers

\* The held map: a hit is the answer.
Look(r) ==
  /\ call[r].at = "looking"
  /\ \/ Asked(r) \in DOMAIN slugs /\ Answered(r, slugs[Asked(r)])
     \/ /\ Asked(r) \notin DOMAIN slugs
        /\ Calls(r, [at |-> "missed"]) /\ UNCHANGED <<req, verifiers>>
  /\ UNCHANGED <<now, disk, twin, slugs, readAt, sessions, proven>>

\* map_modified_at
Stat(r) ==
  /\ call[r].at = "missed"
  /\ Calls(r, [at |-> "statted", onDisk |-> file.mtime])
  /\ UNCHANGED <<now, disk, twin, registry, sessions, req, proven>>

CompareMutant(r) ==       \* the map is only read at the start
  /\ call[r].at = "statted"
  /\ Answered(r, None)
  /\ UNCHANGED <<now, disk, twin, slugs, readAt, sessions, proven>>

\* The gate of T-05-08: nothing has moved, so a miss is a miss.
Compare(r) ==
  /\ call[r].at = "statted"
  /\ \/ readAt = call[r].onDisk /\ Answered(r, None)
     \/ /\ readAt # call[r].onDisk
        /\ Calls(r, [call[r] EXCEPT !.at = "moved"]) /\ UNCHANGED <<req, verifiers>>
  /\ UNCHANGED <<now, disk, twin, slugs, readAt, sessions, proven>>

\* load_tenant_map
Load(r) ==
  /\ call[r].at = "moved"
  /\ Calls(r, [at |-> "read", onDisk |-> call[r].onDisk, fresh |-> file.map])
  /\ UNCHANGED <<now, disk, twin, registry, sessions, req, proven>>

SaveMap(r) ==
  /\ call[r].at = "read"
  /\ slugs' = call[r].fresh
  /\ Calls(r, [call[r] EXCEPT !.at = "saved"])
  /\ UNCHANGED <<now, disk, twin, readAt, verifiers, sessions, req, proven>>

SaveTime(r) ==
  /\ call[r].at = "saved"
  /\ readAt' = call[r].onDisk
  /\ Answered(r, SlugIn(call[r].fresh, Asked(r)))
  /\ UNCHANGED <<now, disk, twin, slugs, sessions, proven>>

Slug(r) == Look(r) \/ Stat(r) \/ Compare(r) \/ Load(r) \/ SaveMap(r) \/ SaveTime(r)

-----------------------------------------------------------------------------
\* The awaited verify() returns claims.
VerifyAccepts(r) ==
  /\ req[r].stage = "verifying"
  /\ Verifies(req[r].token, now)
  /\ Moves(r, "verified")
  /\ proven' = proven \cup {req[r].token}
  /\ UNCHANGED <<now, disk, twin, registry, sessions, call>>

VerifyRejectsMutant(r) ==     \* a refused CONNECT evicts the user's session
  /\ req[r].stage = "verifying"
  /\ Reply(r, UserAsk(req[r].user), FALSE, req[r].awaited)
  /\ sessions' = [sessions EXCEPT ![req[r].user] = None]
  /\ UNCHANGED <<now, disk, twin, registry, call, proven>>

\* The awaited verify() fails: on the token, or because the key set could
\* not be fetched.
VerifyRejects(r) ==
  /\ req[r].stage = "verifying"
  /\ Reply(r, UserAsk(req[r].user), FALSE, req[r].awaited)
  /\ UNCHANGED <<now, disk, twin, registry, sessions, call, proven>>

JudgeSubjectMutant(r) ==      \* whose token it is is not asked
  /\ req[r].stage = "verified"
  /\ Moves(r, "naming") /\ Calls(r, Looking)
  /\ UNCHANGED <<now, disk, twin, registry, sessions, proven>>

\* The verified subject is judged before the slug is asked for.
JudgeSubject(r) ==
  /\ req[r].stage = "verified"
  /\ \/ /\ ~DecideUserSubject(req[r].user, req[r].token)
        /\ Reply(r, UserAsk(req[r].user), FALSE, req[r].awaited)
        /\ UNCHANGED call
     \/ /\ DecideUserSubject(req[r].user, req[r].token)
        /\ Moves(r, "naming") /\ Calls(r, Looking)
  /\ UNCHANGED <<now, disk, twin, registry, sessions, proven>>

\* The session is cached and the CONNECT allowed.
FinishConnect(r) ==
  /\ req[r].stage = "named"
  /\ sessions' = [sessions EXCEPT ![req[r].user] =
       [tenant |-> Asked(r), slug |-> req[r].slug, exp |-> req[r].token.exp]]
  /\ Reply(r, UserAsk(req[r].user), TRUE, req[r].awaited)
  /\ UNCHANGED <<now, disk, twin, registry, call, proven>>

(***************************************************************************)
(* rmq_vhost, rmq_resource, rmq_topic: the session is read under its lock  *)
(* first, then the clock is read and the decision core called.             *)
(***************************************************************************)
BeginCheck(r) ==
  /\ twin = "up" /\ req[r] = Idle
  /\ \E form \in CheckForms \cup {Unparsed} :
       req' = [req EXCEPT ![r] =
         IF form = Unparsed \/ ~Admissible(form.ask, form.vhost, form.clientId)
         THEN Denied
         ELSE [stage |-> "looked", ask |-> form.ask,
               session |-> sessions[form.ask.user]]]
  /\ UNCHANGED <<now, disk, twin, registry, sessions, call, proven>>

FinishCheck(r) ==
  /\ req[r].stage = "looked"
  /\ LET s == req[r].session
     IN  Reply(r, req[r].ask,
               IsLive(s, now) /\ Covers(req[r].ask, s.slug), TRUE)
  /\ UNCHANGED <<now, disk, twin, registry, sessions, call, proven>>

Deliver(r) ==
  /\ req[r].stage \in {"allowed", "denied"}
  /\ req' = [req EXCEPT ![r] = Idle]
  /\ UNCHANGED <<now, disk, twin, registry, sessions, call, proven>>

-----------------------------------------------------------------------------
\* The broker's request_timeout passes while a CONNECT awaits its verifier, the
\* only await there is: the broker refuses the device; the handler is dropped,
\* or runs on unheard.
Abandon(r) ==
  /\ req[r].stage = "verifying" /\ req[r].awaited
  /\ req' = [req EXCEPT ![r] = Idle] \/ req' = [req EXCEPT ![r].awaited = FALSE]
  /\ UNCHANGED <<now, disk, twin, registry, sessions, call, proven>>

Tick ==
  /\ now < MaxClock
  /\ now' = now + 1
  /\ UNCHANGED <<disk, twin, registry, sessions, req, call, proven>>

(***************************************************************************)
(* The bootstrap's tenants stage rewrites the file in place: one step      *)
(* truncates it, a later one fills it - usually within the same tick of    *)
(* the file system's clock - and it may die in between.                    *)
(***************************************************************************)
Truncate(map) ==
  /\ writer = None /\ file.mtime < MaxWrites
  /\ writer' = map
  /\ file' = [map |-> NoMap, mtime |-> file.mtime + 1]
  /\ UNCHANGED <<now, published, twin, registry, sessions, req, call, proven>>

Fill ==
  /\ writer # None
  /\ \E later \in {0, 1} :
       file' = [map |-> writer, mtime |-> file.mtime + later]
  /\ writer' = None
  /\ published' = published \cup {writer}
  /\ UNCHANGED <<now, twin, registry, sessions, req, call, proven>>

WriterDies ==
  /\ writer # None
  /\ writer' = None
  /\ UNCHANGED <<now, file, published, twin, registry, sessions, req, call, proven>>

(***************************************************************************)
(* The Twin's process ends and starts again; only the file survives.       *)
(* TenantRegistry::new loads the map first and asks for its modification   *)
(* time second; warm() then builds the verifier of every tenant held, and  *)
(* only then does the Twin listen.                                         *)
(***************************************************************************)
Restart ==
  /\ slugs' = file.map /\ readAt' = 0 /\ verifiers' = {}
  /\ twin' = "loaded"
  /\ sessions' = NoSessions /\ req' = NoRequests /\ call' = NoCalls
  /\ proven' = {}
  /\ UNCHANGED <<now, disk>>

Listens ==
  /\ twin = "loaded"
  /\ readAt' = file.mtime
  /\ verifiers' = DOMAIN slugs
  /\ twin' = "up"
  /\ UNCHANGED <<now, disk, slugs, sessions, req, call, proven>>

Serve(r) ==
  \/ \E form \in ConnectForms \cup {Unparsed} : BeginConnect(r, form)
  \/ Slug(r)
  \/ VerifyAccepts(r)
  \/ VerifyRejects(r)
  \/ JudgeSubject(r)
  \/ FinishConnect(r)
  \/ BeginCheck(r)
  \/ FinishCheck(r)
  \/ Deliver(r)
  \/ Abandon(r)

Next ==
  \/ \E r \in Requests : Serve(r)
  \/ \E map \in Maps \ {NoMap} : Truncate(map)
  \/ Fill \/ WriterDies
  \/ Tick
  \/ Restart \/ Listens

Spec == Init /\ [][Next]_vars

-----------------------------------------------------------------------------
\* A session, or a snapshot of one, repeats the claims of one token accepted
\* since the Twin started, and its slug is from a published map.
Backed(u, s) ==
  /\ u \in Accounts
  /\ \E token \in proven :
       token.sub = u /\ token.tenant = s.tenant /\ token.exp = s.exp
  /\ \E m \in published : s.tenant \in DOMAIN m /\ m[s.tenant] = s.slug

EverServed(t) == \E m \in published : t \in DOMAIN m

\* The evidence an answer given in the past still has.
Justified(ask) ==
  /\ ask.user \in Accounts
  /\ \E token \in proven :
       /\ token.sub = ask.user
       /\ \E m \in published :
            /\ token.tenant \in DOMAIN m
            /\ ask.kind # "user" => Covers(ask, m[token.tenant])

(***************************************************************************)
(* Every cached session repeats the claims of one token that verified for  *)
(* that very user since the Twin started (T-05-05), whatever requests were *)
(* interleaved between the await and the insert, and its slug comes from a *)
(* map the bootstrap published for that token's tenant.                    *)
(***************************************************************************)
SessionsBacked == \A u \in Users : sessions[u] # None => Backed(u, sessions[u])

(***************************************************************************)
(* Requests in flight never run ahead of their evidence: no verifier is    *)
(* consulted for a tenant that was never served (T-05-02), a snapshot of a *)
(* session stays backed while the cache moves on, and every "allow" on its *)
(* way to the broker is justified.                                         *)
(***************************************************************************)
SlotsBacked ==
  \A r \in Requests :
    /\ req[r].stage \in {"routing", "verifying", "verified", "naming", "named"}
         => EverServed(Asked(r))
    /\ req[r].stage \in {"verified", "naming", "named"} => req[r].token \in proven
    /\ req[r].stage \in {"naming", "named"} => req[r].token.sub = req[r].user
    /\ req[r].stage = "named" =>
         \E m \in published : Asked(r) \in DOMAIN m /\ m[Asked(r)] = req[r].slug
    /\ req[r].stage = "looked" /\ req[r].session # None
         => Backed(req[r].ask.user, req[r].session)
    /\ req[r].stage = "allowed" => Justified(req[r].ask)

(***************************************************************************)
(* However reloads, publications and restarts are interleaved, the         *)
(* registry and every call that is re-reading the file for it have nothing *)
(* but maps the bootstrap published (or none), under a modification time   *)
(* the file has had, and no verifier is held for a tenant that was never   *)
(* served (T-05-02).  The map and the time need not belong together.       *)
(***************************************************************************)
RegistryBacked ==
  /\ {NoMap, slugs, file.map} \subseteq published
  /\ readAt <= file.mtime
  /\ \A t \in verifiers : EverServed(t)
  /\ \A r \in Requests :
       /\ call[r].at \in {"statted", "moved", "read", "saved"}
            => call[r].onDisk <= file.mtime
       /\ call[r].at \in {"read", "saved"} => call[r].fresh \in published

(***************************************************************************)
(* The three together: what the Twin acts on never runs ahead of what it   *)
(* has verified and read, in the cache, in the handlers that wait and in   *)
(* the registry they consult.                                              *)
(***************************************************************************)
EvidenceBacked == SessionsBacked /\ SlotsBacked /\ RegistryBacked

(***************************************************************************)
(* No two devices are ever allowed keys that meet: what one may subscribe  *)
(* to never matches what another may publish, across sessions, reloads of  *)
(* the tenant map and restarts.                                            *)
(***************************************************************************)
AllowedTopic(r) == req[r].stage = "allowed" /\ req[r].ask.kind = "topic"

NoSharedTopics ==
  \A r1, r2 \in Requests :
    /\ AllowedTopic(r1) /\ AllowedTopic(r2)
    /\ Concrete(req[r2].ask.what)
    /\ RoutingMatches(req[r1].ask.what, req[r2].ask.what)
    => req[r1].ask.user = req[r2].ask.user

(***************************************************************************)
(* A refused CONNECT caches nothing (rmq_tokens.rs:309): the cache changes *)
(* only when the Twin restarts, or for the one user whose CONNECT is being *)
(* allowed, on its way to the broker or unheard.                           *)
(***************************************************************************)
OnlyAllowedConnectsCache ==
  [][sessions' # sessions =>
       \/ sessions' = NoSessions /\ req' = NoRequests
       \/ \E r \in Requests :
            /\ req[r].stage = "named"
            /\ req'[r] \in {Idle, [stage |-> "allowed", ask |-> UserAsk(req[r].user)]}
            /\ \A u \in Users \ {req[r].user} : sessions'[u] = sessions[u]
            /\ sessions'[req[r].user] # None]_vars

\* The promise to the broker: each answered slot is an answer, the rest of
\* the Twin's state is hidden.
Answer ==
  [r \in Requests |-> IF req[r].stage \in {"allowed", "denied"} THEN req[r] ELSE None]

Authority == INSTANCE TwinAuthority WITH answer <- Answer

(***************************************************************************)
(* The Twin keeps its promise: every "allow" it gives is one TwinAuthority *)
(* gives on the evidence of a token alone.                                 *)
(***************************************************************************)
KeepsAuthority == Authority!Spec

-----------------------------------------------------------------------------
\* Connects every hop of which is in order.
GoodForms ==
  {form \in ConnectForms : /\ PassesIdentity(form)
                           /\ DecideUserSubject(form.user, form.token)
                           /\ form.token.genuine}

(***************************************************************************)
(* Fairness.  A device reconnects until it is in (rumqttc retries); the    *)
(* Twin's workers run what is ready, a Twin that starts comes to listen;   *)
(* and the broker's patience or a failed key-set fetch does not strike     *)
(* every attempt of the same token.                                        *)
(***************************************************************************)
Fairness ==
  /\ \A form \in GoodForms : SF_vars(\E r \in Requests : BeginConnect(r, form))
  /\ WF_vars(Listens)
  /\ \A r \in Requests :
       /\ WF_vars(Slug(r) \/ JudgeSubject(r) \/ FinishConnect(r))
       /\ WF_vars(VerifyAccepts(r) \/ VerifyRejects(r))
       /\ WF_vars(FinishCheck(r))
       /\ WF_vars(Deliver(r))
       /\ \A token \in Tokens :
            SF_vars(req[r] \in Connecting /\ req[r].token = token /\ VerifyAccepts(r))

FairSpec == Spec /\ Fairness

\* The registry holds a map without the tenant for the very file that names it.
Stale(t) == t \notin DOMAIN slugs /\ readAt = file.mtime

(***************************************************************************)
(* A tenant the bootstrap adds after the Twin has started is picked up on  *)
(* first use (main.rs:76), unless the registry is stale for good: once the *)
(* Twin stays up and the map on disk names a device's tenant for good, the *)
(* device has, again and again, a session that still counts, until its     *)
(* token expires.                                                          *)
(***************************************************************************)
GoodDevicesAdmitted ==
  <>[][~Restart]_vars =>
    \A form \in GoodForms :
      <>[](form.token.tenant \in DOMAIN file.map) =>
        \/ <>[]Stale(form.token.tenant)
        \/ []<>(IsLive(sessions[form.user], now) \/ now >= form.token.exp)
=============================================================================
