------------------------------- MODULE Decide -------------------------------
(***************************************************************************)
(* The Device Twin's decision core (services/device-twin/src/rmq/          *)
(* decide.rs): pure functions of what the broker asks, the token and the   *)
(* cached session.  Only the verdict is modelled: the broker sees "allow"  *)
(* or "deny", never the reason.                                            *)
(***************************************************************************)
EXTENDS RoutingKey

CONSTANTS
  Accounts,   \* service-account ids (UUIDs); they appear as levels in keys
  Strangers,  \* user names that are not service-account ids
  Tenants,    \* tenant ids
  Slugs,      \* tenant slugs
  Maps,       \* tenant maps the bootstrap may publish: some Tenants -> Slugs
  Tokens,     \* access tokens a CONNECT may carry as its password
  Keys,       \* routing keys the broker may ask about
  Skew,       \* the verifier's clock-skew allowance on exp
  None        \* Option::None, wherever the code has one

Users == Accounts \cup Strangers
Vhosts == {"domo", "other"}
NoMap == << >>                     \* an absent or unreadable map file

\* sub and tenant are the token's own claims; genuine: signed by AXIAM's
\* published key for the audience axiam:m2m.
TokenType ==
  [sub : Users, tenant : Tenants \cup {None}, exp : Int, genuine : BOOLEAN]

ASSUME TwinAssumption ==
  /\ Accounts \subseteq Names /\ Slugs \subseteq Names
  /\ Accounts \cap Strangers = {}
  /\ None \notin Tenants \cup Users \cup Vhosts
  /\ Tokens \subseteq TokenType
  /\ NoMap \in Maps
  /\ \A m \in Maps : /\ DOMAIN m \subseteq Tenants
                    /\ \A t \in DOMAIN m : m[t] \in Slugs
  /\ Keys \subseteq Seq(Level)
  /\ Skew \in Nat

Session == [tenant : Tenants, slug : Slugs, exp : Int]


\* What the broker asks: a CONNECT, or one of the token-less checks.  A queue
\* is named by the account whose client id it is derived from.
Asks ==
  [kind : {"user", "vhost"}, user : Users, what : {<< >>}]
    \cup [kind : {"resource"}, user : Users,
          what : {<<"exchange", "amq.topic">>, <<"exchange", "other">>}
                   \cup {<<"queue", a>> : a \in Accounts}]
    \cup [kind : {"topic"}, user : Users, what : Keys]

UserAsk(u) == [kind |-> "user", user |-> u, what |-> << >>]

\* What the broker is told: "deny", and no more, or "allow".
Denied == [stage |-> "denied"]
Allowed == [stage : {"allowed"}, ask : Asks]

ASSUME NoneAssumption == None \notin Session \cup Allowed \cup {Denied}

-----------------------------------------------------------------------------
IsServiceAccountId(u) == u \in Accounts

\* The client id "CN=<name>" is written as the name itself, as is the queue
\* name the broker derives from it.
ExpectedClientId(u) == u

DecideUserIdentity(u, vhost, clientId) ==
  /\ vhost \in {"domo", None}
  /\ IsServiceAccountId(u)
  /\ clientId = ExpectedClientId(u)

DecideUserSubject(u, token) == token.sub = u

ClientIdBinding(u, clientId) == clientId \in {None, ExpectedClientId(u)}

IsLiveMutant(s, t) == s # None /\ t < s.exp + Skew   \* the verifier's allowance

IsLive(s, t) == s # None /\ t < s.exp

\* The hops of a token-less check that need no session.  The topic check is
\* sent no client id of its own.
Admissible(ask, vhost, clientId) ==
  /\ vhost = "domo"
  /\ ask.kind # "topic" => ClientIdBinding(ask.user, clientId)

OwnedResource(u, what) ==
  what \in {<<"exchange", "amq.topic">>, <<"queue", ExpectedClientId(u)>>}

\* What the session's slug and the user name still have to cover.
CoversMutant(ask, slug) ==    \* a topic is covered by the exchange it goes through
  \/ ask.kind = "vhost"
  \/ ask.kind = "resource" /\ OwnedResource(ask.user, ask.what)
  \/ ask.kind = "topic"

Covers(ask, slug) ==
  \/ ask.kind = "vhost"
  \/ ask.kind = "resource" /\ OwnedResource(ask.user, ask.what)
  \/ ask.kind = "topic" /\ OwnsRoutingKey(slug, ask.user, ask.what)

\* The SDK's verifier, pinned to the token's own tenant claim: signature,
\* audience and tenant are in `genuine'; exp is judged with the allowance.
Verifies(token, t) == token.genuine /\ t <= token.exp + Skew
=============================================================================
