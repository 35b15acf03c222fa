--------------------------- MODULE TwinAuthority ----------------------------
(***************************************************************************)
(* What the Device Twin promises the broker, with no session cache, no     *)
(* tenant registry and no handlers: an "allow" rests on a token that a     *)
(* verifier has accepted since the Twin started, that names the asking     *)
(* user, whose tenant some published map served, and - for a token-less    *)
(* check - that has not expired when the answer is given.  Each piece of   *)
(* evidence is the token itself, not a memory of it.                       *)
(***************************************************************************)
EXTENDS Decide

CONSTANT Requests

VARIABLES now, published, proven, answer

vars == <<now, published, proven, answer>>

Init ==
  /\ now = 0
  /\ published = {NoMap}
  /\ proven = {}
  /\ answer = [r \in Requests |-> None]

\* A published map under which this token's tenant has this slug covers it.
Evidence(token, ask) ==
  /\ token.sub = ask.user
  /\ \E m \in published :
       /\ token.tenant \in DOMAIN m
       /\ ask.kind # "user" => now < token.exp /\ Covers(ask, m[token.tenant])

Tick == now' = now + 1 /\ UNCHANGED <<published, proven, answer>>

Publish == \E m \in Maps :
  published' = published \cup {m} /\ UNCHANGED <<now, proven, answer>>

Accept == \E token \in Tokens :
  /\ proven' = proven \cup {token}
  /\ Verifies(token, now)
  /\ \E m \in published : token.tenant \in DOMAIN m
  /\ UNCHANGED <<now, published, answer>>

Allow(r) ==
  /\ answer[r] = None
  /\ UNCHANGED <<now, published, proven>>
  /\ \E ask \in Asks :
       /\ answer' = [answer EXCEPT ![r] = [stage |-> "allowed", ask |-> ask]]
       /\ \E token \in proven : Evidence(token, ask)

Deny(r) ==
  /\ answer[r] = None
  /\ answer' = [answer EXCEPT ![r] = Denied]
  /\ UNCHANGED <<now, published, proven>>

Deliver(r) ==
  /\ answer[r] # None
  /\ answer' = [answer EXCEPT ![r] = None]
  /\ UNCHANGED <<now, published, proven>>

\* A restart forgets every token.
Forget ==
  /\ proven' = {}
  /\ answer' = [r \in Requests |-> None]
  /\ UNCHANGED <<now, published>>

Next ==
  \/ Tick \/ Publish \/ Accept \/ Forget
  \/ \E r \in Requests : Deliver(r) \/ Deny(r) \/ Allow(r)

Spec == Init /\ [][Next]_vars
=============================================================================
