----------------------------- MODULE RoutingKey -----------------------------
(***************************************************************************)
(* The MQTT topic scheme of crates/domo-common/src/topic.rs and its        *)
(* translation to broker routing keys.  A topic, a filter and a key are    *)
(* sequences of levels.  A level is a plain name, a wildcard, the empty    *)
(* text, or a "mixed" text: one that carries a separator or a wildcard     *)
(* character among others ("a.b", "x+", "b*c").                            *)
(***************************************************************************)
EXTENDS Integers, Sequences

CONSTANTS
  Names,      \* plain level texts: tenant slugs, account ids, topic words
  Mixed,      \* level texts that carry a separator or wildcard inside
  TopicRoot   \* the literal "domo" every topic starts with

MqttSingle    == "+"
RoutingSingle == "*"
Multi         == "#"
Empty         == ""

Specials == {MqttSingle, RoutingSingle, Multi, Empty}

ASSUME LevelAssumption ==
  /\ TopicRoot \in Names
  /\ Names \cap Specials = {}
  /\ Mixed \cap (Names \cup Specials) = {}

Level == Names \cup Mixed \cup Specials

\* The answer of to_routing_key for a topic it refuses: no key has no level.
NoKey == << >>

(***************************************************************************)
(* device_prefix: the levels every topic of one device starts with.        *)
(***************************************************************************)
DevicePrefix(slug, device) == <<TopicRoot, slug, device>>

(***************************************************************************)
(* to_routing_key: refuse an empty level, a mixed level, a level that is   *)
(* the broker's own wildcard, and "#" anywhere but last; carry the rest    *)
(* across level by level.                                                  *)
(***************************************************************************)
CarriesMutant(topic, i) ==   \* the broker's own wildcard gets through
  /\ topic[i] \notin Mixed \cup {Empty}
  /\ topic[i] = Multi => i = Len(topic)

Carries(topic, i) ==
  /\ topic[i] \notin Mixed \cup {Empty, RoutingSingle}
  /\ topic[i] = Multi => i = Len(topic)

ToRoutingKey(topic) ==
  IF \A i \in 1..Len(topic) : Carries(topic, i)
  THEN [i \in 1..Len(topic) |->
          IF topic[i] = MqttSingle THEN RoutingSingle ELSE topic[i]]
  ELSE NoKey

(***************************************************************************)
(* owns_routing_key: the key walks through the device's own three levels,  *)
(* goes beneath them, and has no empty level and no "#" before the last.   *)
(***************************************************************************)
OwnsRoutingKeyMutant(slug, device, key) ==   \* a wildcard covers the device
  /\ Len(key) > 3
  /\ key[1] = TopicRoot
  /\ key[2] = slug
  /\ key[3] \in {device, RoutingSingle}
  /\ \A i \in 4..Len(key) : key[i] # Empty
  /\ \A i \in 4..(Len(key) - 1) : key[i] # Multi

OwnsRoutingKey(slug, device, key) ==
  /\ Len(key) > 3
  /\ key[1] = TopicRoot
  /\ key[2] = slug
  /\ key[3] = device
  /\ \A i \in 4..Len(key) : key[i] # Empty
  /\ \A i \in 4..(Len(key) - 1) : key[i] # Multi

InNamespace(slug, device, key) ==
  /\ Len(key) >= 3
  /\ \A i \in 1..3 : key[i] = DevicePrefix(slug, device)[i]

(***************************************************************************)
(* How the broker's topic exchange, and MQTT itself, match a name against  *)
(* a pattern whose only "#" is the last level (neither ToRoutingKey nor    *)
(* OwnsRoutingKey lets another through): each level takes its own text, or *)
(* anything if it is the single-level wildcard, and a final "#" takes the  *)
(* rest, which may be nothing.                                             *)
(***************************************************************************)
Matches(pattern, name, single) ==
  LET open  == pattern # << >> /\ pattern[Len(pattern)] = Multi
      fixed == IF open THEN Len(pattern) - 1 ELSE Len(pattern)
  IN  /\ IF open THEN Len(name) >= fixed ELSE Len(name) = fixed
      /\ \A i \in 1..fixed : pattern[i] \in {single, name[i]}

RoutingMatches(pattern, key) == Matches(pattern, key, RoutingSingle)
MqttMatches(filter, topic)   == Matches(filter, topic, MqttSingle)

\* What may be published: no level is a wildcard.
Concrete(name) ==
  \A i \in 1..Len(name) : name[i] \notin {MqttSingle, RoutingSingle, Multi}
=============================================================================
