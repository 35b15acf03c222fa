---------------------------- MODULE MCRoutingKey ----------------------------
(***************************************************************************)
(* Checks the routing-key operators over every pair of a subscription and  *)
(* a publication, each grown level by level from nothing, from the root,   *)
(* from a tenant's level or from a device's whole prefix.                  *)
(***************************************************************************)
EXTENDS RoutingKey

CONSTANTS
  KeySlugs,    \* tenant slugs
  KeyDevices,  \* service-account identifiers
  MaxGrowth    \* bound: levels added to the start of a topic or filter

ASSUME KeyAssumption ==
  /\ KeySlugs \subseteq Names /\ KeyDevices \subseteq Names
  /\ MaxGrowth \in Nat

VARIABLES filter, topic, grown

keyVars == <<filter, topic, grown>>

Starts ==
  {<< >>, <<TopicRoot>>}
    \cup {<<TopicRoot, s>> : s \in KeySlugs}
    \cup {DevicePrefix(s, d) : s \in KeySlugs, d \in KeyDevices}

KeyInit == filter \in Starts /\ topic \in Starts /\ grown = [filter |-> 0, topic |-> 0]

ExtendFilter ==
  /\ grown.filter < MaxGrowth
  /\ grown' = [grown EXCEPT !.filter = @ + 1]
  /\ \E l \in Level : filter' = Append(filter, l)
  /\ UNCHANGED topic

ExtendTopic ==
  /\ grown.topic < MaxGrowth
  /\ grown' = [grown EXCEPT !.topic = @ + 1]
  /\ \E l \in Level : topic' = Append(topic, l)
  /\ UNCHANGED filter

KeyNext == ExtendFilter \/ ExtendTopic

KeySpec == KeyInit /\ [][KeyNext]_keyVars

-----------------------------------------------------------------------------
(***************************************************************************)
(* The reference match, for any pattern: row[i][j] says whether its first  *)
(* i levels match the first j of the name, "#" taking any number of them.  *)
(***************************************************************************)
NextRow(level, name, single, row) ==
  [j \in 0..Len(name) |->
     IF level = Multi THEN \E k \in 0..j : row[k]
     ELSE j > 0 /\ level \in {single, name[j]} /\ row[j - 1]]

Walk(pattern, name, single) ==
  LET row[i \in 0..Len(pattern)] ==
        IF i = 0 THEN [j \in 0..Len(name) |-> j = 0]
        ELSE NextRow(pattern[i], name, single, row[i - 1])
  IN  row[Len(pattern)][Len(name)]

(***************************************************************************)
(* What a device may subscribe to (a key it owns) never matches what       *)
(* another device may publish: the adjacency and wildcard hazards of       *)
(* owns_routing_key.                                                       *)
(***************************************************************************)
NoCrossDelivery ==
  \A s1, s2 \in KeySlugs, d1, d2 \in KeyDevices :
    /\ OwnsRoutingKey(s1, d1, filter)
    /\ OwnsRoutingKey(s2, d2, topic)
    /\ Concrete(topic)
    /\ RoutingMatches(filter, topic)
    => <<s1, d1>> = <<s2, d2>>

(***************************************************************************)
(* An owned pattern delivers nothing from outside the device's namespace,  *)
(* whoever published it and whether or not that publisher owned the key.   *)
(***************************************************************************)
PatternConfined ==
  \A s \in KeySlugs, d \in KeyDevices :
    OwnsRoutingKey(s, d, filter) /\ Walk(filter, topic, RoutingSingle)
      => InNamespace(s, d, topic)

(***************************************************************************)
(* to_routing_key keeps the meaning of a filter: on a topic that can be    *)
(* published, the broker's match of the translations is MQTT's own match.  *)
(***************************************************************************)
TranslationFaithful ==
  LET f == ToRoutingKey(filter)
      t == ToRoutingKey(topic)
  IN  f # NoKey /\ t # NoKey /\ Concrete(topic)
        => (Walk(f, t, RoutingSingle) <=> MqttMatches(filter, topic))
=============================================================================
