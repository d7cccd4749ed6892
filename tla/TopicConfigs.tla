----------------------------- MODULE TopicConfigs -----------------------------
(***************************************************************************)
(* describe_topic_configs: each config is told with the layer it comes     *)
(* from, while operators set and unset it in the layers.  The first layer  *)
(* that has a value counts.                                                *)
(***************************************************************************)
EXTENDS Naturals

CONSTANTS
  ConfigKeys,
  _NOTABLE_KEYS

Layers == <<"DYNAMIC_TOPIC_CONFIG", "DYNAMIC_BROKER_CONFIG", "DYNAMIC_DEFAULT_BROKER_CONFIG",
            "STATIC_BROKER_CONFIG", "DEFAULT_CONFIG">>

VARIABLES
  exposed,      \* does the client library expose an entry's is_default?
  setIn,        \* setIn[k]: the layers that have a value for k, by number
  configReply   \* [sources, notable, all_defaults], once there is an answer

configVars == <<exposed, setIn, configReply>>

Silent == [sources |-> [k \in ConfigKeys |-> "none"], notable |-> {}, all_defaults |-> FALSE]

ConfigsInit ==
  /\ exposed \in BOOLEAN
  /\ setIn = [k \in ConfigKeys |-> {5}]
  /\ configReply = Silent

\* The default is always there.
Alter(k, layer) ==
  /\ setIn' = [setIn EXCEPT ![k] = IF layer \in @ THEN @ \ {layer} ELSE @ \cup {layer}]
  /\ configReply' = Silent
  /\ UNCHANGED exposed

----------------------------------------------------------------------------
\* entry.source
Source(k) == Layers[CHOOSE l \in setIn[k] : \A m \in setIn[k] : l <= m]

\* Mutant: only what is set for the topic counts as an override.
DefaultUnlessTopic(source) == source # "DYNAMIC_TOPIC_CONFIG"

\* entry.is_default, as the library derives it from the source.
EntryIsDefault(source) == exposed /\ source = "DEFAULT_CONFIG"

\* is_default: the entry says so, or the source has DEFAULT in its name.
IsDefault(source) ==
  EntryIsDefault(source) \/ source \in {"DYNAMIC_DEFAULT_BROKER_CONFIG", "DEFAULT_CONFIG"}

notable_overrides == {k \in ConfigKeys \cap _NOTABLE_KEYS : ~IsDefault(Source(k))}

DescribeConfigs ==
  /\ configReply' = [sources      |-> [k \in ConfigKeys |-> Source(k)],
                     notable      |-> notable_overrides,
                     all_defaults |-> notable_overrides = {}]
  /\ UNCHANGED <<exposed, setIn>>

ConfigsNext == DescribeConfigs \/ \E k \in ConfigKeys, layer \in 1..4 : Alter(k, layer)

ConfigsSpec == ConfigsInit /\ [][ConfigsNext]_configVars

----------------------------------------------------------------------------
(* Properties.                                                             *)

\* Somebody set it for this topic or this broker: a key that makes a difference is
\* shown as an override, and "all defaults" is not said.  Of a default that somebody
\* changed for all brokers this cannot be said (describe_topic_configs.py:66).
OverridesShown ==
  configReply # Silent => \A k \in ConfigKeys \cap _NOTABLE_KEYS :
    setIn[k] \cap {1, 2} # {} \/ (4 \in setIn[k] /\ 3 \notin setIn[k]) =>
      k \in configReply.notable /\ ~configReply.all_defaults
=============================================================================
