---------------------------- MODULE ConfigActive ----------------------------
(***************************************************************************)
(* Which location, channel and topic the configuration makes active        *)
(* (src/mcp_server/src/config): the user's file and the project's file are *)
(* merged (merge.ts), the hosted location is filled in (defaults.ts), the  *)
(* environment may override the location (env.ts), and resolveActive       *)
(* cascades the `active` flags upward or throws (active.ts).               *)
(*                                                                         *)
(* A configuration is what decides this: which locations it names, which   *)
(* of them have a url and tokens, the channels they list, and the `active` *)
(* flags that are true and that are false.  The keys of a file come in     *)
(* some order; `last` is the topic that resolveActive happens to see last. *)
(* "undefined" is the empty set, a value a set of one.  A url that a file  *)
(* gives is not blank.                                                     *)
(***************************************************************************)

CONSTANTS Locations, Channels, Topics

LOCAL_LOCATION == "local"
DEFAULT_REMOTE_LOCATION_NAME == "remote"

ChannelPath == [location: Locations, name: Channels]
TopicPath == [location: Locations, channel: Channels, name: Topics]

\* `active` flags, level by level
Flags == [locations: SUBSET Locations, channels: SUBSET ChannelPath, topics: SUBSET TopicPath]

NoFlags == [locations |-> {}, channels |-> {}, topics |-> {}]

Config == [names: SUBSET Locations, urls: SUBSET Locations, tokens: SUBSET Locations,
           entries: SUBSET ChannelPath, on: Flags, off: Flags]

-----------------------------------------------------------------------------
(* Merging *)

\* The flags of one value: the project's, and the user's where the project
\* does not say the opposite.
Overlay(user, project, opposite) ==
    [locations |-> project.locations \cup (user.locations \ opposite.locations),
     channels  |-> project.channels \cup (user.channels \ opposite.channels),
     topics    |-> project.topics \cup (user.topics \ opposite.topics)]

\* mergeConfigs, after stripProjectCredentials: tokens are the user's alone.
mergeConfigs(user, project) ==
    [names   |-> user.names \cup project.names,
     urls    |-> user.urls \cup project.urls,
     tokens  |-> user.tokens,
     entries |-> user.entries \cup project.entries,
     on      |-> Overlay(user.on, project.on, project.off),
     off     |-> Overlay(user.off, project.off, project.on)]

HasNonLocal(cfg) == cfg.names \ {LOCAL_LOCATION} # {}

\* The hosted location is completed if there, added if there is no other
\* remote location, and never made active.
applyDefaults(cfg, optOut) ==
    IF ~optOut /\ (DEFAULT_REMOTE_LOCATION_NAME \in cfg.names \/ ~HasNonLocal(cfg))
    THEN [cfg EXCEPT !.names = @ \cup {DEFAULT_REMOTE_LOCATION_NAME},
                     !.urls = @ \cup {DEFAULT_REMOTE_LOCATION_NAME}]
    ELSE cfg

\* CCCOLLAB_REMOTE_URL: every flag at any depth is cleared and the location
\* it registers is the active one.
applyEnvOverrides(cfg, envUrl) ==
    IF envUrl
    THEN [cfg EXCEPT !.names = @ \cup {DEFAULT_REMOTE_LOCATION_NAME},
                     !.urls = @ \cup {DEFAULT_REMOTE_LOCATION_NAME},
                     !.on = [NoFlags EXCEPT !.locations = {DEFAULT_REMOTE_LOCATION_NAME}],
                     !.off = NoFlags]
    ELSE cfg

\* resolveConfig, up to resolveActive
Final(user, project, optOut, envUrl) ==
    [applyEnvOverrides(applyDefaults(mergeConfigs(user, project), optOut), envUrl)
        EXCEPT !.names = @ \cup {LOCAL_LOCATION}]

-----------------------------------------------------------------------------
(* resolveActive *)

ActiveChannels(cfg) ==
    cfg.on.channels \cup {[location |-> t.location, name |-> t.channel] : t \in cfg.on.topics}

ActiveLocations(cfg) == cfg.on.locations \cup {c.location : c \in ActiveChannels(cfg)}

MissingUrl(cfg) == \E l \in cfg.names : l # LOCAL_LOCATION /\ l \notin cfg.urls

TwoTopics(cfg) ==
    \E s, t \in cfg.on.topics : s # t /\ s.location = t.location /\ s.channel = t.channel

TwoChannels(cfg) == \E c, d \in ActiveChannels(cfg) : c # d /\ c.location = d.location

TwoLocations(cfg) == \E k, l \in ActiveLocations(cfg) : k # l

Throws(cfg) == MissingUrl(cfg) \/ TwoTopics(cfg) \/ TwoChannels(cfg) \/ TwoLocations(cfg)

activeLocation(cfg) == ActiveLocations(cfg)

activeChannel(cfg) == {c \in ActiveChannels(cfg) : c.location \in activeLocation(cfg)}

\* The last topic seen counts if it is in the active channel.
activeTopic(cfg, last) ==
    {t \in last : [location |-> t.location, name |-> t.channel] \in activeChannel(cfg)}

\* what pass 1 may hold in the end: the last of the topics with a flag
LastSeen(cfg) == IF cfg.on.topics = {} THEN {{}} ELSE {{t} : t \in cfg.on.topics}

\* The location is the active one or lists channels: planStartupAttachments.
Engaged(cfg, l) == l \in activeLocation(cfg) \/ \E e \in cfg.entries : e.location = l
=============================================================================
