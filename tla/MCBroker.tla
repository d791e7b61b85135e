------------------------------ MODULE MCBroker ------------------------------
(***************************************************************************)
(* Broker for TLC.  Two spellings of one channel, another channel and a    *)
(* blank name; two spellings of one title.                                 *)
(***************************************************************************)
EXTENDS Broker, TLC

MCNormalizeChannel == [r \in RawChannels |->
    CASE r = "Dev" -> "dev" [] r = " " -> NoChannel [] OTHER -> r]

MCNormalizeTitle == [t \in Titles |-> IF t = "Plan " THEN "plan" ELSE t]

\* A caller may relay a message of a topic that nobody posted to the topic.
MCRelayedEvents ==
    [type: {"message"}, channel: {"dev"}, topicId: TopicIds, sender: Sessions, text: Texts]

SymmetryOfNames == Permutations(Sessions) \cup Permutations(TopicIds) \cup Permutations(Clients)
=============================================================================
