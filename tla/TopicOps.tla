------------------------------ MODULE TopicOps ------------------------------
(***************************************************************************)
(* Topics, ACL masks and subscriptions as the server handles them          *)
(* (pubsub.rs, acl.rs).  A topic or mask string is the nonempty sequence   *)
(* of its '/'-separated chunks, so "a//b/" is <<"a", "", "b", "">> and     *)
(* the empty string is <<"">>: this is what str::split('/') yields.        *)
(***************************************************************************)
EXTENDS Integers, Sequences

CONSTANT MaxTopicDepth      \* MAX_TOPIC_DEPTH, from the configuration

ASSUME DepthAssumption == MaxTopicDepth \in Nat

EmptyTopic == <<"">>
TopicInvalidSymbols == {"#", "+"}

NonEmpty(chunk) == chunk # ""

\* the chunks of t that are not empty, in their order
Named(t) ==
    LET kept[i \in 0..Len(t)] ==
          IF i = 0 THEN <<>>
          ELSE IF NonEmpty(t[i]) THEN Append(kept[i - 1], t[i]) ELSE kept[i - 1]
    IN  kept[Len(t)]

-----------------------------------------------------------------------------
(* prepare_topic: "//" becomes "/" until there is none left, which removes *)
(* every empty chunk strictly inside the topic; then one leading '/'.      *)
Squeeze(t) ==
    IF Len(t) <= 2 THEN t
    ELSE <<Head(t)>> \o Named(SubSeq(t, 2, Len(t) - 1)) \o <<t[Len(t)]>>

StripLeading(t) == IF Len(t) > 1 /\ ~NonEmpty(Head(t)) THEN Tail(t) ELSE t

\* fault: the leading '/' is removed before the others are squeezed
StripFirst(t) == Squeeze(StripLeading(t))

prepare_topic(t) == StripLeading(Squeeze(t))

\* the topic is refused when the prepared form holds too many '/'
TooDeep(t) == Len(prepare_topic(t)) - 1 > MaxTopicDepth

HasInvalidSymbols(t) == \E i \in 1..Len(t) : t[i] \in TopicInvalidSymbols

-----------------------------------------------------------------------------
(* PathMask: chunks is None (the mask "#") or the chunks up to the first   *)
(* "#" included.  None is the empty sequence.                              *)
AnyMask == <<>>

MaskParses(s) == s # EmptyTopic

UpToAny(s) ==
    IF \E i \in 1..Len(s) : s[i] = "#"
    THEN SubSeq(s, 1, CHOOSE i \in 1..Len(s) :
                        s[i] = "#" /\ \A j \in 1..(i - 1) : s[j] # "#")
    ELSE s

from_str(s) == IF s = <<"#">> THEN AnyMask ELSE UpToAny(s)

\* fault: no chunks, no text
JoinChunks(mask) == IF mask = AnyMask THEN EmptyTopic ELSE mask

to_string(mask) == IF mask = AnyMask THEN <<"#">> ELSE mask

\* fault: chunks of the mask may be left over when the path ends
MatchesPrefix(mask, path) ==
    LET round[i \in 1..(Len(path) + 1)] ==
          \/ i > Len(path)
          \/ /\ i <= Len(mask)
             /\ \/ mask[i] = "#"
                \/ mask[i] \in {"+", path[i]} /\ round[i + 1]
    IN  round[1]

(* The loop of matches_split: one chunk of the path and one of the mask    *)
(* are taken in every round, the path's first.                             *)
MatchesChunks(mask, path) ==
    LET round[i \in 1..(Len(path) + 1)] ==
          IF i > Len(path) THEN i > Len(mask)
          ELSE /\ i <= Len(mask)
               /\ \/ mask[i] = "#"
                  \/ mask[i] \in {"+", path[i]} /\ round[i + 1]
    IN  round[1]

matches_split(mask, path) == mask = AnyMask \/ MatchesChunks(mask, path)

(* PathMaskList::matches over the masks of a "sub" or "pub" list           *)
Matches(masks, path) == \E m \in masks : matches_split(m, path)

(* An Acl is a record of the two lists and the replicator flag.  A list    *)
(* that is absent from the file (None) allows as little as an empty one.   *)
allow_read(acl, topic)  == Matches(acl.read, topic)
allow_write(acl, topic) == Matches(acl.write, topic)

-----------------------------------------------------------------------------
(* SubMap (crate submap, match_any "+", wildcard "#"): which topics a      *)
(* subscription covers.                                                    *)
Covers(subscription, topic) == MatchesChunks(UpToAny(subscription), topic)
=============================================================================
