----------------------------- MODULE KafkaCommit -----------------------------
(* One partition of a Kafka topic, consumed behind MqDevFilterGuard and     *)
(* KafkaCommitInterceptor by one member of the group after another.         *)
EXTENDS Naturals, FiniteSets

CONSTANTS None,
  MaxOffset,    \* bound: messages of the partition
  MaxCrashes    \* bound: how many times the partition changes hands

VARIABLES
  partition,    \* the x-dev-name of each message
  position,     \* the offset the consumer takes next
  current,      \* the offset its handler runs on, None without
  commits,      \* commitOffsets requests that the broker has not applied
  committed,    \* the committed offset
  outcome,      \* history: how each message was processed last
  crashes       \* how many times the partition changed hands

kcVars == <<partition, position, current, commits, committed, outcome, crashes>>

Offset == 0..(MaxOffset - 1)
Dev == {"none", "own", "other"}

KcTypeOK ==
  /\ DOMAIN partition \in {0..(n - 1) : n \in 0..MaxOffset}
  /\ \A o \in DOMAIN partition : partition[o] \in Dev
  /\ position \in 0..MaxOffset /\ committed \in 0..MaxOffset
  /\ current \in Offset \cup {None}
  /\ commits \in SUBSET (0..MaxOffset)
  /\ outcome \in [Offset -> {"none", "handled", "failed", "filtered"}]
  /\ crashes \in 0..MaxCrashes

KcInit ==
  /\ partition = [o \in {} |-> "none"]
  /\ position = 0 /\ current = None
  /\ commits = {} /\ committed = 0
  /\ outcome = [o \in Offset |-> "none"]
  /\ crashes = 0

Length == Cardinality(DOMAIN partition)

(* KafkaEventPublisher: the header of the developer's process, if it has one.*)
KafkaPublish(dev) ==
  /\ Length < MaxOffset
  /\ partition' = [o \in 0..Length |-> IF o = Length THEN dev ELSE partition[o]]
  /\ UNCHANGED <<position, current, commits, committed, outcome, crashes>>

(* Messages of a partition come one after the other.  MqDevFilterGuard keeps*)
(* the messages of another developer from the handler.                      *)
Filtered(o) == partition[o] = "other"

EachMessage ==
  /\ current = None /\ position < Length
  /\ IF Filtered(position)
       THEN /\ outcome' = [outcome EXCEPT ![position] = "filtered"]
            /\ position' = position + 1
            /\ UNCHANGED current
       ELSE current' = position /\ UNCHANGED <<position, outcome>>
  /\ UNCHANGED <<partition, commits, committed, crashes>>

(* KafkaCommitInterceptor: commitOffsets is sent when the handler succeeded,*)
(* and not awaited.                                                         *)
CommitOffsetBefore(ok) == commits \cup {current + 1, Length}
CommitOffset(ok) == IF ok THEN commits \cup {current + 1} ELSE commits

KafkaHandled(ok) ==
  /\ current # None
  /\ outcome' = [outcome EXCEPT ![current] = IF ok THEN "handled" ELSE "failed"]
  /\ commits' = CommitOffset(ok)
  /\ position' = current + 1
  /\ current' = None
  /\ UNCHANGED <<partition, committed, crashes>>

(* The requests may be applied in any order, or rejected.                   *)
CommitApplied(o) ==
  /\ o \in commits
  /\ commits' = commits \ {o}
  /\ committed' \in {o, committed}
  /\ UNCHANGED <<partition, position, current, outcome, crashes>>

(* The consumer dies or loses the partition: another one starts at the      *)
(* committed offset; what is in flight may still be applied.                *)
Rebalance ==
  /\ crashes < MaxCrashes
  /\ crashes' = crashes + 1
  /\ position' = committed
  /\ current' = None
  /\ UNCHANGED <<partition, commits, committed, outcome>>

-----------------------------------------------------------------------------
KcNext ==
  \/ \E dev \in Dev : KafkaPublish(dev)
  \/ EachMessage
  \/ \E ok \in BOOLEAN : KafkaHandled(ok)
  \/ \E o \in 0..MaxOffset : CommitApplied(o)
  \/ Rebalance

KcSpec == KcInit /\ [][KcNext]_kcVars

-----------------------------------------------------------------------------
(* Wherever the consumer died and in whatever order commits were applied,   *)
(* the committed offset passes only messages that were processed: handled,  *)
(* or filtered, or failed before a later one was handled.                   *)
CommittedWasProcessed ==
  \A o \in Offset : o < committed => outcome[o] # "none"
=============================================================================
