--------------------------- MODULE ServicesProofs ---------------------------
(* Theorems about the services of MCServices: first of each service by      *)
(* itself, then of the composition, in which only the subject moves.        *)
EXTENDS MCServices, RuntimeConfigProofs, Sequences, FiniteSetTheorems

-----------------------------------------------------------------------------
(* Kafka: every offset up to which the consumer has come, or that it has    *)
(* asked to commit, has only processed messages below it.                   *)
Processed(n) == \A o \in Kafka!Offset : o < n => outcome[o] # "none"

KafkaInv ==
  /\ Kafka!KcTypeOK
  /\ current # None => current = position /\ current < Kafka!Length
  /\ Processed(position) /\ Processed(committed)
  /\ \A c \in offsets : Processed(c)

LEMMA KafkaCardinality == \A S : Kafka!Cardinality(S) = Cardinality(S)
  BY DEF Kafka!Cardinality, Cardinality

(* The offsets of a partition of n messages are 0 to n - 1. *)
LEMMA PartitionLength ==
  ASSUME Kafka!KcTypeOK
  PROVE  /\ Kafka!Length \in 0..MaxOffset
         /\ DOMAIN partition = 0..(Kafka!Length - 1)
<1>1. PICK n \in 0..MaxOffset : DOMAIN partition = 0..(n - 1)
  BY DEF Kafka!KcTypeOK
<1>2. Cardinality(0..(n - 1)) = n
  BY FS_Interval, BrokerAssumption
<1> QED
  BY <1>1, <1>2, KafkaCardinality DEF Kafka!Length

LEMMA KafkaStart == Kafka!KcInit => KafkaInv
<1> SUFFICES ASSUME Kafka!KcInit PROVE KafkaInv
  OBVIOUS
<1>1. DOMAIN partition = 0..(0 - 1) /\ 0 \in 0..MaxOffset
  BY BrokerAssumption DEF Kafka!KcInit
<1>2. Kafka!KcTypeOK
  BY <1>1, BrokerAssumption DEF Kafka!KcInit, Kafka!KcTypeOK
<1> QED
  BY <1>2 DEF KafkaInv, Kafka!KcInit, Processed, Kafka!Offset

LEMMA KafkaPublishes ==
  ASSUME KafkaInv, NEW dev \in Kafka!Dev, Kafka!KafkaPublish(dev)
  PROVE  KafkaInv'
<1>1. Kafka!Length \in Nat /\ Kafka!Length + 1 \in 0..MaxOffset
  BY PartitionLength, BrokerAssumption DEF KafkaInv, Kafka!KafkaPublish
<1>2. DOMAIN partition' = 0..((Kafka!Length + 1) - 1)
  BY <1>1 DEF Kafka!KafkaPublish
<1>3. \A o \in DOMAIN partition' : partition'[o] \in Kafka!Dev
  BY <1>1, PartitionLength DEF KafkaInv, Kafka!KafkaPublish, Kafka!KcTypeOK
<1>4. Kafka!KcTypeOK'
  BY <1>1, <1>2, <1>3 DEF KafkaInv, Kafka!KcTypeOK, Kafka!KafkaPublish
<1>5. Kafka!Length' = Kafka!Length + 1
  BY <1>1, <1>2, FS_Interval, KafkaCardinality DEF Kafka!Length
<1> QED
  BY <1>1, <1>4, <1>5 DEF KafkaInv, Kafka!KafkaPublish, Processed, Kafka!KcTypeOK

LEMMA KafkaConsumes ==
  ASSUME KafkaInv, Kafka!EachMessage
  PROVE  KafkaInv'
<1>1. Kafka!Length \in 0..MaxOffset /\ position < Kafka!Length /\ position \in Kafka!Offset
  BY PartitionLength, BrokerAssumption
  DEF KafkaInv, Kafka!EachMessage, Kafka!KcTypeOK, Kafka!Offset
<1>2. Kafka!Length' = Kafka!Length
  BY DEF Kafka!EachMessage, Kafka!Length
<1>3. CASE Kafka!Filtered(position)
  BY <1>1, <1>2, <1>3, BrokerAssumption
  DEF KafkaInv, Kafka!EachMessage, Kafka!KcTypeOK, Kafka!Offset, Processed
<1>4. CASE ~Kafka!Filtered(position)
  BY <1>1, <1>2, <1>4
  DEF KafkaInv, Kafka!EachMessage, Kafka!KcTypeOK, Kafka!Offset, Processed
<1> QED
  BY <1>3, <1>4

LEMMA KafkaHandles ==
  ASSUME KafkaInv, NEW ok \in BOOLEAN, Kafka!KafkaHandled(ok)
  PROVE  KafkaInv'
<1>1. Kafka!Length \in 0..MaxOffset /\ current = position /\ position < Kafka!Length
      /\ position \in Kafka!Offset
  BY PartitionLength, BrokerAssumption
  DEF KafkaInv, Kafka!KafkaHandled, Kafka!KcTypeOK, Kafka!Offset
<1>2. \A o \in Kafka!Offset : outcome'[o] = "none" => o # position /\ outcome[o] = "none"
  BY <1>1 DEF KafkaInv, Kafka!KafkaHandled, Kafka!KcTypeOK
<1>3. Processed(position)'
  BY <1>1, <1>2 DEF KafkaInv, Processed, Kafka!Offset, Kafka!KafkaHandled
<1>4. Kafka!KcTypeOK'
  <2>1. current + 1 \in 0..MaxOffset
    BY <1>1, BrokerAssumption DEF Kafka!Offset
  <2>2. offsets' \in SUBSET (0..MaxOffset)
    BY <2>1 DEF KafkaInv, Kafka!KafkaHandled, Kafka!KcTypeOK, Kafka!CommitOffset
  <2> QED
    BY <1>1, <2>1, <2>2 DEF KafkaInv, Kafka!KafkaHandled, Kafka!KcTypeOK
<1> QED
  BY <1>1, <1>2, <1>3, <1>4
  DEF KafkaInv, Kafka!KafkaHandled, Kafka!KcTypeOK, Kafka!CommitOffset, Processed

LEMMA KafkaStep == KafkaInv /\ [Kafka!KcNext]_kafkaVars => KafkaInv'
<1> SUFFICES ASSUME KafkaInv, [Kafka!KcNext]_kafkaVars PROVE KafkaInv'
  OBVIOUS
<1>1. ASSUME NEW o \in 0..MaxOffset, Kafka!CommitApplied(o) PROVE KafkaInv'
  BY <1>1 DEF KafkaInv, Kafka!CommitApplied, Kafka!KcTypeOK, Kafka!Length, Processed
<1>2. CASE Kafka!Rebalance
  BY <1>2, BrokerAssumption
  DEF KafkaInv, Kafka!Rebalance, Kafka!KcTypeOK, Kafka!Length, Processed
<1>3. CASE UNCHANGED kafkaVars
  BY <1>3 DEF KafkaInv, kafkaVars, Kafka!KcTypeOK, Kafka!Length, Processed
<1> QED
  BY <1>1, <1>2, <1>3, KafkaPublishes, KafkaConsumes, KafkaHandles DEF Kafka!KcNext

(* CommittedWasProcessed: KafkaCommitInterceptor sends a commit without     *)
(* waiting for it, and a rebalance takes the consumer back; the committed   *)
(* offset still passes processed messages only.                             *)
THEOREM KafkaCommits == Kafka!KcSpec => [](Kafka!KcTypeOK /\ Kafka!CommittedWasProcessed)
<1>1. KafkaInv => Kafka!KcTypeOK /\ Kafka!CommittedWasProcessed
  BY DEF KafkaInv, Processed, Kafka!CommittedWasProcessed
<1> QED
  BY <1>1, KafkaStart, KafkaStep, PTL DEF Kafka!KcSpec, Kafka!kcVars, kafkaVars

-----------------------------------------------------------------------------
(* RabbitMQ: an answered or acknowledged message has been handled, a dead   *)
(* one has failed with its retries used up.                                 *)
RabbitInv ==
  /\ Rabbit!RqTypeOK
  /\ \A m \in Message :
       /\ rabbit[m].state \in {"answered", "acked"} => rabbit[m].handled
       /\ rabbit[m].state = "dead" =>
            rabbit[m].failures > 0 /\ rabbit[m].header >= MAX_RETRY

(* LeavesHandledOrExhausted: RabbitAckInterceptor acknowledges, gives back  *)
(* or drops a message, and connections are lost in between.                 *)
THEOREM RabbitLeaves == Rabbit!RqSpec => [](Rabbit!RqTypeOK /\ Rabbit!LeavesHandledOrExhausted)
<1>1. Rabbit!RqInit => RabbitInv
  BY BrokerAssumption DEF Rabbit!RqInit, RabbitInv, Rabbit!RqTypeOK, Rabbit!RabbitRec
<1>2. RabbitInv /\ [Rabbit!RqNext]_rabbitVars => RabbitInv'
  <2> SUFFICES ASSUME RabbitInv, [Rabbit!RqNext]_rabbitVars PROVE RabbitInv'
    OBVIOUS
  <2> USE BrokerAssumption DEF RabbitInv, Rabbit!RqTypeOK, Rabbit!RabbitRec
  <2>1. ASSUME NEW m \in Message, NEW header \in 0..MAX_RETRY,
               Rabbit!RabbitPublish(m, header)
        PROVE RabbitInv'
    BY <2>1 DEF Rabbit!RabbitPublish
  <2>2. ASSUME NEW m \in Message, Rabbit!RabbitDeliver(m) PROVE RabbitInv'
    BY <2>2 DEF Rabbit!RabbitDeliver
  <2>3. ASSUME NEW m \in Message, Rabbit!HandlerSucceeds(m) PROVE RabbitInv'
    BY <2>3 DEF Rabbit!HandlerSucceeds
  <2>4. ASSUME NEW m \in Message, Rabbit!Ack(m) PROVE RabbitInv'
    BY <2>4 DEF Rabbit!Ack
  <2>5. ASSUME NEW m \in Message, Rabbit!HandlerFails(m) PROVE RabbitInv'
    BY <2>5 DEF Rabbit!HandlerFails, Rabbit!FailedState, Rabbit!Requeues
  <2>6. ASSUME NEW m \in Message, Rabbit!ConnectionLost(m) PROVE RabbitInv'
    BY <2>6 DEF Rabbit!ConnectionLost
  <2>7. CASE UNCHANGED rabbitVars
    BY <2>7 DEF rabbitVars
  <2> QED
    BY <2>1, <2>2, <2>3, <2>4, <2>5, <2>6, <2>7 DEF Rabbit!RqNext
<1>3. RabbitInv => Rabbit!RqTypeOK /\ Rabbit!LeavesHandledOrExhausted
  BY DEF RabbitInv, Rabbit!LeavesHandledOrExhausted
<1> QED
  BY <1>1, <1>2, <1>3, PTL DEF Rabbit!RqSpec, Rabbit!rqVars, rabbitVars

-----------------------------------------------------------------------------
Failure == {"session", "credential", "status", "account", "permission", "handler"}

(* The guards: what a request that has come as far as a guard has shown,    *)
(* and why it would be refused there.                                       *)
Admission ==
  [token : Guards!Token, route : Guards!Route \cup {None}, named : Guards!Named,
   pc : Guards!Step, user : BOOLEAN, account : {None} \cup SUBSET Guards!Identity,
   identity : Guards!Identity \cup {None},
   failed : SUBSET Failure, answer : Nat]

GuardsTyped ==
  /\ admission \in Admission /\ facts \subseteq Guards!Fact
  /\ held \in [Guards!Fact -> SUBSET BOOLEAN]
  /\ changes \in 0..MaxChanges
  /\ admission.pc # "idle" => admission.route \in Guards!Route
  /\ admission.pc # "done" => admission.answer = 0

(* What is true now has been true. *)
HeldNow ==
  \A f \in Guards!Fact : /\ f \in facts => Guards!Had(f)
                         /\ f \notin facts => Guards!Lacked(f)

AtPermission == {"permission", "handler"}
AtIdentity == {"identity"} \cup AtPermission
AtAccount == {"account"} \cup AtIdentity
AtStatus == {"status"} \cup AtAccount
AtCredential == {"credential"} \cup AtStatus
AtSession == {"session"} \cup AtCredential

(* The token has been looked at, the session, the password, the status. *)
TokenShown ==
  /\ admission.pc \in {"idle", "jwt"} => ~admission.user
  /\ admission.pc \in AtSession =>
       /\ admission.user <=> admission.token = "valid"
       /\ admission.user \/ admission.route.public \/ admission.route.listed
  /\ admission.pc \in {"credential", "status"} => admission.user /\ ~admission.route.public

SessionShown ==
  admission.user /\ ~admission.route.public =>
    /\ admission.pc \in AtCredential => Guards!Had("session")
    /\ admission.pc \in AtStatus => Guards!Had("unchanged") \/ "credential" \in admission.failed
    /\ admission.pc \in AtAccount =>
         Guards!Had("active") \/ "status" \in admission.failed \/ Guards!Lacked("exists")

(* The account is that of the token; the identity is one of the account. *)
AccountShown ==
  /\ admission.pc \notin AtIdentity \cup {"done"} => admission.account = None
  /\ admission.pc \in AtIdentity =>
       /\ admission.account # None =>
            /\ admission.user /\ Guards!Had("exists")
            /\ \A id \in admission.account : Guards!Had(id)
            /\ "op" \in admission.account \/ Guards!Lacked("op")
       /\ admission.account = None =>
            ~admission.user \/ "account" \in admission.failed \/ Guards!Lacked("exists")

(* Why a request with a good token for the op identity may lack it. *)
Excused ==
  \/ admission.token # "valid" \/ admission.named \notin {None, "op"} \/ admission.failed # {}
  \/ \E f \in Guards!Fact \ {"super"} : Guards!Lacked(f)

IdentityShown ==
  admission.pc \in AtPermission =>
    /\ admission.identity # None =>
         admission.user /\ Guards!Had("exists") /\ Guards!Had(admission.identity)
    /\ ~admission.route.public /\ admission.route.identities # {} =>
         admission.identity \in admission.route.identities
    /\ admission.identity # "op" => Excused

PermissionShown ==
  admission.pc = "handler" /\ admission.route.permission =>
    admission.identity = "op" /\ (Guards!Had("super") \/ Guards!Had("granted"))

GuardsInv ==
  /\ GuardsTyped /\ HeldNow /\ TokenShown /\ SessionShown /\ AccountShown
  /\ IdentityShown /\ PermissionShown /\ Guards!RefusedForAReason

LEMMA GuardsStart == Guards!RgInit => GuardsInv
<1> SUFFICES ASSUME Guards!RgInit PROVE GuardsInv
  OBVIOUS
<1>1. admission \in Admission
  BY DEF Guards!RgInit, Admission, Guards!Token, Guards!Named, Guards!Step
<1>2. GuardsTyped
  BY <1>1, GuardsAssumption DEF GuardsTyped, Guards!RgInit, Guards!Fact
<1>3. HeldNow
  BY DEF Guards!RgInit, HeldNow, Guards!Had, Guards!Lacked
<1> QED
  BY <1>2, <1>3
  DEF GuardsInv, Guards!RgInit, TokenShown, SessionShown, AccountShown, IdentityShown,
    PermissionShown, Guards!RefusedForAReason, AtSession, AtCredential, AtStatus, AtAccount,
    AtIdentity, AtPermission

(* What a step of the request leaves of the history, and what a change adds *)
(* to it.                                                                   *)
LEMMA FactTurns ==
  ASSUME GuardsInv, NEW f \in Guards!Fact, Guards!Turns(f)
  PROVE  GuardsInv'
<1>1. /\ facts' \subseteq Guards!Fact /\ held' \in [Guards!Fact -> SUBSET BOOLEAN]
      /\ \A g \in Guards!Fact : held[g] \subseteq held'[g]
      /\ UNCHANGED admission
  BY DEF GuardsInv, GuardsTyped, Guards!Turns
<1>2. HeldNow'
  BY <1>1 DEF GuardsInv, GuardsTyped, HeldNow, Guards!Turns, Guards!Had, Guards!Lacked
<1>3. GuardsTyped'
  BY <1>1, GuardsAssumption DEF GuardsInv, GuardsTyped, Guards!Turns
<1>4. \A g \in Guards!Fact : /\ Guards!Had(g) => Guards!Had(g)'
                             /\ Guards!Lacked(g) => Guards!Lacked(g)'
  BY <1>1 DEF Guards!Had, Guards!Lacked
<1> HIDE DEF Guards!Had, Guards!Lacked
<1>5. (TokenShown /\ SessionShown)'
  BY <1>1, <1>4 DEF GuardsInv, TokenShown, SessionShown, Guards!Fact
<1>6. AccountShown'
  BY <1>1, <1>4 DEF GuardsInv, AccountShown, Guards!Fact, GuardsTyped, Admission, Guards!Identity
<1>7. Excused => Excused'
  BY <1>1, <1>4 DEF Excused, Guards!Fact
<1>8. (IdentityShown /\ PermissionShown)'
  BY <1>1, <1>4, <1>7
  DEF GuardsInv, IdentityShown, PermissionShown, Guards!Fact, GuardsTyped, Admission,
    Guards!Identity
<1>9. Guards!RefusedForAReason'
  BY <1>1, <1>4 DEF GuardsInv, Guards!RefusedForAReason, Guards!Fact
<1> QED
  BY <1>2, <1>3, <1>5, <1>6, <1>8, <1>9 DEF GuardsInv

LEMMA Arrives ==
  ASSUME GuardsInv, NEW token \in Guards!Token, NEW route \in Guards!Route,
         NEW named \in Guards!Named, Guards!Arrive(token, route, named)
  PROVE  GuardsInv'
<1>1. /\ admission' \in Admission /\ admission'.pc = "jwt" /\ admission'.route = route
      /\ admission'.answer = 0 /\ ~admission'.user /\ admission'.account = None
      /\ UNCHANGED <<facts, held, changes>>
  BY DEF GuardsInv, GuardsTyped, Admission, Guards!Arrive, Guards!same, Guards!Step,
    TokenShown, AccountShown, AtIdentity, AtPermission
<1>2. GuardsTyped' /\ HeldNow'
  BY <1>1 DEF GuardsInv, GuardsTyped, HeldNow, Guards!Had, Guards!Lacked
<1>3. Guards!RefusedForAReason'
  BY <1>1 DEF Guards!RefusedForAReason
<1> QED
  BY <1>1, <1>2, <1>3
  DEF GuardsInv, TokenShown, SessionShown, AccountShown, IdentityShown, PermissionShown,
    AtSession, AtCredential, AtStatus, AtAccount, AtIdentity, AtPermission

(* Pass, Refuse and Failing, field by field. *)
LEMMA PassMoves ==
  ASSUME admission \in Admission, NEW next \in Guards!Step, Guards!Pass(next)
  PROVE  /\ admission' \in Admission /\ admission'.pc = next
         /\ UNCHANGED <<admission.token, admission.route, admission.named, admission.user,
                        admission.account, admission.identity, admission.failed,
                        admission.answer>>
BY DEF Admission, Guards!Pass

LEMMA RefuseMoves ==
  ASSUME admission \in Admission, NEW thrown \in DOMAIN Guards!Refusal, Guards!Refuse(thrown)
  PROVE  /\ admission' \in Admission /\ admission'.pc = "done"
         /\ admission'.answer = Guards!Refusal[thrown]
         /\ UNCHANGED <<admission.token, admission.route, admission.named, admission.failed>>
<1>1. Guards!Refusal[thrown] \in Nat /\ "done" \in Guards!Step
  BY DEF Guards!Refusal, Guards!Step
<1> QED
  BY <1>1 DEF Admission, Guards!Refuse

LEMMA FailingMoves ==
  ASSUME admission \in Admission, NEW what \in Failure, NEW next \in Guards!Step,
         Guards!Failing(what, next)
  PROVE  /\ admission' \in Admission /\ admission'.pc = next
         /\ admission'.failed = admission.failed \cup {what}
         /\ UNCHANGED <<admission.token, admission.route, admission.named, admission.user,
                        admission.account, admission.identity, admission.answer>>
<1>1. admission.failed \cup {what} \in SUBSET Failure
  BY DEF Admission
<1> QED
  BY <1>1 DEF Admission, Guards!Failing

LEMMA FailedMoves ==
  ASSUME admission \in Admission, NEW some \in SUBSET Failure, NEW status \in Nat,
         admission' = [admission EXCEPT !.pc = "done", !.failed = some, !.answer = status]
  PROVE  /\ admission' \in Admission /\ admission'.pc = "done"
         /\ admission'.answer = status /\ admission'.failed = some
         /\ UNCHANGED admission.route
<1>1. "done" \in Guards!Step
  BY DEF Guards!Step
<1> QED
  BY <1>1 DEF Admission

(* A request that ends has an excuse for what it is refused. *)
LEMMA Ends ==
  ASSUME GuardsInv, UNCHANGED Guards!same, admission.pc \notin {"idle", "done"},
         admission' \in Admission, admission'.pc = "done", UNCHANGED admission.route,
         admission'.answer \in {401, 403} => Excused',
         admission'.answer = 500 => admission'.failed # {}
  PROVE  GuardsInv'
<1>1. GuardsTyped' /\ HeldNow'
  BY DEF GuardsInv, GuardsTyped, HeldNow, Guards!same, Guards!Had, Guards!Lacked
<1>2. Guards!RefusedForAReason'
  BY DEF Guards!RefusedForAReason, Excused
<1> QED
  BY <1>1, <1>2
  DEF GuardsInv, TokenShown, SessionShown, AccountShown, IdentityShown, PermissionShown,
    AtSession, AtCredential, AtStatus, AtAccount, AtIdentity, AtPermission

LEMMA Refuses ==
  ASSUME GuardsInv, UNCHANGED Guards!same, admission.pc \notin {"idle", "done"},
         NEW thrown \in DOMAIN Guards!Refusal, Guards!Refuse(thrown),
         thrown \in {"query", "unknown"} => admission.failed # {},
         Excused \/ thrown \notin {"jwt", "session", "unauthorized", "identity", "frozen",
                                 "forbidden"}
  PROVE  GuardsInv'
<1>1. admission \in Admission
  BY DEF GuardsInv, GuardsTyped
<1>2. Excused => Excused'
  BY <1>1, RefuseMoves DEF Excused, Guards!same, Guards!Lacked
<1>3. /\ Guards!Refusal[thrown] \in {401, 403} => Excused
      /\ Guards!Refusal[thrown] = 500 => thrown \in {"query", "unknown"}
  BY DEF Guards!Refusal
<1> QED
  BY <1>1, <1>2, <1>3, RefuseMoves, Ends

(* A look-up that fails may end the request with a server error. *)
LEMMA FailsAtOnce ==
  ASSUME GuardsInv, UNCHANGED Guards!same, admission.pc \notin {"idle", "done"},
         NEW what \in Failure, NEW thrown \in {"query", "unknown"},
         admission' = [admission EXCEPT !.pc = "done", !.failed = @ \cup {what},
                                        !.answer = Guards!Refusal[thrown]]
  PROVE  GuardsInv'
<1>1. Guards!Refusal[thrown] = 500 /\ "done" \in Guards!Step
  BY DEF Guards!Refusal, Guards!Step
<1>2. admission \in Admission /\ admission.failed \cup {what} \in SUBSET Failure
  BY DEF GuardsInv, GuardsTyped, Admission, Failure
<1>3. Guards!Refusal[thrown] \in Nat
  BY <1>1
<1>4. /\ admission' \in Admission /\ admission'.pc = "done"
      /\ admission'.answer = Guards!Refusal[thrown]
      /\ admission'.failed = admission.failed \cup {what} /\ UNCHANGED admission.route
  BY <1>2, <1>3, FailedMoves, Zenon
<1> QED
  BY <1>1, <1>4, Ends

(* A request that goes on keeps what it has shown; what the next guard may  *)
(* rely on is left to prove.                                                *)
LEMMA GoesOn ==
  ASSUME GuardsInv, UNCHANGED Guards!same, admission.pc \notin {"idle", "done"},
         admission' \in Admission, admission'.pc \notin {"idle", "done"},
         UNCHANGED <<admission.route, admission.answer>>,
         (TokenShown /\ SessionShown /\ AccountShown /\ IdentityShown /\ PermissionShown)'
  PROVE  GuardsInv'
<1>1. GuardsTyped' /\ HeldNow'
  BY DEF GuardsInv, GuardsTyped, HeldNow, Guards!same, Guards!Had, Guards!Lacked
<1>2. Guards!RefusedForAReason'
  BY DEF Guards!RefusedForAReason, GuardsInv, GuardsTyped
<1> QED
  BY <1>1, <1>2 DEF GuardsInv

LEMMA JwtPasses ==
  ASSUME GuardsInv, Guards!JwtAuth
  PROVE  GuardsInv'
<1>1. admission \in Admission /\ admission.pc = "jwt" /\ UNCHANGED Guards!same
  BY DEF GuardsInv, GuardsTyped, Guards!JwtAuth
<1>2. /\ {"session"} \subseteq Guards!Step /\ "jwt" \in DOMAIN Guards!Refusal
  BY DEF Guards!Step, Guards!Refusal
<1>3. CASE admission.token = "valid"
  <2>1. /\ admission' \in Admission /\ admission'.pc = "session" /\ admission'.user
        /\ UNCHANGED <<admission.token, admission.route, admission.account, admission.answer>>
    BY <1>1, <1>2, <1>3 DEF Admission, Guards!JwtAuth
  <2> QED
    BY <1>1, <1>3, <2>1, GoesOn
    DEF GuardsInv, TokenShown, SessionShown, AccountShown, IdentityShown, PermissionShown,
      AtSession, AtCredential, AtStatus, AtAccount, AtIdentity, AtPermission
<1>4. CASE admission.token # "valid" /\ (admission.route.public \/ admission.route.listed)
  <2>1. Guards!Pass("session")
    BY <1>4 DEF Guards!JwtAuth
  <2> QED
    BY <1>1, <1>2, <1>4, <2>1, PassMoves, GoesOn
    DEF GuardsInv, TokenShown, SessionShown, AccountShown, IdentityShown, PermissionShown,
      AtSession, AtCredential, AtStatus, AtAccount, AtIdentity, AtPermission
<1>5. CASE admission.token # "valid" /\ ~(admission.route.public \/ admission.route.listed)
  BY <1>1, <1>2, <1>5, Refuses DEF Guards!JwtAuth, Excused
<1> QED
  BY <1>3, <1>4, <1>5

LEMMA SessionPasses ==
  ASSUME GuardsInv, Guards!Session
  PROVE  GuardsInv'
<1>1. admission \in Admission /\ admission.pc = "session" /\ UNCHANGED Guards!same
  BY DEF GuardsInv, GuardsTyped, Guards!Session
<1>2. {"account", "credential"} \subseteq Guards!Step /\ "session" \in DOMAIN Guards!Refusal
  BY DEF Guards!Step, Guards!Refusal
<1>3. \A f : (Guards!Had(f) <=> Guards!Had(f)')
  BY <1>1 DEF Guards!same, Guards!Had
<1> USE DEF TokenShown, SessionShown, AccountShown, IdentityShown, PermissionShown,
      AtSession, AtCredential, AtStatus, AtAccount, AtIdentity, AtPermission
<1>4. CASE (admission.route.public \/ ~admission.user) /\ Guards!Pass("account")
  BY <1>1, <1>2, <1>4, PassMoves, GoesOn DEF GuardsInv
<1>5. CASE ~admission.route.public /\ admission.user /\ "session" \in facts
           /\ Guards!Pass("credential")
  <2>1. Guards!Had("session")
    BY <1>5 DEF GuardsInv, HeldNow, Guards!Fact
  <2> QED
    BY <1>1, <1>2, <1>3, <1>5, <2>1, PassMoves, GoesOn DEF GuardsInv
<1>6. CASE "session" \notin facts /\ Guards!Refuse("session")
  <2>1. Excused
    BY <1>6 DEF GuardsInv, HeldNow, Guards!Fact, Excused
  <2> QED
    BY <1>1, <1>2, <1>6, <2>1, Refuses
<1>7. CASE admission' = [admission EXCEPT !.pc = "done", !.failed = @ \cup {"session"},
                                          !.answer = Guards!Refusal["unknown"]]
  BY <1>1, <1>7, FailsAtOnce DEF Failure
<1> QED
  BY <1>4, <1>5, <1>6, <1>7 DEF Guards!Session

LEMMA CredentialPasses ==
  ASSUME GuardsInv, Guards!Credential
  PROVE  GuardsInv'
<1>1. admission \in Admission /\ admission.pc = "credential" /\ UNCHANGED Guards!same
  BY DEF GuardsInv, GuardsTyped, Guards!Credential
<1>2. "status" \in Guards!Step /\ "session" \in DOMAIN Guards!Refusal
  BY DEF Guards!Step, Guards!Refusal
<1>3. \A f : (Guards!Had(f) <=> Guards!Had(f)')
  BY <1>1 DEF Guards!same, Guards!Had
<1> USE DEF TokenShown, SessionShown, AccountShown, IdentityShown, PermissionShown,
      AtSession, AtCredential, AtStatus, AtAccount, AtIdentity, AtPermission
<1>4. CASE "unchanged" \in facts /\ Guards!Pass("status")
  <2>1. Guards!Had("unchanged")
    BY <1>4 DEF GuardsInv, HeldNow, Guards!Fact
  <2> QED
    BY <1>1, <1>2, <1>3, <1>4, <2>1, PassMoves, GoesOn DEF GuardsInv
<1>5. CASE "unchanged" \notin facts /\ Guards!Refuse("session")
  <2>1. Excused
    BY <1>5 DEF GuardsInv, HeldNow, Guards!Fact, Excused
  <2> QED
    BY <1>1, <1>2, <1>5, <2>1, Refuses
<1>6. CASE Guards!Failing("credential", "status")
  BY <1>1, <1>2, <1>3, <1>6, FailingMoves, GoesOn DEF GuardsInv, Failure
<1> QED
  BY <1>4, <1>5, <1>6 DEF Guards!Credential

LEMMA StatusPasses ==
  ASSUME GuardsInv, Guards!AccountStatus
  PROVE  GuardsInv'
<1>1. admission \in Admission /\ admission.pc = "status" /\ UNCHANGED Guards!same
  BY DEF GuardsInv, GuardsTyped, Guards!AccountStatus
<1>2. "account" \in Guards!Step /\ "session" \in DOMAIN Guards!Refusal
  BY DEF Guards!Step, Guards!Refusal
<1>3. \A f : /\ Guards!Had(f) <=> Guards!Had(f)'
             /\ Guards!Lacked(f) <=> Guards!Lacked(f)'
  BY <1>1 DEF Guards!same, Guards!Had, Guards!Lacked
<1> USE DEF TokenShown, SessionShown, AccountShown, IdentityShown, PermissionShown,
      AtSession, AtCredential, AtStatus, AtAccount, AtIdentity, AtPermission
<1>4. CASE ("active" \in facts \/ "exists" \notin facts) /\ Guards!Pass("account")
  <2>1. Guards!Had("active") \/ Guards!Lacked("exists")
    BY <1>4 DEF GuardsInv, HeldNow, Guards!Fact
  <2> QED
    BY <1>1, <1>2, <1>3, <1>4, <2>1, PassMoves, GoesOn DEF GuardsInv
<1>5. CASE "active" \notin facts /\ Guards!Refuse("session")
  <2>1. Excused
    BY <1>5 DEF GuardsInv, HeldNow, Guards!Fact, Excused
  <2> QED
    BY <1>1, <1>2, <1>5, <2>1, Refuses
<1>6. CASE Guards!Failing("status", "account")
  BY <1>1, <1>2, <1>3, <1>6, FailingMoves, GoesOn DEF GuardsInv, Failure
<1> QED
  BY <1>4, <1>5, <1>6 DEF Guards!AccountStatus

LEMMA AccountPasses ==
  ASSUME GuardsInv, Guards!AccountDeserialize
  PROVE  GuardsInv'
<1>1. admission \in Admission /\ admission.pc = "account" /\ UNCHANGED Guards!same
  BY DEF GuardsInv, GuardsTyped, Guards!AccountDeserialize
<1>2. "identity" \in Guards!Step
  BY DEF Guards!Step
<1>3. \A f : /\ Guards!Had(f) <=> Guards!Had(f)'
             /\ Guards!Lacked(f) <=> Guards!Lacked(f)'
  BY <1>1 DEF Guards!same, Guards!Had, Guards!Lacked
<1> USE DEF TokenShown, SessionShown, AccountShown, IdentityShown, PermissionShown,
      AtSession, AtCredential, AtStatus, AtAccount, AtIdentity, AtPermission
<1>4. CASE Guards!Failing("account", "identity")
  <2>1. admission.account = None
    BY <1>1 DEF GuardsInv
  <2> QED
    BY <1>1, <1>2, <1>3, <1>4, <2>1, FailingMoves, GoesOn DEF GuardsInv, Failure
<1>5. CASE ~Guards!Failing("account", "identity")
  <2> DEFINE found == IF admission.user /\ "exists" \in facts
                      THEN facts \cap Guards!Identity ELSE None
  <2>1. found \in {None} \cup SUBSET Guards!Identity
    OBVIOUS
  <2>2. admission' = [admission EXCEPT !.pc = "identity", !.account = found]
    BY <1>5 DEF Guards!AccountDeserialize
  <2>3. found # None =>
          /\ admission.user /\ Guards!Had("exists")
          /\ \A id \in found : Guards!Had(id)
          /\ "op" \in found \/ Guards!Lacked("op")
    BY DEF GuardsInv, HeldNow, Guards!Fact, Guards!Identity
  <2>4. found = None => ~admission.user \/ Guards!Lacked("exists")
    BY GuardsAssumption DEF GuardsInv, HeldNow, Guards!Fact, Guards!Identity
  <2> HIDE DEF found
  <2>5. /\ admission' \in Admission /\ admission'.pc = "identity" /\ admission'.account = found
        /\ UNCHANGED <<admission.token, admission.route, admission.named, admission.user,
                       admission.identity, admission.failed, admission.answer>>
    BY <1>1, <1>2, <2>1, <2>2 DEF Admission
  <2> QED
    BY <1>1, <1>3, <2>3, <2>4, <2>5, GoesOn DEF GuardsInv
<1> QED
  BY <1>4, <1>5

LEMMA IdentityPasses ==
  ASSUME GuardsInv, Guards!IdentityRequired
  PROVE  GuardsInv'
<1>1. admission \in Admission /\ admission.pc = "identity" /\ UNCHANGED Guards!same
  BY DEF GuardsInv, GuardsTyped, Guards!IdentityRequired
<1>2. "permission" \in Guards!Step /\ {"frozen", "identity"} \subseteq DOMAIN Guards!Refusal
  BY DEF Guards!Step, Guards!Refusal
<1>3. \A f : /\ Guards!Had(f) <=> Guards!Had(f)'
             /\ Guards!Lacked(f) <=> Guards!Lacked(f)'
  BY <1>1 DEF Guards!same, Guards!Had, Guards!Lacked
<1> USE DEF TokenShown, SessionShown, AccountShown, IdentityShown, PermissionShown,
      AtSession, AtCredential, AtStatus, AtAccount, AtIdentity, AtPermission
<1> DEFINE id == IF admission.named = None /\ admission.account # None THEN "op"
                 ELSE admission.named
           known == admission.account # None /\ id \in Guards!Identity
           required == admission.route.identities
<1>4. /\ admission.account \in {None} \cup SUBSET Guards!Identity
      /\ admission.route \in Guards!Route /\ admission.named \in Guards!Named
  BY <1>1 DEF GuardsInv, GuardsTyped, Admission
<1>5. required # {} => "op" \in required
  BY <1>4 DEF Guards!Route, Guards!Identity
<1>6. ~Excused => id = "op" /\ known /\ "op" \in admission.account
  BY <1>1, <1>4, GuardsAssumption
  DEF GuardsInv, Excused, Guards!Fact, Guards!Identity
<1>7. CASE known /\ id \notin admission.account
  BY <1>1, <1>2, <1>6, <1>7, Refuses DEF Guards!IdentityRequired
<1>8. CASE /\ ~(known /\ id \notin admission.account)
           /\ ~admission.route.public /\ required # {} /\ ~(known /\ id \in required)
  BY <1>1, <1>2, <1>5, <1>6, <1>8, Refuses DEF Guards!IdentityRequired
<1>9. CASE /\ ~(known /\ id \notin admission.account)
           /\ ~(~admission.route.public /\ required # {} /\ ~(known /\ id \in required))
  <2> DEFINE mounted == IF known THEN id ELSE None
  <2>1. admission' = [admission EXCEPT !.pc = "permission", !.identity = mounted]
    BY <1>9 DEF Guards!IdentityRequired
  <2>2. mounted \in Guards!Identity \cup {None}
    OBVIOUS
  <2>3. mounted # None =>
          admission.user /\ Guards!Had("exists") /\ Guards!Had(mounted)
    BY <1>1, <1>9 DEF GuardsInv
  <2>4. /\ ~admission.route.public /\ required # {} => mounted \in required
        /\ mounted # "op" => Excused
    BY <1>6, <1>9
  <2> HIDE DEF mounted, id, known
  <2>5. /\ admission' \in Admission /\ admission'.pc = "permission"
        /\ admission'.identity = mounted
        /\ UNCHANGED <<admission.token, admission.route, admission.named, admission.user,
                       admission.account, admission.failed, admission.answer>>
    BY <1>1, <1>2, <2>1, <2>2 DEF Admission
  <2>6. Excused => Excused'
    BY <1>3, <2>5 DEF Excused
  <2> QED
    BY <1>1, <1>3, <2>3, <2>4, <2>5, <2>6, GoesOn DEF GuardsInv
<1> QED
  BY <1>7, <1>8, <1>9

LEMMA PermissionPasses ==
  ASSUME GuardsInv, Guards!Permission
  PROVE  GuardsInv'
<1>1. admission \in Admission /\ admission.pc = "permission" /\ UNCHANGED Guards!same
  BY DEF GuardsInv, GuardsTyped, Guards!Permission
<1>2. "handler" \in Guards!Step /\ {"unauthorized", "forbidden"} \subseteq DOMAIN Guards!Refusal
  BY DEF Guards!Step, Guards!Refusal
<1>3. \A f : /\ Guards!Had(f) <=> Guards!Had(f)'
             /\ Guards!Lacked(f) <=> Guards!Lacked(f)'
  BY <1>1 DEF Guards!same, Guards!Had, Guards!Lacked
<1> USE DEF TokenShown, SessionShown, AccountShown, IdentityShown, PermissionShown,
      AtSession, AtCredential, AtStatus, AtAccount, AtIdentity, AtPermission
<1>4. ASSUME Guards!Pass("handler"),
             admission.route.permission =>
               admission.identity = "op" /\ (Guards!Had("super") \/ Guards!Had("granted"))
      PROVE  GuardsInv'
  <2>1. Excused => Excused'
    BY <1>1, <1>2, <1>3, <1>4, PassMoves DEF Excused
  <2> QED
    BY <1>1, <1>2, <1>3, <1>4, <2>1, PassMoves, GoesOn DEF GuardsInv
<1>5. CASE ~admission.route.permission
  BY <1>4, <1>5 DEF Guards!Permission
<1>6. CASE admission.route.permission /\ admission.identity = None
  BY <1>1, <1>2, <1>6, Refuses, GuardsAssumption
  DEF Guards!Permission, GuardsInv, Guards!Identity
<1>7. CASE admission.route.permission /\ admission.identity \notin {None, "op"}
  BY <1>1, <1>2, <1>7, Refuses DEF Guards!Permission, GuardsInv
<1>8. CASE admission.route.permission /\ admission.identity = "op"
  <2>1. CASE {"super", "granted"} \cap facts # {} /\ Guards!Pass("handler")
    <3>1. Guards!Had("super") \/ Guards!Had("granted")
      BY <2>1 DEF GuardsInv, HeldNow, Guards!Fact
    <3> QED
      BY <1>4, <1>8, <2>1, <3>1
  <2>2. CASE {"super", "granted"} \cap facts = {} /\ Guards!Refuse("forbidden")
    <3>1. Excused
      BY <2>2 DEF GuardsInv, HeldNow, Guards!Fact, Excused
    <3> QED
      BY <1>1, <1>2, <2>2, <3>1, Refuses
  <2>3. CASE admission' = [admission EXCEPT !.pc = "done", !.failed = @ \cup {"permission"},
                                            !.answer = Guards!Refusal["query"]]
    BY <1>1, <2>3, FailsAtOnce DEF Failure
  <2> QED
    BY <1>8, <2>1, <2>2, <2>3, GuardsAssumption DEF Guards!Permission, Guards!Identity
<1> QED
  BY <1>5, <1>6, <1>7, <1>8

LEMMA Handles ==
  ASSUME GuardsInv, Guards!Handler
  PROVE  GuardsInv'
<1>1. admission \in Admission /\ admission.pc = "handler" /\ UNCHANGED Guards!same
  BY DEF GuardsInv, GuardsTyped, Guards!Handler
<1>2. CASE \E thrown \in {"none", "validation", "biz", "invalidId", "duplicate"} :
             Guards!Refuse(thrown)
  <2>1. {"none", "validation", "biz", "invalidId", "duplicate"} \subseteq DOMAIN Guards!Refusal
    BY DEF Guards!Refusal
  <2> QED
    BY <1>1, <1>2, <2>1, Refuses
<1>3. CASE \E thrown \in {"query", "unknown"} :
             admission' = [admission EXCEPT !.pc = "done", !.failed = @ \cup {"handler"},
                                            !.answer = Guards!Refusal[thrown]]
  BY <1>1, <1>3, FailsAtOnce DEF Failure
<1> QED
  BY <1>2, <1>3 DEF Guards!Handler

(* AdmittedWasAllowed and RefusedForAReason: the guards await their stores  *)
(* one after the other while what they ask about changes; who reaches the   *)
(* handler still met each condition of the route at some time, and who met  *)
(* them all throughout is not turned away.                                  *)
THEOREM GuardsHold ==
  Guards!RgSpec => [](Guards!RgTypeOK /\ Guards!AdmittedWasAllowed /\ Guards!RefusedForAReason)
<1>1. GuardsInv /\ [Guards!RgNext]_guardVars => GuardsInv'
  <2> SUFFICES ASSUME GuardsInv, [Guards!RgNext]_guardVars PROVE GuardsInv'
    OBVIOUS
  <2>1. CASE UNCHANGED guardVars
    <3>1. GuardsTyped'
      BY <2>1 DEF guardVars, GuardsInv, GuardsTyped
    <3>2. (TokenShown /\ SessionShown /\ AccountShown)'
      BY <2>1 DEF guardVars, GuardsInv, TokenShown, SessionShown, AccountShown,
        Guards!Had, Guards!Lacked
    <3>3. (IdentityShown /\ PermissionShown)'
      BY <2>1 DEF guardVars, GuardsInv, IdentityShown, PermissionShown, Excused,
        Guards!Had, Guards!Lacked
    <3>4. HeldNow'
      BY <2>1 DEF guardVars, GuardsInv, HeldNow, Guards!Had, Guards!Lacked
    <3>5. Guards!RefusedForAReason'
      <4>1. UNCHANGED admission /\ \A f : Guards!Lacked(f)' <=> Guards!Lacked(f)
        BY <2>1 DEF guardVars, Guards!Lacked
      <4> QED
        BY <4>1 DEF GuardsInv, Guards!RefusedForAReason
    <3> QED
      BY <3>1, <3>2, <3>3, <3>4, <3>5 DEF GuardsInv
  <2> QED
    BY <2>1, FactTurns, Arrives, JwtPasses, SessionPasses, CredentialPasses, StatusPasses,
      AccountPasses, IdentityPasses, PermissionPasses, Handles
    DEF Guards!RgNext
<1>2. GuardsInv => Guards!RgTypeOK
  BY DEF GuardsInv, GuardsTyped, Admission, Guards!RgTypeOK
<1>3. GuardsInv => Guards!AdmittedWasAllowed
  <2> SUFFICES ASSUME GuardsInv, admission.pc = "handler" PROVE Guards!AdmittedWasAllowed
    BY DEF Guards!AdmittedWasAllowed
  <2>1. admission.route \in Guards!Route /\ None \notin admission.route.identities
    BY GuardsAssumption DEF GuardsInv, GuardsTyped, Guards!Route, Guards!Identity
  <2> QED
    BY <2>1, GuardsAssumption
    DEF GuardsInv, Guards!AdmittedWasAllowed, TokenShown, SessionShown, AccountShown,
      IdentityShown, PermissionShown, AtSession, AtCredential, AtStatus, AtAccount,
      AtIdentity, AtPermission, Guards!Identity
<1>4. GuardsInv => Guards!RefusedForAReason
  BY DEF GuardsInv
<1> QED
  BY <1>1, <1>2, <1>3, <1>4, GuardsStart, PTL DEF Guards!RgSpec, Guards!rgVars, guardVars

-----------------------------------------------------------------------------
(* The health: how old an answer may be that a computation or a report holds*)
(* and that hides what a dependency suffers.                                *)
Computation == [ran : 0..CheckTimeout, results : [Healthy!Check -> Healthy!Condition \cup {None}]]
Report == [results : [Healthy!Check -> Healthy!Condition], status : Healthy!Condition,
           ttl : 1..CacheTtl]

Severity == Healthy!Severity \X Healthy!Check

HealthTyped ==
  /\ dependency \in [Healthy!Check -> Healthy!Condition]
  /\ age \in [Severity -> 0..Healthy!LongAgo]
  /\ report \in Report \cup {None}
  /\ inflight \in Computation \cup {None}
  /\ DOMAIN waiting = Proc

(* A check that hangs answers nothing.                                      *)
Answered ==
  /\ inflight # None => \A t \in Healthy!Check : inflight.results[t] # "hang"
  /\ report # None =>
       /\ report.status = Healthy!Overall(report.results)
       /\ \A t \in Healthy!Check : report.results[t] # "hang"

WaitedFor ==
  \A r \in Proc : waiting[r] # None => inflight # None /\ waiting[r] \in 0..inflight.ran

Hides(k, results, t) == results[t] # None /\ ~Healthy!Suffers(k, results[t])

Fresh ==
  \A k \in Healthy!Severity, t \in Healthy!Check :
    Healthy!Suffers(k, dependency[t]) =>
      /\ inflight # None /\ Hides(k, inflight.results, t) => age[<<k, t>>] <= inflight.ran
      /\ report # None /\ Hides(k, report.results, t) =>
           age[<<k, t>>] <= CheckTimeout + (CacheTtl - report.ttl)

HealthInv == HealthTyped /\ Answered /\ WaitedFor /\ Fresh

LEMMA HealthBounds ==
  /\ CacheTtl \in Nat /\ 1 <= CacheTtl /\ CheckTimeout \in Nat
  /\ Healthy!Limit = CacheTtl + CheckTimeout /\ Healthy!LongAgo = Healthy!Limit + 1
  /\ \A c \in Computation : c # None /\ c.ran \in 0..CheckTimeout
                            /\ c.results \in [Healthy!Check -> Healthy!Condition \cup {None}]
  /\ \A r \in Report : r # None /\ r.ttl \in 1..CacheTtl /\ r.status \in Healthy!Condition
                       /\ r.results \in [Healthy!Check -> Healthy!Condition]
<1>1. \A c \in Computation : c = [ran |-> c.ran, results |-> c.results]
  BY DEF Computation
<1>2. \A r \in Report : r = [results |-> r.results, status |-> r.status, ttl |-> r.ttl]
  BY DEF Report
<1>3. ASSUME NEW c \in Computation PROVE c # None
  BY <1>1, HealthAssumption DEF Computation
<1>4. ASSUME NEW r \in Report PROVE r # None
  BY <1>2, HealthAssumption DEF Report
<1> QED
  BY <1>3, <1>4, HealthAssumption DEF Healthy!Limit, Healthy!LongAgo, Computation, Report

LEMMA HealthStart == Healthy!HlInit => HealthInv
<1> SUFFICES ASSUME Healthy!HlInit PROVE HealthInv
  OBVIOUS
<1>1. HealthTyped
  BY HealthBounds DEF HealthTyped, Severity, Healthy!HlInit, Healthy!Condition
<1> QED
  BY <1>1 DEF HealthInv, Healthy!HlInit, Answered, WaitedFor, Fresh, Healthy!Check

LEMMA DependencyChanges ==
  ASSUME HealthInv, NEW t \in Healthy!Check, NEW s \in Healthy!Condition, Healthy!Changes(t, s)
  PROVE  HealthInv'
<1>1. /\ dependency' \in [Healthy!Check -> Healthy!Condition]
      /\ \A u \in Healthy!Check : dependency'[u] = IF u = t THEN s ELSE dependency[u]
      /\ UNCHANGED <<report, inflight, waiting>>
  BY DEF HealthInv, HealthTyped, Healthy!Changes
<1>2. /\ age' \in [Severity -> 0..Healthy!LongAgo]
      /\ \A k \in Healthy!Severity, u \in Healthy!Check :
           /\ age'[<<k, u>>] \in {0, age[<<k, u>>]}
           /\ Healthy!Suffers(k, dependency'[u]) # Healthy!Suffers(k, dependency[u])
                => age'[<<k, u>>] = 0
  <2>1. age' = [x \in Severity |->
          IF x[2] = t /\ Healthy!Suffers(x[1], s) # Healthy!Suffers(x[1], dependency[t])
          THEN 0 ELSE age[x]]
    BY DEF Healthy!Changes, Severity
  <2>2. \A k \in Healthy!Severity, u \in Healthy!Check :
          <<k, u>> \in Severity /\ <<k, u>>[1] = k /\ <<k, u>>[2] = u
    BY DEF Severity
  <2>3. age' \in [Severity -> 0..Healthy!LongAgo]
    <3>1. \A x \in Severity : age[x] \in 0..Healthy!LongAgo
      BY DEF HealthInv, HealthTyped
    <3>2. 0 \in 0..Healthy!LongAgo
      BY HealthBounds
    <3> QED
      BY <2>1, <3>1, <3>2
  <2>4. ASSUME NEW k \in Healthy!Severity, NEW u \in Healthy!Check
        PROVE  age'[<<k, u>>] =
          IF u = t /\ Healthy!Suffers(k, s) # Healthy!Suffers(k, dependency[t])
          THEN 0 ELSE age[<<k, u>>]
    BY <2>1, <2>2
  <2> QED
    BY <1>1, <2>3, <2>4
<1>3. HealthTyped'
  BY <1>1, <1>2 DEF HealthInv, HealthTyped
<1>4. Answered'
  BY <1>1, HealthAssumption
  DEF HealthInv, Answered, Healthy!Changes, Healthy!Check, Healthy!Overall
<1>5. WaitedFor'
  BY <1>1 DEF HealthInv, WaitedFor
<1>6. ASSUME NEW k \in Healthy!Severity, NEW u \in Healthy!Check,
             Healthy!Suffers(k, dependency'[u])
      PROVE  \/ age'[<<k, u>>] = 0
             \/ Healthy!Suffers(k, dependency[u]) /\ age'[<<k, u>>] = age[<<k, u>>]
  BY <1>2, <1>6
<1>7. /\ inflight # None => inflight.ran \in Nat
      /\ report # None => CacheTtl - report.ttl \in Nat
  BY HealthBounds DEF HealthInv, HealthTyped
<1>8. Fresh'
  BY <1>1, <1>6, <1>7, HealthBounds DEF HealthInv, Fresh
<1> QED
  BY <1>3, <1>4, <1>5, <1>8 DEF HealthInv

LEMMA RequestComes ==
  ASSUME HealthInv, NEW r \in Proc, Healthy!Readiness(r)
  PROVE  HealthInv'
<1> DEFINE new == [ran |-> 0, results |-> [t \in Healthy!Check |-> None]]
<1>1. /\ UNCHANGED <<dependency, age, report>>
      /\ \/ inflight # None /\ inflight' = inflight
         \/ inflight = None /\ inflight' = new
      /\ DOMAIN waiting' = Proc
      /\ \A q \in Proc : waiting'[q] = IF q = r THEN 0 ELSE waiting[q]
  BY DEF Healthy!Readiness, Healthy!Joins, HealthInv, HealthTyped
<1>2. new \in Computation /\ new # None /\ new.ran = 0
      /\ \A t \in Healthy!Check : new.results[t] = None
  BY HealthBounds DEF Computation
<1> HIDE DEF new
<1>3. inflight' # None /\ inflight'.ran \in Nat
  BY <1>1, <1>2, HealthBounds DEF HealthInv, HealthTyped
<1>4. HealthTyped'
  BY <1>1, <1>2 DEF HealthInv, HealthTyped
<1>5. Answered'
  BY <1>1, <1>2, HealthAssumption
  DEF HealthInv, Answered, Healthy!Condition, Healthy!Check, Healthy!Overall
<1>6. WaitedFor'
  BY <1>1, <1>3 DEF HealthInv, WaitedFor
<1>7. Fresh'
  BY <1>1, <1>2, HealthAssumption DEF HealthInv, Fresh, Hides, Healthy!Condition
<1> QED
  BY <1>4, <1>5, <1>6, <1>7 DEF HealthInv

(* A check that settles hides nothing its dependency suffers. *)
LEMMA CheckSettles ==
  ASSUME HealthInv, NEW t \in Healthy!Check, NEW s \in Healthy!Condition \ {"hang"},
         Healthy!Pending(t),
         \A k \in Healthy!Severity : Healthy!Suffers(k, dependency[t]) => Healthy!Suffers(k, s),
         Healthy!Settled(t, s), UNCHANGED <<dependency, age>>
  PROVE  HealthInv'
<1> DEFINE all == [inflight.results EXCEPT ![t] = s]
<1>1. inflight \in Computation /\ inflight # None /\ inflight.ran \in 0..CheckTimeout
  BY HealthBounds DEF HealthInv, HealthTyped, Healthy!Pending
<1>2. /\ all \in [Healthy!Check -> Healthy!Condition \cup {None}]
      /\ \A u \in Healthy!Check : all[u] = IF u = t THEN s ELSE inflight.results[u]
  BY <1>1, HealthBounds
<1>3. \A u \in Healthy!Check :
        /\ all[u] # "hang"
        /\ \A k \in Healthy!Severity :
             Healthy!Suffers(k, dependency[u]) /\ Hides(k, all, u) => age[<<k, u>>] <= inflight.ran
  <2>1. ASSUME NEW u \in Healthy!Check, NEW k \in Healthy!Severity,
               Healthy!Suffers(k, dependency[u]), Hides(k, all, u)
        PROVE  u # t /\ Hides(k, inflight.results, u)
    BY <1>2, <2>1 DEF Hides
  <2> QED
    BY <1>1, <1>2, <2>1 DEF HealthInv, Answered, Fresh
<1>4. CASE \E u \in Healthy!Check : all[u] = None
  <2>1. inflight' = [inflight EXCEPT !.results = all] /\ UNCHANGED <<report, waiting>>
    BY <1>4 DEF Healthy!Settled
  <2> HIDE DEF all
  <2>2. inflight' \in Computation /\ inflight'.ran = inflight.ran /\ inflight'.results = all
    BY <1>1, <1>2, <2>1 DEF Computation
  <2>3. inflight' # None
    BY <2>2, HealthBounds
  <2>4. HealthTyped'
    BY <2>1, <2>2 DEF HealthInv, HealthTyped
  <2>5. Answered'
    BY <1>3, <2>1, <2>2, <2>3 DEF HealthInv, Answered, Healthy!Overall
  <2>6. WaitedFor'
    BY <2>1, <2>2, <2>3 DEF HealthInv, WaitedFor
  <2>7. Fresh'
    BY <1>3, <2>1, <2>2, <2>3 DEF HealthInv, Fresh
  <2> QED
    BY <2>4, <2>5, <2>6, <2>7 DEF HealthInv
<1>5. CASE \A u \in Healthy!Check : all[u] # None
  <2>1. /\ report' = [results |-> all, status |-> Healthy!Overall(all), ttl |-> CacheTtl]
        /\ inflight' = None /\ waiting' = [r \in Proc |-> None]
    BY <1>5 DEF Healthy!Settled
  <2>2. Healthy!Overall(all) \in Healthy!Condition
    BY DEF Healthy!Overall, Healthy!Condition
  <2>3. all \in [Healthy!Check -> Healthy!Condition]
    BY <1>2, <1>5
  <2> HIDE DEF all
  <2>4. /\ report' \in Report /\ report'.results = all /\ report'.ttl = CacheTtl
        /\ report'.status = Healthy!Overall(all)
    BY <2>1, <2>2, <2>3, HealthBounds DEF Report
  <2>5. HealthTyped'
    BY <2>1, <2>4 DEF HealthInv, HealthTyped
  <2>6. Answered'
    BY <1>3, <2>1, <2>3, <2>4 DEF HealthInv, Answered, Healthy!Overall, Healthy!Check,
      Healthy!Condition
  <2>7. WaitedFor'
    BY <2>1 DEF WaitedFor
  <2>8. \A k \in Healthy!Severity, u \in Healthy!Check : age[<<k, u>>] \in 0..Healthy!LongAgo
    BY DEF HealthInv, HealthTyped, Severity
  <2>9. Fresh'
    BY <1>1, <1>3, <2>1, <2>4, <2>8, HealthBounds DEF Fresh
  <2> QED
    BY <2>5, <2>6, <2>7, <2>9 DEF HealthInv
<1> QED
  BY <1>4, <1>5

LEMMA TimePasses ==
  ASSUME HealthInv, Healthy!Tick
  PROVE  HealthInv'
<1>1. /\ \A x \in Severity : age[x] \in 0..Healthy!LongAgo
      /\ \A k \in Healthy!Severity, t \in Healthy!Check : <<k, t>> \in Severity
  BY DEF HealthInv, HealthTyped, Severity
<1>2. /\ age' \in [Severity -> 0..Healthy!LongAgo]
      /\ \A x \in Severity : age'[x] <= age[x] + 1
  <2>1. age' = [x \in Severity |-> IF age[x] = Healthy!LongAgo THEN Healthy!LongAgo
                                   ELSE age[x] + 1]
    BY DEF Healthy!Tick, Severity
  <2> QED
    BY <1>1, <2>1, HealthBounds
<1>3. /\ inflight = None => inflight' = None
      /\ inflight # None =>
           /\ inflight' \in Computation /\ inflight' # None
           /\ inflight'.ran = inflight.ran + 1 /\ inflight'.results = inflight.results
  <2>1. ASSUME inflight # None
        PROVE  /\ inflight' \in Computation
               /\ inflight'.ran = inflight.ran + 1 /\ inflight'.results = inflight.results
    <3>1. inflight \in Computation /\ inflight.ran + 1 \in 0..CheckTimeout
      BY <2>1, HealthBounds DEF HealthInv, HealthTyped, Healthy!Tick, Healthy!Due
    <3>2. inflight' = [inflight EXCEPT !.ran = inflight.ran + 1]
      BY <2>1 DEF Healthy!Tick
    <3> DEFINE n == inflight.ran + 1
    <3> HIDE DEF n
    <3> QED
      BY <3>1, <3>2 DEF Computation
  <2> QED
    BY <2>1, HealthBounds DEF Healthy!Tick
<1>4. \/ report' = None
      \/ /\ report \in Report /\ report # None /\ report' \in Report
         /\ report'.ttl = report.ttl - 1
         /\ report'.results = report.results /\ report'.status = report.status
  <2>1. ASSUME report # None, report.ttl # 1
        PROVE  /\ report \in Report /\ report' \in Report
               /\ report'.ttl = report.ttl - 1
               /\ report'.results = report.results /\ report'.status = report.status
    <3>1. report \in Report /\ report.ttl - 1 \in 1..CacheTtl
      BY <2>1, HealthBounds DEF HealthInv, HealthTyped
    <3>2. report' = [report EXCEPT !.ttl = report.ttl - 1]
      BY <2>1 DEF Healthy!Tick, Healthy!Cached
    <3> QED
      BY <3>1, <3>2 DEF Report
  <2> QED
    BY <2>1 DEF Healthy!Tick, Healthy!Cached
<1>5. UNCHANGED dependency /\ waiting' = [r \in Proc |-> IF waiting[r] = None THEN None
                                                        ELSE waiting[r] + 1]
  BY DEF Healthy!Tick
<1>6. HealthTyped'
  BY <1>2, <1>3, <1>4, <1>5 DEF HealthInv, HealthTyped
<1>7. Answered'
  BY <1>3, <1>4, <1>5 DEF HealthInv, Answered, Healthy!Overall
<1>8. inflight # None => inflight.ran \in Nat
  BY HealthBounds DEF HealthInv, HealthTyped
<1>9. WaitedFor'
  BY <1>3, <1>5, <1>8 DEF HealthInv, WaitedFor
<1>10. Fresh'
  <2> SUFFICES ASSUME NEW k \in Healthy!Severity, NEW t \in Healthy!Check,
                      Healthy!Suffers(k, dependency[t])
               PROVE  /\ inflight' # None /\ Hides(k, inflight'.results, t) =>
                           age'[<<k, t>>] <= inflight'.ran
                      /\ report' # None /\ Hides(k, report'.results, t) =>
                           age'[<<k, t>>] <= CheckTimeout + (CacheTtl - report'.ttl)
    BY <1>5 DEF Fresh, Hides
  <2>1. /\ age[<<k, t>>] \in Nat /\ age'[<<k, t>>] \in Nat
        /\ age'[<<k, t>>] <= age[<<k, t>>] + 1
    BY <1>1, <1>2, HealthBounds
  <2>2. inflight' # None /\ Hides(k, inflight'.results, t) => age'[<<k, t>>] <= inflight'.ran
    BY <1>3, <1>8, <2>1 DEF HealthInv, Fresh, Hides
  <2>3. report' # None /\ Hides(k, report'.results, t) =>
          age'[<<k, t>>] <= CheckTimeout + (CacheTtl - report'.ttl)
    BY <1>4, <2>1, HealthBounds DEF HealthInv, Fresh, Hides
  <2> QED
    BY <2>2, <2>3
<1> QED
  BY <1>6, <1>7, <1>9, <1>10 DEF HealthInv

(* AnswersInTime and TroubleShows: requests that ask together share one     *)
(* computation and none waits longer than a check may take; a dependency in *)
(* trouble for as long as a report lives and a check takes is reported.     *)
THEOREM HealthAnswers ==
  Healthy!HlSpec => [](Healthy!HlTypeOK /\ Healthy!AnswersInTime /\ Healthy!TroubleShows)
<1>1. HealthInv /\ [Healthy!HlNext]_healthVars => HealthInv'
  <2> SUFFICES ASSUME HealthInv, [Healthy!HlNext]_healthVars PROVE HealthInv'
    OBVIOUS
  <2>1. ASSUME NEW t \in Healthy!Check, Healthy!Completes(t) PROVE HealthInv'
    <3>1. dependency[t] \in Healthy!Condition \ {"hang"}
      BY <2>1 DEF HealthInv, HealthTyped, Healthy!Completes
    <3> QED
      BY <2>1, <3>1, CheckSettles DEF Healthy!Completes
  <2>2. ASSUME NEW t \in Healthy!Check, Healthy!TimesOut(t) PROVE HealthInv'
    <3>1. "down" \in Healthy!Condition \ {"hang"}
      BY DEF Healthy!Condition
    <3> QED
      BY <2>2, <3>1, CheckSettles DEF Healthy!TimesOut, Healthy!Suffers
  <2>3. CASE UNCHANGED healthVars
    BY <2>3 DEF healthVars, HealthInv, HealthTyped, Answered, WaitedFor, Fresh, Hides, Healthy!Overall
  <2> QED
    BY <2>1, <2>2, <2>3, TimePasses, DependencyChanges, RequestComes DEF Healthy!HlNext
<1>2. HealthInv => Healthy!HlTypeOK
  BY HealthBounds DEF HealthInv, HealthTyped, Severity, Healthy!HlTypeOK
<1>3. HealthInv => Healthy!AnswersInTime
  BY HealthBounds DEF HealthInv, HealthTyped, WaitedFor, Healthy!AnswersInTime
<1>4. HealthInv => Healthy!TroubleShows
  <2> SUFFICES ASSUME HealthInv, report # None, NEW t \in Healthy!Check
               PROVE  /\ Healthy!Suffers("trouble", dependency[t])
                         /\ age[<<"trouble", t>>] >= Healthy!Limit
                           => report.results[t] # "up" /\ report.status # "up"
                      /\ t \in Critical /\ Healthy!Suffers("outage", dependency[t])
                         /\ age[<<"outage", t>>] >= Healthy!Limit
                           => report.status = "down"
    BY DEF Healthy!TroubleShows, Healthy!Cached
  <2>1. /\ report.ttl \in 1..CacheTtl /\ report.results[t] # None
        /\ report.results[t] \in Healthy!Condition \ {"hang"}
    BY HealthBounds, HealthAssumption DEF HealthInv, HealthTyped, Answered
  <2>2. ASSUME NEW k \in Healthy!Severity, Healthy!Suffers(k, dependency[t]),
               age[<<k, t>>] >= Healthy!Limit
        PROVE  Healthy!Suffers(k, report.results[t])
    <3>1. age[<<k, t>>] \in Nat
      BY HealthBounds DEF HealthInv, HealthTyped, Severity
    <3> QED
      BY <2>1, <2>2, <3>1, HealthBounds DEF HealthInv, Fresh, Hides
  <2>3. report.status = Healthy!Overall(report.results)
    BY DEF HealthInv, Answered
  <2>4. ASSUME Healthy!Suffers("trouble", dependency[t]), age[<<"trouble", t>>] >= Healthy!Limit
        PROVE  report.results[t] # "up" /\ report.status # "up"
    <3>1. report.results[t] # "up"
      BY <2>2, <2>4 DEF Healthy!Severity, Healthy!Suffers
    <3> QED
      BY <2>3, <3>1 DEF Healthy!Overall
  <2>5. ASSUME t \in Critical, Healthy!Suffers("outage", dependency[t]),
               age[<<"outage", t>>] >= Healthy!Limit
        PROVE  report.status = "down"
    <3>1. report.results[t] = "down"
      BY <2>1, <2>2, <2>5 DEF Healthy!Severity, Healthy!Suffers, Healthy!Condition
    <3> QED
      BY <2>3, <2>5, <3>1 DEF Healthy!Overall
  <2> QED
    BY <2>4, <2>5
<1> QED
  BY <1>1, <1>2, <1>3, <1>4, HealthStart, PTL DEF Healthy!HlSpec, Healthy!hlVars, healthVars

-----------------------------------------------------------------------------
(* The request logs.  A log is in the topic only after its request is       *)
(* through with it or has a doubt about it; a row holds what the request    *)
(* captured; and who has no row yet has it still to come, or lost it.       *)
Known(q) == rows[q] > 0 \/ q \in lost \/ Logs!TooLong(q)

LogsPlaced ==
  /\ consumed # None => consumed \in topic /\ Known(consumed)
  /\ \A q \in Req : q \in topic \/ rows[q] > 0 => req[q].pc \in {"save", "done"}
  /\ \A q \in Req : Logs!Settled(q) => Known(q)

Once ==
  \A q \in Req \ doubled :
    /\ req[q].pc # "done" => q \notin topic /\ rows[q] = 0
    /\ q \in topic /\ consumed # q => rows[q] = 0
    /\ rows[q] <= 1

BodyCaptured ==
  \A q \in Req : /\ req[q].early # None => req[q].capture = req[q].early
                 /\ rows[q] > 0 => (stored[q] # "absent" <=> req[q].capture)

LogsInv == Logs!RlTypeOK /\ LogsPlaced /\ Once /\ BodyCaptured

(* What a step of a request's log does to the others. *)
LEMMA LogGoes ==
  ASSUME Logs!RlTypeOK, NEW q \in Req, NEW pc \in Logs!Pc, Logs!Goto(q, pc)
  PROVE  /\ req' \in [Req -> Logs!ReqRec] /\ req'[q].pc = pc
         /\ \A r \in Req \ {q} : req'[r] = req[r]
         /\ \A r \in Req : /\ req'[r].size = req[r].size /\ req'[r].capture = req[r].capture
                           /\ req'[r].early = req[r].early
BY DEF Logs!RlTypeOK, Logs!ReqRec, Logs!Goto

LEMMA LogsStart == Logs!RlInit => LogsInv
BY LogsAssumption
DEF Logs!RlInit, LogsInv, Logs!RlTypeOK, Logs!ReqRec, Logs!Pc, Logs!Size, Logs!Flag,
  LogsPlaced, Once, BodyCaptured, Known, Logs!Settled

LEMMA LogChanges ==
  ASSUME Logs!RlTypeOK, NEW q \in Req, NEW rec \in Logs!ReqRec, req' = [req EXCEPT ![q] = rec]
  PROVE  /\ req' \in [Req -> Logs!ReqRec] /\ req'[q] = rec
         /\ \A r \in Req \ {q} : req'[r] = req[r]
BY DEF Logs!RlTypeOK

(* A request that is not logged yet has left nothing behind it.             *)
LEMMA LogGoesOn ==
  ASSUME LogsInv, NEW q \in Req, NEW rec \in Logs!ReqRec, req' = [req EXCEPT ![q] = rec],
         req[q].pc \notin {"save", "done"}, rec.pc # "done",
         rec.early # None => rec.capture = rec.early,
         UNCHANGED <<mode, byDefault, topic, consumed, rows, stored, faults, lost, doubled>>
  PROVE  LogsInv'
<1>1. /\ req' \in [Req -> Logs!ReqRec] /\ req'[q] = rec
      /\ \A r \in Req \ {q} : req'[r] = req[r]
  BY LogChanges DEF LogsInv
<1>2. q \notin topic /\ rows[q] = 0
  BY DEF LogsInv, LogsPlaced, Logs!RlTypeOK
<1>3. Logs!RlTypeOK'
  BY <1>1 DEF LogsInv, Logs!RlTypeOK
<1>4. LogsPlaced'
  BY <1>1, <1>2, LogsAssumption
  DEF LogsInv, LogsPlaced, Known, Logs!Settled, Logs!TooLong, Logs!RlTypeOK
<1>5. Once' /\ BodyCaptured'
  BY <1>1, <1>2 DEF LogsInv, Once, BodyCaptured
<1> QED
  BY <1>3, <1>4, <1>5 DEF LogsInv

LEMMA LogIsTaken ==
  ASSUME LogsInv, NEW q \in Req,
         \/ \E size \in Logs!Size, decorator \in Logs!Flag : Logs!Receive(q, size, decorator)
         \/ \E on \in BOOLEAN : Logs!PatchRuntimeOptions(q, on)
         \/ Logs!Start(q) \/ Logs!StartIgnored(q) \/ Logs!Finish(q) \/ Logs!Persist(q)
  PROVE  LogsInv'
<1> USE DEF Logs!settings, Logs!sink
<1>1. req \in [Req -> Logs!ReqRec] /\ req[q] \in Logs!ReqRec
  BY DEF LogsInv, Logs!RlTypeOK
<1>2. req[q].early # None => req[q].capture = req[q].early
  BY DEF LogsInv, BodyCaptured
<1>3. {"guards", "handler", "persist", "publish", "save", "unlogged"} \subseteq Logs!Pc
  BY DEF Logs!Pc
<1>4. ASSUME NEW size \in Logs!Size, NEW decorator \in Logs!Flag,
             Logs!Receive(q, size, decorator)
      PROVE  LogsInv'
  <2> DEFINE rec == [[[req[q] EXCEPT !.pc = "guards"] EXCEPT !.size = size]
                      EXCEPT !.decorator = decorator]
  <2>1. req' = [req EXCEPT ![q] = rec]
    BY <1>1, <1>4 DEF Logs!Receive
  <2>2. rec \in Logs!ReqRec /\ rec.pc = "guards" /\ rec.early = req[q].early
        /\ rec.capture = req[q].capture
    BY <1>1, <1>3 DEF Logs!ReqRec
  <2> HIDE DEF rec
  <2> QED
    BY <1>2, <1>4, <2>1, <2>2, LogGoesOn DEF Logs!Receive
<1>5. ASSUME NEW on \in BOOLEAN, Logs!PatchRuntimeOptions(q, on)
      PROVE  LogsInv'
  <2> DEFINE rec == [req[q] EXCEPT !.runtime = on]
  <2>1. req' = [req EXCEPT ![q] = rec]
    BY <1>1, <1>5 DEF Logs!PatchRuntimeOptions
  <2>2. on \in Logs!Flag
    BY DEF Logs!Flag
  <2>3. rec \in Logs!ReqRec /\ rec.pc = req[q].pc /\ rec.early = req[q].early
        /\ rec.capture = req[q].capture
    BY <1>1, <2>2 DEF Logs!ReqRec
  <2> HIDE DEF rec
  <2> QED
    BY <1>2, <1>5, <2>1, <2>3, LogGoesOn DEF Logs!PatchRuntimeOptions
<1>6. CASE Logs!Start(q)
  <2> DEFINE flag == Logs!ResolveCaptureFlag(q)
             rec == [[[req[q] EXCEPT !.pc = "handler"] EXCEPT !.early = req[q].runtime]
                      EXCEPT !.capture = flag]
  <2>1. req' = [req EXCEPT ![q] = rec]
    BY <1>1, <1>6 DEF Logs!Start
  <2>2. /\ flag \in BOOLEAN /\ req[q].runtime \in Logs!Flag
        /\ req[q].runtime # None => flag = req[q].runtime
    BY <1>1 DEF LogsInv, Logs!RlTypeOK, Logs!ReqRec, Logs!Flag, Logs!ResolveCaptureFlag
  <2> HIDE DEF flag
  <2>3. rec \in Logs!ReqRec /\ rec.pc = "handler" /\ rec.early = req[q].runtime
        /\ rec.capture = flag
    BY <1>1, <1>3, <2>2 DEF Logs!ReqRec
  <2> HIDE DEF rec
  <2> QED
    BY <1>6, <2>1, <2>2, <2>3, LogGoesOn DEF Logs!Start
<1>7. ASSUME NEW pc \in Logs!Pc \ {"done"}, Logs!Goto(q, pc),
             req[q].pc \notin {"save", "done"},
             UNCHANGED <<mode, byDefault, topic, consumed, rows, stored, faults, lost, doubled>>
      PROVE  LogsInv'
  <2> DEFINE rec == [req[q] EXCEPT !.pc = pc]
  <2>1. req' = [req EXCEPT ![q] = rec]
    BY <1>1, <1>7 DEF Logs!Goto
  <2>2. rec \in Logs!ReqRec /\ rec.pc = pc /\ rec.early = req[q].early
        /\ rec.capture = req[q].capture
    BY <1>1 DEF Logs!ReqRec
  <2> HIDE DEF rec
  <2> QED
    BY <1>2, <1>7, <2>1, <2>2, LogGoesOn
<1>8. CASE Logs!StartIgnored(q)
  BY <1>3, <1>7, <1>8 DEF Logs!StartIgnored
<1>9. CASE Logs!Finish(q)
  BY <1>3, <1>7, <1>9 DEF Logs!Finish
<1>10. CASE Logs!Persist(q)
  BY <1>3, <1>7, <1>10 DEF Logs!Persist
<1> QED
  BY <1>4, <1>5, <1>6, <1>8, <1>9, <1>10

LEMMA LogPublished ==
  ASSUME LogsInv, NEW q \in Req, Logs!Published(q) \/ Logs!PublishRejected(q)
  PROVE  LogsInv'
<1> USE DEF Logs!settings, Logs!AfterRejection, Logs!Fault
<1>1. /\ req' \in [Req -> Logs!ReqRec] /\ req'[q].pc \in {"save", "done"}
      /\ req'[q].pc = "done" => topic' = topic \cup {q} /\ UNCHANGED doubled
      /\ req'[q].pc = "save" =>
           \/ UNCHANGED <<topic, doubled>>
           \/ topic' = topic \cup {q} /\ doubled' = doubled \cup {q}
      /\ \A r \in Req \ {q} : req'[r] = req[r]
      /\ \A r \in Req : /\ req'[r].size = req[r].size /\ req'[r].capture = req[r].capture
                        /\ req'[r].early = req[r].early
  BY LogGoes DEF LogsInv, Logs!Published, Logs!PublishRejected, Logs!Pc
<1>2. /\ UNCHANGED <<mode, byDefault, consumed, rows, stored, lost>>
      /\ faults' \in 0..MaxFaults /\ req[q].pc = "publish"
      /\ topic' \subseteq Req /\ doubled' \subseteq Req
  BY LogsAssumption DEF LogsInv, Logs!RlTypeOK, Logs!Published, Logs!PublishRejected
<1>3. q \notin topic /\ rows[q] = 0 /\ consumed # q
  BY <1>2, LogsAssumption DEF LogsInv, LogsPlaced, Logs!RlTypeOK
<1>4. Logs!RlTypeOK'
  BY <1>1, <1>2 DEF LogsInv, Logs!RlTypeOK
<1>5. LogsPlaced'
  BY <1>1, <1>2, <1>3, LogsAssumption
  DEF LogsInv, LogsPlaced, Known, Logs!Settled, Logs!TooLong, Logs!RlTypeOK
<1>6. Once' /\ BodyCaptured'
  BY <1>1, <1>2, <1>3 DEF LogsInv, Once, BodyCaptured
<1> QED
  BY <1>4, <1>5, <1>6 DEF LogsInv

(* A row added for a request holds the body if the request captured it.     *)
LEMMA RowInserted ==
  ASSUME LogsInv, NEW q \in Req, Logs!Insert(q)
  PROVE  /\ rows' \in [Req -> 0..MaxRows] /\ rows'[q] = rows[q] + 1 /\ rows[q] \in Nat
         /\ stored' \in [Req -> {"absent", "whole", "truncated"}]
         /\ stored'[q] # "absent" <=> req[q].capture
         /\ \A r \in Req \ {q} : rows'[r] = rows[r] /\ stored'[r] = stored[r]
<1>1. req[q].capture \in BOOLEAN
  BY DEF LogsInv, Logs!RlTypeOK, Logs!ReqRec
<1>2. /\ Logs!BuildLogByState(q) \in {"absent", "whole", "truncated"}
      /\ Logs!BuildLogByState(q) # "absent" <=> req[q].capture
  BY <1>1 DEF Logs!BuildLogByState, Logs!NormalizeForStorage
<1>3. rows[q] + 1 \in 0..MaxRows /\ rows[q] \in Nat
  BY LogsAssumption DEF Logs!Insert, LogsInv, Logs!RlTypeOK
<1> QED
  BY <1>2, <1>3 DEF Logs!Insert, LogsInv, Logs!RlTypeOK

LEMMA LogPersisted ==
  ASSUME LogsInv, NEW q \in Req, Logs!PersistToDatabase(q) \/ Logs!ProcessDies(q)
  PROVE  LogsInv'
<1> USE DEF Logs!settings, Logs!sink, Logs!Fault
<1>1. /\ req' \in [Req -> Logs!ReqRec] /\ req'[q].pc = "done"
      /\ \A r \in Req \ {q} : req'[r] = req[r]
      /\ \A r \in Req : /\ req'[r].size = req[r].size /\ req'[r].capture = req[r].capture
                        /\ req'[r].early = req[r].early
  BY LogGoes DEF LogsInv, Logs!PersistToDatabase, Logs!ProcessDies, Logs!Pc
<1>2. /\ UNCHANGED <<mode, byDefault, topic, consumed, doubled>>
      /\ faults' \in 0..MaxFaults /\ req[q].pc # "done"
      /\ \/ Logs!Insert(q) /\ UNCHANGED lost
         \/ UNCHANGED <<rows, stored>> /\ lost' = lost \cup {q}
  BY LogsAssumption DEF LogsInv, Logs!RlTypeOK, Logs!PersistToDatabase, Logs!ProcessDies
<1>3. q \notin doubled => q \notin topic /\ rows[q] = 0
  BY <1>2 DEF LogsInv, Once
<1>4. CASE Logs!Insert(q) /\ UNCHANGED lost
  <2>1. Logs!RlTypeOK'
    BY <1>1, <1>2, <1>4, RowInserted DEF LogsInv, Logs!RlTypeOK
  <2>2. \A r \in Req : Known(r) => Known(r)'
    BY <1>1, <1>4, RowInserted DEF Known, Logs!TooLong
  <2>3. Known(q)'
    BY <1>4, RowInserted DEF Known
  <2>4. LogsPlaced'
    BY <1>1, <1>2, <1>4, <2>2, <2>3, RowInserted
    DEF LogsInv, LogsPlaced, Logs!Settled, Logs!RlTypeOK
  <2>5. Once' /\ BodyCaptured'
    BY <1>1, <1>2, <1>3, <1>4, RowInserted DEF LogsInv, Once, BodyCaptured
  <2> QED
    BY <2>1, <2>4, <2>5 DEF LogsInv
<1>5. CASE UNCHANGED <<rows, stored>> /\ lost' = lost \cup {q}
  <2>1. Logs!RlTypeOK'
    BY <1>1, <1>2, <1>5 DEF LogsInv, Logs!RlTypeOK
  <2>2. LogsPlaced'
    BY <1>1, <1>2, <1>5
    DEF LogsInv, LogsPlaced, Logs!Settled, Logs!RlTypeOK, Known, Logs!TooLong
  <2>3. Once' /\ BodyCaptured'
    BY <1>1, <1>2, <1>3, <1>5 DEF LogsInv, Once, BodyCaptured
  <2> QED
    BY <2>1, <2>2, <2>3 DEF LogsInv
<1> QED
  BY <1>2, <1>4, <1>5

LEMMA LogConsumed ==
  ASSUME LogsInv, NEW q \in Req, Logs!ConsumeKafkaLog(q)
  PROVE  LogsInv'
<1> USE DEF Logs!settings, Logs!Fault
<1>1. /\ UNCHANGED <<mode, byDefault, req, topic, doubled>>
      /\ consumed' = q /\ consumed = None /\ q \in topic
      /\ faults' \in 0..MaxFaults
  BY LogsAssumption DEF LogsInv, Logs!RlTypeOK, Logs!ConsumeKafkaLog
<1>2. q # None /\ (q \notin doubled => rows[q] = 0)
  BY <1>1, LogsAssumption DEF LogsInv, Once
<1>3. req[q].pc \in {"save", "done"}
  BY <1>1 DEF LogsInv, LogsPlaced
<1>4. CASE Logs!Insert(q) /\ UNCHANGED lost
  <2>1. Logs!RlTypeOK'
    BY <1>1, <1>4, RowInserted DEF LogsInv, Logs!RlTypeOK
  <2>2. \A r \in Req : Known(r) => Known(r)'
    BY <1>1, <1>4, RowInserted DEF Known, Logs!TooLong
  <2>3. Known(q)'
    BY <1>4, RowInserted DEF Known
  <2>4. LogsPlaced'
    BY <1>1, <1>3, <1>4, <2>2, <2>3, RowInserted
    DEF LogsInv, LogsPlaced, Logs!Settled, Logs!RlTypeOK
  <2>5. Once' /\ BodyCaptured'
    BY <1>1, <1>2, <1>4, RowInserted, LogsAssumption DEF LogsInv, Once, BodyCaptured
  <2> QED
    BY <2>1, <2>4, <2>5 DEF LogsInv
<1>5. CASE UNCHANGED <<rows, stored>> /\ lost \subseteq lost' /\ lost' \subseteq lost \cup {q}
           /\ (Logs!TooLong(q) \/ q \in lost')
  <2>1. Logs!RlTypeOK'
    BY <1>1, <1>5 DEF LogsInv, Logs!RlTypeOK
  <2>2. \A r \in Req : Known(r) => Known(r)'
    BY <1>1, <1>5 DEF Known, Logs!TooLong
  <2>3. Known(q)'
    BY <1>1, <1>5 DEF Known, Logs!TooLong
  <2>4. LogsPlaced'
    BY <1>1, <1>5, <2>2, <2>3 DEF LogsInv, LogsPlaced, Logs!Settled
  <2>5. Once' /\ BodyCaptured'
    BY <1>1, <1>2, <1>5, LogsAssumption DEF LogsInv, Once, BodyCaptured
  <2> QED
    BY <2>1, <2>4, <2>5 DEF LogsInv
<1> QED
  BY <1>4, <1>5 DEF Logs!ConsumeKafkaLog

LEMMA LogCommitted ==
  ASSUME LogsInv, Logs!CommitKafkaLog \/ Logs!ConsumerDies
  PROVE  LogsInv'
<1> USE DEF Logs!settings, Logs!Fault
<1>1. /\ UNCHANGED <<mode, byDefault, req, rows, stored, lost>>
      /\ consumed' = None /\ consumed \in Req
      /\ faults' \in 0..MaxFaults
      /\ \/ topic' = topic \ {consumed} /\ UNCHANGED doubled
         \/ UNCHANGED topic /\ doubled' = doubled \cup {consumed}
  BY LogsAssumption DEF LogsInv, Logs!RlTypeOK, Logs!CommitKafkaLog, Logs!ConsumerDies
<1>2. Logs!RlTypeOK'
  BY <1>1 DEF LogsInv, Logs!RlTypeOK
<1>3. \A r \in Req : Known(r)' <=> Known(r)
  BY <1>1 DEF Known, Logs!TooLong
<1>4. Known(consumed)
  BY <1>1, LogsAssumption DEF LogsInv, LogsPlaced
<1>5. LogsPlaced'
  BY <1>1, <1>3, <1>4 DEF LogsInv, LogsPlaced, Logs!Settled
<1>6. Once' /\ BodyCaptured'
  BY <1>1, LogsAssumption DEF LogsInv, Once, BodyCaptured
<1> QED
  BY <1>2, <1>5, <1>6 DEF LogsInv

(* ShortLogsSaved, SavedOnce and RuntimeOptionWins: through the database or *)
(* through Kafka with the database behind it, whatever is rejected and      *)
(* whoever dies, a log that fits is stored, once unless the failure leaves  *)
(* it open, with the body that was asked for.                               *)
THEOREM LogsAreStored ==
  Logs!RlSpec =>
    [](Logs!RlTypeOK /\ Logs!ShortLogsSaved /\ Logs!SavedOnce /\ Logs!RuntimeOptionWins)
<1>1. LogsInv /\ [Logs!RlNext]_logVars => LogsInv'
  <2> SUFFICES ASSUME LogsInv, [Logs!RlNext]_logVars PROVE LogsInv'
    OBVIOUS
  <2>1. CASE UNCHANGED logVars
    BY <2>1 DEF logVars, LogsInv, Logs!RlTypeOK, LogsPlaced, Once, BodyCaptured, Known,
      Logs!Settled, Logs!TooLong
  <2> QED
    BY <2>1, LogIsTaken, LogPublished, LogPersisted, LogConsumed, LogCommitted DEF Logs!RlNext
<1>2. LogsInv => Logs!ShortLogsSaved /\ Logs!SavedOnce
  BY DEF LogsInv, LogsPlaced, Once, Known, Logs!ShortLogsSaved, Logs!SavedOnce
<1>3. LogsInv => Logs!RuntimeOptionWins
  <2> SUFFICES ASSUME LogsInv, NEW q \in Req, rows[q] > 0, req[q].early # None
               PROVE  (stored[q] # "absent") = req[q].early
    BY DEF Logs!RuntimeOptionWins
  <2>1. req[q].capture = req[q].early /\ (stored[q] # "absent" <=> req[q].capture)
    BY DEF LogsInv, BodyCaptured
  <2>2. req[q].capture \in BOOLEAN
    BY DEF LogsInv, Logs!RlTypeOK, Logs!ReqRec
  <2> QED
    BY <2>1, <2>2
<1>4. LogsInv => Logs!RlTypeOK
  BY DEF LogsInv
<1> QED
  BY <1>1, <1>2, <1>3, <1>4, LogsStart, PTL DEF Logs!RlSpec, Logs!rlVars, logVars

-----------------------------------------------------------------------------
(* The cache: who has the lock has it until it lets go, since its callback  *)
(* is shorter than the lock; and a waiter's time outlasts the lock it saw.  *)
Past == Cache!Holding \cup {"answered", "dead"}
Ahead == {"recheck", "compute"}

LockHeld ==
  /\ holder = None => lockLeft = 0
  /\ holder # None => lockLeft >= 1 /\ wrap[holder].pc \in Past
  /\ \A c \in Proc \cup {p3} :
       /\ wrap[c].pc \in Cache!Holding => holder = c
       /\ wrap[c].pc = "recheck" => lockLeft >= FnTicks + 1
       /\ wrap[c].pc = "compute" => lockLeft >= wrap[c].left + 1

WaitersOutlast ==
  \A c \in Proc \cup {p3} :
    /\ wrap[c].pc \in {"idle", "get", "acquire"} => wrap[c].seen = None
    /\ wrap[c].pc = "poll" => wrap[c].seen # None
    /\ wrap[c].seen # None => wrap[wrap[c].seen].pc \in Past
    /\ wrap[c].pc = "poll" /\ wrap[wrap[c].seen].pc \in Ahead => wrap[c].left >= lockLeft + 2
    /\ wrap[c].pc = "fallback" /\ wrap[c].seen # None => wrap[wrap[c].seen].pc \notin Ahead

(* While nothing goes wrong a lock is that of a call at work, which leaves  *)
(* a value before it lets go, and nobody runs out of time.                  *)
Undisturbed ==
  ~disturbed =>
    /\ holder # None => wrap[holder].pc \in Cache!Holding
    /\ \A c \in Proc \cup {p3} :
         /\ wrap[c].pc \notin {"fallback", "fallbackPersist", "dead"}
         /\ wrap[c].pc \in {"releaseGet", "releaseDel"} => cached # None
         /\ wrap[c].pc = "poll" =>
              /\ wrap[c].left >= 1
              /\ cached = None => holder # None /\ wrap[c].left >= lockLeft + 2

CacheInv == Cache!CsTypeOK /\ LockHeld /\ WaitersOutlast /\ Undisturbed

LEMMA CacheBegins == Cache!CsInit => CacheInv
<1> SUFFICES ASSUME Cache!CsInit PROVE CacheInv
  OBVIOUS
<1>1. 0 \in 0..LockTtl /\ 0 \in 0..Cache!WaitTimeout
  BY CacheAssumption DEF Cache!WaitTimeout
<1>2. [pc |-> "idle", left |-> 0, seen |-> None] \in Cache!CallRec
  BY <1>1 DEF Cache!CallRec, Cache!CallPc
<1>3. Cache!CsTypeOK
  BY <1>1, <1>2 DEF Cache!CsInit, Cache!CsTypeOK
<1> QED
  BY <1>3, CacheAssumption
  DEF CacheInv, Cache!CsInit, LockHeld, WaitersOutlast, Undisturbed, Cache!Holding

LEMMA CallMoves ==
  ASSUME Cache!CsTypeOK, NEW c \in Proc \cup {p3}, NEW pc \in Cache!CallPc,
         Cache!Move(c, pc) \/ Cache!Work(c, pc)
  PROVE  /\ wrap' \in [Proc \cup {p3} -> Cache!CallRec] /\ wrap'[c].pc = pc
         /\ Cache!Work(c, pc) => wrap'[c].left = FnTicks
         /\ \A d \in Proc \cup {p3} : /\ wrap'[d].seen = wrap[d].seen
                                      /\ d # c => wrap'[d] = wrap[d]
<1>1. wrap[c] \in Cache!CallRec /\ FnTicks \in 0..Cache!WaitTimeout
  BY CacheAssumption DEF Cache!CsTypeOK, Cache!WaitTimeout
<1>2. CASE Cache!Move(c, pc)
  <2> DEFINE rec == [wrap[c] EXCEPT !.pc = pc]
  <2>1. wrap' = [wrap EXCEPT ![c] = rec]
    BY <1>2 DEF Cache!Move, Cache!CsTypeOK
  <2>2. rec \in Cache!CallRec /\ rec.pc = pc /\ rec.seen = wrap[c].seen
    BY <1>1 DEF Cache!CallRec
  <2>3. Cache!Work(c, pc) => wrap'[c].left = FnTicks
    BY <1>1 DEF Cache!CsTypeOK, Cache!CallRec, Cache!Work
  <2> HIDE DEF rec
  <2> QED
    BY <2>1, <2>2, <2>3 DEF Cache!CsTypeOK
<1>3. CASE Cache!Work(c, pc)
  <2> DEFINE rec == [[wrap[c] EXCEPT !.pc = pc] EXCEPT !.left = FnTicks]
  <2>1. wrap' = [wrap EXCEPT ![c] = rec]
    BY <1>3 DEF Cache!Work, Cache!CsTypeOK
  <2>2. rec \in Cache!CallRec /\ rec.pc = pc /\ rec.seen = wrap[c].seen /\ rec.left = FnTicks
    BY <1>1 DEF Cache!CallRec
  <2> HIDE DEF rec
  <2> QED
    BY <2>1, <2>2 DEF Cache!CsTypeOK
<1> QED
  BY <1>2, <1>3

LEMMA CacheFields ==
  ASSUME Cache!CsTypeOK
  PROVE  /\ lockLeft \in Nat /\ lockLeft <= LockTtl
         /\ \A c \in Proc \cup {p3} : /\ wrap[c].left \in Nat /\ wrap[c].pc \in Cache!CallPc
                                      /\ wrap[c].seen \in Proc \cup {p3, None}
BY CacheAssumption DEF Cache!CsTypeOK, Cache!CallRec, Cache!WaitTimeout

(* A call that takes and deletes no lock: what it must not do.              *)
LEMMA CallGoesOn ==
  ASSUME CacheInv, NEW c \in Proc \cup {p3}, NEW pc \in Cache!CallPc \ {"poll"},
         wrap' \in [Proc \cup {p3} -> Cache!CallRec], wrap'[c].pc = pc,
         \A d \in Proc \cup {p3} : wrap'[d].seen = wrap[d].seen /\ (d # c => wrap'[d] = wrap[d]),
         UNCHANGED <<holder, lockLeft>>, cached' \in {None, "value"}, disturbed' \in BOOLEAN,
         wrap[c].pc \in Past => pc \in Past,
         pc \in Cache!Holding => wrap[c].pc \in Cache!Holding,
         pc \in Ahead => wrap[c].pc \in Ahead,
         pc # "recheck", pc = "compute" => lockLeft >= wrap'[c].left + 1,
         pc \in {"idle", "get", "acquire"} => wrap[c].pc \in {"idle", "get", "acquire"},
         pc = "fallback" => wrap[c].pc = "acquire" \/ (wrap[c].pc = "poll" /\ wrap[c].left = 0),
         ~disturbed' =>
           /\ ~disturbed /\ pc \notin {"fallback", "fallbackPersist", "dead"}
           /\ wrap[c].pc \in Cache!Holding => pc \in Cache!Holding
           /\ pc \in {"releaseGet", "releaseDel"} => cached' # None
           /\ cached # None => cached' # None
  PROVE  CacheInv'
<1>1. Cache!CsTypeOK'
  BY DEF CacheInv, Cache!CsTypeOK
<1>2. /\ lockLeft \in Nat /\ (\A d \in Proc \cup {p3} : wrap[d].left \in Nat)
      /\ holder \in Proc \cup {p3, None}
      /\ \A d \in Proc \cup {p3} : wrap[d].seen \in Proc \cup {p3, None}
  BY CacheFields DEF CacheInv, Cache!CsTypeOK
<1>3. LockHeld'
  BY <1>2 DEF CacheInv, LockHeld
<1>4. \A d \in Proc \cup {p3} : /\ wrap[d].pc \in Past => wrap'[d].pc \in Past
                                /\ wrap'[d].pc \in Ahead => wrap[d].pc \in Ahead
  OBVIOUS
<1>5. WaitersOutlast'
  <2> SUFFICES ASSUME NEW d \in Proc \cup {p3}
               PROVE  /\ wrap'[d].pc \in {"idle", "get", "acquire"} => wrap'[d].seen = None
                      /\ wrap'[d].pc = "poll" => wrap'[d].seen # None
                      /\ wrap'[d].seen # None => wrap'[wrap'[d].seen].pc \in Past
                      /\ wrap'[d].pc = "poll" /\ wrap'[wrap'[d].seen].pc \in Ahead =>
                           wrap'[d].left >= lockLeft' + 2
                      /\ wrap'[d].pc = "fallback" /\ wrap'[d].seen # None =>
                           wrap'[wrap'[d].seen].pc \notin Ahead
    BY DEF WaitersOutlast
  <2> USE DEF CacheInv, WaitersOutlast
  <2>1. /\ wrap'[d].pc \in {"idle", "get", "acquire"} => wrap'[d].seen = None
        /\ wrap'[d].pc = "poll" => wrap'[d].seen # None
    OBVIOUS
  <2>2. wrap'[d].seen # None => wrap'[wrap'[d].seen].pc \in Past
    BY <1>2, <1>4
  <2>3. wrap'[d].pc = "poll" /\ wrap'[wrap'[d].seen].pc \in Ahead =>
          wrap'[d].left >= lockLeft' + 2
    BY <1>2, <1>4, <2>1
  <2>4. wrap'[d].pc = "fallback" /\ wrap'[d].seen # None => wrap'[wrap'[d].seen].pc \notin Ahead
    BY <1>2, <1>4
  <2> QED
    BY <2>1, <2>2, <2>3, <2>4
<1>6. Undisturbed'
  BY <1>2 DEF CacheInv, Undisturbed
<1> QED
  BY <1>1, <1>3, <1>5, <1>6 DEF CacheInv

(* What a step that leaves the lock alone may lead to. *)
Follows(from, to) ==
  /\ to \in Cache!CallPc \ {"poll", "recheck"}
  /\ from \in Past => to \in Past
  /\ to \in Cache!Holding => from \in Cache!Holding
  /\ to \in Ahead => from \in Ahead
  /\ to \in {"idle", "get", "acquire"} => from \in {"idle", "get", "acquire"}

FollowsUndisturbed(from, to) ==
  /\ to \notin {"fallback", "fallbackPersist", "dead"}
  /\ from \in Cache!Holding => to \in Cache!Holding

LEMMA CallSteps ==
  ASSUME CacheInv, NEW c \in Proc \cup {p3}, NEW pc, Follows(wrap[c].pc, pc),
         Cache!Move(c, pc) \/ Cache!Work(c, pc),
         UNCHANGED <<holder, lockLeft>>, cached' \in {None, "value"}, disturbed' \in BOOLEAN,
         pc = "compute" => Cache!Work(c, pc) /\ wrap[c].pc = "recheck",
         pc = "fallback" => wrap[c].pc = "acquire" \/ (wrap[c].pc = "poll" /\ wrap[c].left = 0),
         ~disturbed' =>
           /\ ~disturbed /\ FollowsUndisturbed(wrap[c].pc, pc)
           /\ pc \in {"releaseGet", "releaseDel"} => cached' # None
           /\ cached # None => cached' # None
  PROVE  CacheInv'
<1>1. Cache!CsTypeOK /\ pc \in Cache!CallPc /\ pc # "poll"
  BY DEF CacheInv, Follows
<1>2. pc = "compute" => lockLeft >= wrap'[c].left + 1
  BY <1>1, CallMoves DEF CacheInv, LockHeld
<1>3. /\ wrap' \in [Proc \cup {p3} -> Cache!CallRec] /\ wrap'[c].pc = pc
      /\ \A d \in Proc \cup {p3} : wrap'[d].seen = wrap[d].seen /\ (d # c => wrap'[d] = wrap[d])
  <2>1. wrap' \in [Proc \cup {p3} -> Cache!CallRec]
    BY <1>1, CallMoves
  <2>2. wrap'[c].pc = pc
    BY <1>1, CallMoves
  <2>3. ASSUME NEW d \in Proc \cup {p3} PROVE wrap'[d].seen = wrap[d].seen
    BY <1>1, CallMoves
  <2>4. ASSUME NEW d \in Proc \cup {p3}, d # c PROVE wrap'[d] = wrap[d]
    BY <1>1, <2>4, CallMoves
  <2> QED
    BY <2>1, <2>2, <2>3, <2>4
<1> QED
  BY <1>1, <1>2, <1>3, CallGoesOn DEF Follows, FollowsUndisturbed

(* Which step leads where, undisturbed if the third says so. *)
LEMMA CallTable ==
  /\ Follows("idle", "get") /\ Follows("get", "answered")
  /\ Follows("get", "acquire") /\ Follows("get", "failed")
  /\ Follows("recheck", "releaseGet") /\ Follows("recheck", "compute")
  /\ Follows("acquire", "fallback") /\ Follows("compute", "persist")
  /\ Follows("fallback", "fallbackPersist") /\ Follows("compute", "releaseGet")
  /\ Follows("fallback", "failed") /\ Follows("persist", "releaseGet")
  /\ Follows("fallbackPersist", "answered") /\ Follows("releaseGet", "releaseDel")
  /\ Follows("releaseGet", "answered") /\ Follows("releaseDel", "answered")
  /\ Follows("poll", "answered") /\ Follows("poll", "fallback")
  /\ FollowsUndisturbed("idle", "get") /\ FollowsUndisturbed("get", "answered")
  /\ FollowsUndisturbed("get", "acquire") /\ FollowsUndisturbed("recheck", "releaseGet")
  /\ FollowsUndisturbed("recheck", "compute") /\ FollowsUndisturbed("compute", "persist")
  /\ FollowsUndisturbed("persist", "releaseGet") /\ FollowsUndisturbed("fallbackPersist", "answered")
  /\ FollowsUndisturbed("releaseGet", "releaseDel") /\ FollowsUndisturbed("poll", "answered")
  /\ \A from : Follows(from, "dead")
BY DEF Follows, FollowsUndisturbed, Past, Ahead, Cache!Holding, Cache!CallPc, Cache!Waiting,
    Cache!Fallback

LEMMA CacheValues ==
  ASSUME CacheInv
  PROVE  /\ cached \in {None, "value"} /\ "value" # None /\ disturbed \in BOOLEAN
         /\ \A c \in Proc \cup {p3} : ~disturbed => wrap[c].pc \notin {"fallback", "fallbackPersist"}
BY CacheAssumption DEF CacheInv, Cache!CsTypeOK, Undisturbed

LEMMA CacheStart ==
  ASSUME CacheInv, NEW c \in Proc \cup {p3}, Cache!Start(c)
  PROVE  CacheInv'
BY CallTable, CallSteps, CacheValues DEF Cache!Start

LEMMA CacheGet ==
  ASSUME CacheInv, NEW c \in Proc \cup {p3}, Cache!Get(c)
  PROVE  CacheInv'
BY CallTable, CallSteps, CacheValues DEF Cache!Get

LEMMA CacheGetError ==
  ASSUME CacheInv, NEW c \in Proc \cup {p3}, Cache!GetError(c)
  PROVE  CacheInv'
BY CallTable, CallSteps, CacheValues DEF Cache!GetError

LEMMA CacheAcquireError ==
  ASSUME CacheInv, NEW c \in Proc \cup {p3}, Cache!AcquireError(c)
  PROVE  CacheInv'
BY CallTable, CallSteps, CacheValues DEF Cache!AcquireError

LEMMA CachePollHit ==
  ASSUME CacheInv, NEW c \in Proc \cup {p3}, Cache!PollHit(c)
  PROVE  CacheInv'
BY CallTable, CallSteps, CacheValues DEF Cache!PollHit

LEMMA CacheReleaseError ==
  ASSUME CacheInv, NEW c \in Proc \cup {p3}, Cache!ReleaseError(c)
  PROVE  CacheInv'
BY CallTable, CallSteps, CacheValues DEF Cache!ReleaseError

LEMMA CacheCrash ==
  ASSUME CacheInv, NEW c \in Proc \cup {p3}, Cache!Crash(c)
  PROVE  CacheInv'
BY CallTable, CallSteps, CacheValues DEF Cache!Crash

LEMMA CacheRecheck ==
  ASSUME CacheInv, NEW c \in Proc \cup {p3}, Cache!Recheck(c)
  PROVE  CacheInv'
<1>1. CASE cached # None
  BY <1>1, CallTable, CallSteps, CacheValues DEF Cache!Recheck
<1>2. CASE cached = None
  BY <1>2, CallTable, CallSteps, CacheValues DEF Cache!Recheck
<1> QED
  BY <1>1, <1>2

LEMMA CacheFnAnswers ==
  ASSUME CacheInv, NEW c \in Proc \cup {p3}, Cache!FnAnswers(c)
  PROVE  CacheInv'
<1>1. CASE wrap[c].pc = "compute"
  BY <1>1, CallTable, CallSteps, CacheValues DEF Cache!FnAnswers
<1>2. CASE wrap[c].pc = "fallback"
  BY <1>2, CallTable, CallSteps, CacheValues DEF Cache!FnAnswers
<1> QED
  BY <1>1, <1>2 DEF Cache!FnAnswers

LEMMA CacheFnThrows ==
  ASSUME CacheInv, NEW c \in Proc \cup {p3}, Cache!FnThrows(c)
  PROVE  CacheInv'
<1>1. CASE wrap[c].pc = "compute"
  BY <1>1, CallTable, CallSteps, CacheValues DEF Cache!FnThrows
<1>2. CASE wrap[c].pc = "fallback"
  BY <1>2, CallTable, CallSteps, CacheValues DEF Cache!FnThrows
<1> QED
  BY <1>1, <1>2 DEF Cache!FnThrows

LEMMA CachePersist ==
  ASSUME CacheInv, NEW c \in Proc \cup {p3}, Cache!Persist(c)
  PROVE  CacheInv'
<1>1. CASE wrap[c].pc = "persist"
  BY <1>1, CallTable, CallSteps, CacheValues DEF Cache!Persist, Cache!AfterPersist
<1>2. CASE wrap[c].pc = "fallbackPersist"
  BY <1>2, CallTable, CallSteps, CacheValues DEF Cache!Persist, Cache!AfterPersist
<1> QED
  BY <1>1, <1>2 DEF Cache!Persist

LEMMA CacheSkipPersist ==
  ASSUME CacheInv, NEW c \in Proc \cup {p3}, Cache!SkipPersist(c)
  PROVE  CacheInv'
<1>1. CASE wrap[c].pc = "persist"
  BY <1>1, CallTable, CallSteps, CacheValues DEF Cache!SkipPersist, Cache!AfterPersist
<1>2. CASE wrap[c].pc = "fallbackPersist"
  BY <1>2, CallTable, CallSteps, CacheValues DEF Cache!SkipPersist, Cache!AfterPersist
<1> QED
  BY <1>1, <1>2 DEF Cache!SkipPersist

LEMMA CacheReleaseGet ==
  ASSUME CacheInv, NEW c \in Proc \cup {p3}, Cache!ReleaseGet(c)
  PROVE  CacheInv'
<1>1. holder = c
  BY DEF Cache!ReleaseGet, CacheInv, LockHeld, Cache!Holding
<1>2. ~disturbed => cached # None
  BY DEF Cache!ReleaseGet, CacheInv, Undisturbed
<1> QED
  BY <1>1, <1>2, CallTable, CallSteps, CacheValues DEF Cache!ReleaseGet

LEMMA CachePollTimeout ==
  ASSUME CacheInv, NEW c \in Proc \cup {p3}, Cache!PollTimeout(c)
  PROVE  CacheInv'
<1>1. disturbed
  BY DEF Cache!PollTimeout, CacheInv, Undisturbed
<1> QED
  BY <1>1, CallTable, CallSteps, CacheValues DEF Cache!PollTimeout

(* The steps that take and delete the lock.                                 *)
LEMMA CacheReleaseDel ==
  ASSUME CacheInv, NEW c \in Proc \cup {p3}, Cache!ReleaseDel(c)
  PROVE  CacheInv'
<1> USE DEF CacheInv
<1>1. /\ wrap[c].pc = "releaseDel" /\ Cache!Move(c, "answered") /\ holder' = None
      /\ lockLeft' = 0 /\ cached' = cached /\ disturbed' = disturbed
  BY DEF Cache!ReleaseDel
<1>2. "answered" \in Cache!CallPc
  BY DEF Cache!CallPc
<1>3. /\ wrap' \in [Proc \cup {p3} -> Cache!CallRec] /\ wrap'[c].pc = "answered"
      /\ \A d \in Proc \cup {p3} : wrap'[d].seen = wrap[d].seen /\ (d # c => wrap'[d] = wrap[d])
  BY <1>1, <1>2, CallMoves
<1>4. /\ holder = c /\ lockLeft \in Nat /\ None \notin Proc \cup {p3}
      /\ \A d \in Proc \cup {p3} : wrap[d].left \in Nat /\ wrap[d].seen \in Proc \cup {p3, None}
  BY <1>1, CacheFields, CacheAssumption DEF LockHeld, Cache!Holding
<1>5. Cache!CsTypeOK'
  BY <1>1, <1>3, CacheAssumption DEF Cache!CsTypeOK
<1>6. \A d \in Proc \cup {p3} : wrap'[d].pc \notin Cache!Holding
  <2>1. "answered" \notin Cache!Holding
    BY DEF Cache!Holding
  <2> QED
    BY <1>3, <1>4, <2>1 DEF LockHeld
<1>7. LockHeld'
  BY <1>1, <1>4, <1>6 DEF LockHeld, Cache!Holding
<1>8. \A d \in Proc \cup {p3} : /\ wrap[d].pc \in Past => wrap'[d].pc \in Past
                                /\ wrap'[d].pc \notin Ahead
  BY <1>3, <1>6 DEF Past, Ahead, Cache!Holding
<1>9. WaitersOutlast'
  BY <1>3, <1>4, <1>8 DEF WaitersOutlast
<1>10. Undisturbed'
  BY <1>1, <1>3, <1>4 DEF Undisturbed
<1> QED
  BY <1>5, <1>7, <1>9, <1>10

LEMMA CacheAcquireLock ==
  ASSUME CacheInv, NEW c \in Proc \cup {p3}, Cache!AcquireLock(c), holder = None
  PROVE  CacheInv'
<1> USE DEF CacheInv
<1>1. /\ wrap[c].pc = "acquire" /\ Cache!Move(c, "recheck") /\ holder' = c
      /\ lockLeft' = LockTtl /\ cached' = cached /\ disturbed' = disturbed
  BY DEF Cache!AcquireLock
<1>2. "recheck" \in Cache!CallPc
  BY DEF Cache!CallPc, Cache!Holding
<1>3. /\ wrap' \in [Proc \cup {p3} -> Cache!CallRec] /\ wrap'[c].pc = "recheck"
      /\ \A d \in Proc \cup {p3} : wrap'[d].seen = wrap[d].seen /\ (d # c => wrap'[d] = wrap[d])
  BY <1>1, <1>2, CallMoves
<1>4. /\ None \notin Proc \cup {p3} /\ LockTtl \in Nat /\ FnTicks \in Nat /\ FnTicks < LockTtl
      /\ \A d \in Proc \cup {p3} : wrap[d].left \in Nat /\ wrap[d].seen \in Proc \cup {p3, None}
  BY <1>1, CacheFields, CacheAssumption
<1>5. Cache!CsTypeOK'
  BY <1>1, <1>3, <1>4 DEF Cache!CsTypeOK
<1>6. \A d \in Proc \cup {p3} : wrap[d].pc \notin Cache!Holding
  BY <1>4 DEF LockHeld
<1>7. LockHeld'
  BY <1>1, <1>3, <1>4, <1>6 DEF LockHeld, Cache!Holding, Past
<1>8. \A d \in Proc \cup {p3} : /\ wrap[d].pc \in Past => wrap'[d].pc \in Past
                                /\ d # c => wrap'[d].pc \notin Ahead
  BY <1>1, <1>3, <1>6 DEF Past, Ahead, Cache!Holding
<1>9. \A d \in Proc \cup {p3} : wrap'[d].seen # c
  BY <1>1, <1>3, <1>4 DEF WaitersOutlast, Past, Cache!Holding
<1>10. WaitersOutlast'
  BY <1>1, <1>3, <1>4, <1>8, <1>9 DEF WaitersOutlast
<1>11. Undisturbed'
  BY <1>1, <1>3, <1>4 DEF Undisturbed, Cache!Holding
<1> QED
  BY <1>5, <1>7, <1>10, <1>11

LEMMA CacheWaits ==
  ASSUME CacheInv, NEW c \in Proc \cup {p3}, Cache!AcquireLock(c), holder # None
  PROVE  CacheInv'
<1> USE DEF CacheInv
<1> DEFINE rec == [pc |-> "poll", left |-> Cache!WaitTimeout, seen |-> holder]
<1>1. /\ wrap[c].pc = "acquire" /\ wrap' = [wrap EXCEPT ![c] = rec] /\ holder' = holder
      /\ lockLeft' = lockLeft /\ cached' = cached /\ disturbed' = disturbed
  BY DEF Cache!AcquireLock
<1>2. /\ LockTtl \in Nat /\ lockLeft \in Nat /\ lockLeft <= LockTtl
      /\ holder \in Proc \cup {p3} /\ None \notin Proc \cup {p3}
      /\ \A d \in Proc \cup {p3} : wrap[d].left \in Nat /\ wrap[d].seen \in Proc \cup {p3, None}
  BY CacheFields, CacheAssumption DEF Cache!CsTypeOK
<1>3. Cache!WaitTimeout = LockTtl + 2
  BY DEF Cache!WaitTimeout
<1>4. /\ rec \in Cache!CallRec /\ rec.pc = "poll" /\ rec.left = LockTtl + 2
      /\ rec.seen = holder
  BY <1>2, <1>3 DEF Cache!CallRec, Cache!CallPc, Cache!Waiting
<1> HIDE DEF rec
<1>5. /\ wrap' \in [Proc \cup {p3} -> Cache!CallRec] /\ wrap'[c] = rec
      /\ \A d \in Proc \cup {p3} : d # c => wrap'[d] = wrap[d]
  BY <1>1, <1>4 DEF Cache!CsTypeOK
<1>6. Cache!CsTypeOK'
  BY <1>1, <1>5 DEF Cache!CsTypeOK
<1>7. LockHeld'
  BY <1>1, <1>2, <1>4, <1>5 DEF LockHeld, Cache!Holding, Past
<1>8. \A d \in Proc \cup {p3} : /\ wrap[d].pc \in Past => wrap'[d].pc \in Past
                                /\ wrap'[d].pc \in Ahead => wrap[d].pc \in Ahead
  BY <1>1, <1>4, <1>5 DEF Past, Ahead, Cache!Holding
<1>9. WaitersOutlast'
  BY <1>1, <1>2, <1>4, <1>5, <1>8 DEF WaitersOutlast, LockHeld
<1>10. Undisturbed'
  <2>1. holder # c /\ wrap'[holder] = wrap[holder]
    BY <1>1, <1>2, <1>5 DEF LockHeld, Past, Cache!Holding
  <2>2. \A d \in Proc \cup {p3} : d # c => wrap'[d] = wrap[d]
    BY <1>5
  <2>3. wrap'[c].pc = "poll" /\ wrap'[c].left = LockTtl + 2
    BY <1>4, <1>5
  <2> QED
    BY <2>1, <2>2, <2>3, <1>1, <1>2 DEF Undisturbed
<1> QED
  BY <1>6, <1>7, <1>9, <1>10

LEMMA CacheEvict ==
  ASSUME CacheInv, Cache!Evict
  PROVE  CacheInv'
<1> USE DEF CacheInv, Cache!Evict
<1>1. Cache!CsTypeOK'
  BY DEF Cache!CsTypeOK
<1>2. LockHeld'
  BY DEF LockHeld
<1>3. WaitersOutlast'
  BY DEF WaitersOutlast
<1>4. Undisturbed'
  BY DEF Undisturbed
<1> QED
  BY <1>1, <1>2, <1>3, <1>4

(* A tick: a holder computes, or is dead, since a call in a command holds   *)
(* time up; a lock in its last tick is a dead call's, unless nobody waits.  *)
LEMMA CacheTick ==
  ASSUME CacheInv, Cache!CsTick
  PROVE  CacheInv'
<1> USE DEF CacheInv
<1> DEFINE Busy(d) == Cache!Computing(d) \/ wrap[d].pc = "poll"
<1> DEFINE rec(d) == [wrap[d] EXCEPT !.left = wrap[d].left - 1]
<1>1. /\ \A d \in Proc \cup {p3} : ~Cache!AtDeadline(d) /\ ~Cache!InCommand(d)
      /\ \A d \in Proc \cup {p3} : wrap[d].pc = "poll" => cached = None
      /\ lockLeft' = IF lockLeft > 0 THEN lockLeft - 1 ELSE 0
      /\ holder' = IF lockLeft > 1 THEN holder ELSE None
      /\ wrap' = [d \in Proc \cup {p3} |-> IF Busy(d) THEN rec(d) ELSE wrap[d]]
      /\ cached' = cached /\ disturbed' = disturbed
  BY DEF Cache!CsTick
<1>2. /\ lockLeft \in Nat /\ lockLeft <= LockTtl /\ LockTtl \in Nat
      /\ None \notin Proc \cup {p3} /\ holder \in Proc \cup {p3, None}
      /\ \A d \in Proc \cup {p3} : wrap[d].left \in Nat /\ wrap[d].seen \in Proc \cup {p3, None}
  BY CacheFields, CacheAssumption DEF Cache!CsTypeOK
<1>3. \A d \in Proc \cup {p3} : Busy(d) => wrap[d].left >= 1
  BY <1>1, <1>2 DEF Cache!AtDeadline
<1>4. ASSUME NEW d \in Proc \cup {p3}, Busy(d)
      PROVE  /\ rec(d) \in Cache!CallRec /\ rec(d).pc = wrap[d].pc
             /\ rec(d).seen = wrap[d].seen /\ rec(d).left = wrap[d].left - 1
  <2>1. wrap[d] \in Cache!CallRec
    BY DEF Cache!CsTypeOK
  <2>2. rec(d).pc = wrap[d].pc /\ rec(d).seen = wrap[d].seen /\ rec(d).left = wrap[d].left - 1
    BY <2>1 DEF Cache!CallRec
  <2>3. wrap[d].left - 1 \in 0..Cache!WaitTimeout
    BY <1>2, <1>3, <1>4, <2>1 DEF Cache!CallRec, Cache!WaitTimeout
  <2>4. rec(d) \in Cache!CallRec
    BY <2>1, <2>2, <2>3 DEF Cache!CallRec
  <2> QED
    BY <2>2, <2>4
<1> HIDE DEF rec
<1>5. ASSUME NEW d \in Proc \cup {p3}
      PROVE  /\ wrap'[d] \in Cache!CallRec /\ wrap'[d].pc = wrap[d].pc
             /\ wrap'[d].seen = wrap[d].seen
             /\ wrap'[d].left = IF Busy(d) THEN wrap[d].left - 1 ELSE wrap[d].left
  <2>1. CASE Busy(d)
    BY <2>1, <1>1, <1>4
  <2>2. CASE ~Busy(d)
    BY <2>2, <1>1 DEF Cache!CsTypeOK
  <2> QED
    BY <2>1, <2>2
<1>6. wrap' = [d \in Proc \cup {p3} |-> wrap'[d]]
  BY <1>1
<1>7. Cache!CsTypeOK'
  <2>1. wrap' \in [Proc \cup {p3} -> Cache!CallRec]
    BY <1>5, <1>6
  <2>2. lockLeft' \in 0..LockTtl /\ holder' \in Proc \cup {p3, None}
    BY <1>1, <1>2
  <2> QED
    BY <2>1, <2>2, <1>1 DEF Cache!CsTypeOK
<1>8. \A d \in Proc \cup {p3} :
        /\ wrap[d].pc \in Cache!Holding => /\ wrap[d].pc = "compute" /\ holder = d
                                           /\ wrap[d].left >= 1 /\ lockLeft >= wrap[d].left + 1
        /\ wrap[d].pc \in Ahead => wrap[d].pc = "compute"
  BY <1>1, <1>2, <1>3 DEF LockHeld, Cache!Holding, Cache!InCommand, Cache!Computing, Ahead
<1>9. \A d \in Proc \cup {p3} : /\ wrap[d].pc \in {"poll", "compute"} => Busy(d)
                                /\ "compute" \in Cache!Holding
  BY DEF Cache!Computing, Cache!Holding
<1> HIDE DEF Busy
<1>10. LockHeld'
  <2>1. /\ holder' = None => lockLeft' = 0
        /\ holder' # None => lockLeft' >= 1 /\ wrap'[holder'].pc \in Past
    <3>1. holder = None => lockLeft = 0
      BY DEF LockHeld
    <3>2. holder # None => wrap'[holder].pc \in Past
      BY <1>2, <1>5 DEF LockHeld
    <3>3. lockLeft > 1 => lockLeft' >= 1 /\ holder' = holder /\ holder # None
      BY <1>1, <1>2, <3>1
    <3>4. ~(lockLeft > 1) => lockLeft' = 0 /\ holder' = None
      BY <1>1, <1>2
    <3> QED
      BY <3>2, <3>3, <3>4
  <2>2. ASSUME NEW d \in Proc \cup {p3}
        PROVE  /\ wrap'[d].pc \in Cache!Holding => holder' = d
               /\ wrap'[d].pc = "recheck" => lockLeft' >= FnTicks + 1
               /\ wrap'[d].pc = "compute" => lockLeft' >= wrap'[d].left + 1
    <3>1. wrap'[d].pc = wrap[d].pc
      BY <1>5
    <3>2. CASE wrap[d].pc \in Cache!Holding
      <4>1. wrap[d].pc = "compute" /\ wrap'[d].left = wrap[d].left - 1
        BY <3>2, <1>5, <1>8, <1>9
      <4>2. holder = d /\ lockLeft >= wrap[d].left + 1 /\ wrap[d].left >= 1
        BY <3>2, <1>8
      <4>3. lockLeft > 1 /\ lockLeft' >= wrap'[d].left + 1
        BY <4>1, <4>2, <1>1, <1>2
      <4> QED
        BY <3>1, <4>1, <4>2, <4>3, <1>1
    <3>3. CASE wrap[d].pc \notin Cache!Holding
      BY <3>1, <3>3 DEF Cache!Holding
    <3> QED
      BY <3>2, <3>3
  <2> QED
    BY <2>1, <2>2 DEF LockHeld
<1>11. WaitersOutlast'
  <2> SUFFICES ASSUME NEW d \in Proc \cup {p3}
               PROVE  /\ wrap'[d].pc \in {"idle", "get", "acquire"} => wrap'[d].seen = None
                      /\ wrap'[d].pc = "poll" => wrap'[d].seen # None
                      /\ wrap'[d].seen # None => wrap'[wrap'[d].seen].pc \in Past
                      /\ wrap'[d].pc = "poll" /\ wrap'[wrap'[d].seen].pc \in Ahead =>
                           wrap'[d].left >= lockLeft' + 2
                      /\ wrap'[d].pc = "fallback" /\ wrap'[d].seen # None =>
                           wrap'[wrap'[d].seen].pc \notin Ahead
    BY DEF WaitersOutlast
  <2>1. /\ wrap'[d].pc = wrap[d].pc /\ wrap'[d].seen = wrap[d].seen
        /\ wrap[d].seen # None => wrap'[wrap[d].seen].pc = wrap[wrap[d].seen].pc
    BY <1>2, <1>5
  <2>2. wrap[d].pc = "poll" => wrap'[d].left = wrap[d].left - 1 /\ wrap[d].seen # None
    BY <1>5, <1>9 DEF WaitersOutlast
  <2>3. wrap[d].seen # None /\ wrap[wrap[d].seen].pc \in Ahead => lockLeft >= 1
    BY <1>2, <1>8, <1>9
  <2>4. wrap[d].pc = "poll" /\ wrap[wrap[d].seen].pc \in Ahead => wrap[d].left >= lockLeft + 2
    BY DEF WaitersOutlast
  <2>5. wrap'[d].pc = "poll" /\ wrap'[wrap'[d].seen].pc \in Ahead => wrap'[d].left >= lockLeft' + 2
    BY <1>1, <1>2, <2>1, <2>2, <2>3, <2>4
  <2> QED
    BY <2>1, <2>5 DEF WaitersOutlast
<1>12. Undisturbed'
  <2> SUFFICES ASSUME ~disturbed
               PROVE  /\ holder' # None => wrap'[holder'].pc \in Cache!Holding
                      /\ \A d \in Proc \cup {p3} :
                           /\ wrap'[d].pc \notin {"fallback", "fallbackPersist", "dead"}
                           /\ wrap'[d].pc \in {"releaseGet", "releaseDel"} => cached' # None
                           /\ wrap'[d].pc = "poll" =>
                                /\ wrap'[d].left >= 1
                                /\ cached' = None =>
                                     holder' # None /\ wrap'[d].left >= lockLeft' + 2
    BY <1>1 DEF Undisturbed
  <2>1. holder # None => wrap[holder].pc \in Cache!Holding
    BY DEF Undisturbed
  <2>2. holder # None => lockLeft >= 2
    BY <1>2, <1>8, <2>1
  <2>3. ASSUME NEW d \in Proc \cup {p3}, wrap'[d].pc = "poll"
        PROVE  /\ wrap'[d].left >= 1 /\ holder' # None /\ wrap'[d].left >= lockLeft' + 2
    <3>1. wrap[d].pc = "poll" /\ wrap'[d].left = wrap[d].left - 1
      BY <2>3, <1>5, <1>9
    <3>2. holder # None /\ wrap[d].left >= lockLeft + 2
      BY <3>1, <1>1 DEF Undisturbed
    <3> QED
      BY <3>1, <3>2, <2>2, <1>1, <1>2
  <2>4. holder' # None => holder' = holder
    BY <1>1
  <2> QED
    BY <1>1, <1>2, <1>5, <2>1, <2>3, <2>4 DEF Undisturbed
<1> QED
  BY <1>7, <1>10, <1>11, <1>12

LEMMA CacheSteps == CacheInv /\ [Cache!CsNext]_cacheVars => CacheInv'
<1> SUFFICES ASSUME CacheInv, [Cache!CsNext]_cacheVars PROVE CacheInv'
  OBVIOUS
<1>1. CASE UNCHANGED cacheVars
  <2> USE <1>1 DEF cacheVars, CacheInv
  <2>1. Cache!CsTypeOK'
    BY DEF Cache!CsTypeOK
  <2>2. LockHeld'
    BY DEF LockHeld
  <2>3. WaitersOutlast'
    BY DEF WaitersOutlast
  <2>4. Undisturbed'
    BY DEF Undisturbed
  <2> QED
    BY <2>1, <2>2, <2>3, <2>4
<1>2. ASSUME NEW c \in Proc \cup {p3}, Cache!Start(c) \/ Cache!CallStep(c) \/ Cache!Crash(c)
      PROVE  CacheInv'
  BY <1>2, CacheStart, CacheGet, CacheGetError, CacheAcquireLock, CacheWaits, CacheAcquireError,
     CacheRecheck, CacheFnAnswers, CachePersist, CacheSkipPersist, CacheFnThrows, CacheReleaseGet,
     CacheReleaseDel, CacheReleaseError, CachePollHit, CachePollTimeout, CacheCrash
  DEF Cache!CallStep
<1> QED
  BY <1>1, <1>2, CacheEvict, CacheTick DEF Cache!CsNext

LEMMA CacheCounts ==
  CacheInv => Cache!OneComputation /\ Cache!WaitOutlastsHolder /\ Cache!DeletesOwnLock
<1> SUFFICES ASSUME CacheInv
             PROVE  Cache!OneComputation /\ Cache!WaitOutlastsHolder /\ Cache!DeletesOwnLock
  OBVIOUS
<1>1. Cache!WaitOutlastsHolder /\ Cache!DeletesOwnLock
  BY DEF CacheInv, LockHeld, WaitersOutlast, Cache!WaitOutlastsHolder, Cache!DeletesOwnLock,
         Cache!Holding, Ahead
<1>2. Cache!OneComputation
  <2> DEFINE S == {c \in Proc \cup {p3} : Cache!Computing(c)}
  <2> SUFFICES ASSUME ~disturbed PROVE Cache!Cardinality(S) <= 1
    BY DEF Cache!OneComputation
  <2>1. \A c \in S : c = holder
    BY DEF CacheInv, LockHeld, Undisturbed, Cache!Computing, Cache!Holding
  <2>2. S = {} \/ S = {holder}
    BY <2>1
  <2>3. Cache!Cardinality(S) = Cardinality(S)
    BY DEF Cache!Cardinality, Cardinality
  <2>4. Cardinality(S) = 0 \/ Cardinality(S) = 1
    BY <2>2, FS_EmptySet, FS_Singleton
  <2> QED
    BY <2>3, <2>4
<1> QED
  BY <1>1, <1>2

(* The lock of wrap: undisturbed, one of the concurrent misses computes;    *)
(* whatever goes wrong, a waiter computes only after the call it waited for *)
(* has stopped, and no call deletes a lock that is not its own.             *)
THEOREM CacheComputesOnce ==
  Cache!CsInit /\ [][Cache!CsNext]_cacheVars =>
    [](Cache!CsTypeOK /\ Cache!OneComputation /\ Cache!WaitOutlastsHolder /\ Cache!DeletesOwnLock)
<1>1. CacheInv => Cache!CsTypeOK
  BY DEF CacheInv
<1> QED
  BY <1>1, CacheBegins, CacheSteps, CacheCounts, PTL
-----------------------------------------------------------------------------
(* Cron: what a start has cleared, registered and kept.                     *)
Cleaned == {"listJobs", "cleanJobs", "register", "startWorker", "up", "upIdle"}
Clean == {"register", "startWorker", "up", "upIdle"}

CronRequests ==
  /\ request.op # "none" => phase \in {"up", "upIdle"}
  /\ request.op = "none" => request.on = {}
  /\ request.op = "register" => \E s \in Cron!Registered : request.on = {s}
  /\ request.op = "remove" => \A s \in request.on : s.name \in removed

SchedulesClean ==
  /\ repeatables \subseteq jobs /\ repeatables \subseteq kept
  /\ phase = "cleanRepeatables" => \A s \in repeatables : s.name \in Cron!Known \/ s \in todo
  /\ phase \in Cleaned => /\ \A s \in repeatables : s.name \in Cron!Known
                          /\ Cron!Registered \subseteq kept
  /\ phase = "cleanJobs" => /\ \A s \in jobs : s.name \in Cron!Known \/ s \in todo
                            /\ \A s \in todo : s.name \notin Cron!Known
  /\ phase \in Clean => \A s \in jobs : s.name \in Cron!Known

Scheduled ==
  /\ phase = "register" => /\ todo \subseteq Cron!Registered
                           /\ Cron!Registered \subseteq todo \cup repeatables
  /\ phase \in {"startWorker", "up"} => \A s \in Cron!Registered :
       s.name \in removed \/ s \in request.on \/ s \in repeatables

CronInv == Cron!CjTypeOK /\ ~orphanRuns /\ CronRequests /\ SchedulesClean /\ Scheduled

LEMMA CronBegins == Cron!CjInit => CronInv
<1> SUFFICES ASSUME Cron!CjInit PROVE CronInv
  OBVIOUS
<1> DEFINE nobody == [n \in {} |-> CHOOSE p \in Pattern : TRUE]
<1>1. nobody \in [{} -> Pattern] /\ {} \in SUBSET Name
  OBVIOUS
<1>2. registry \in Cron!Code
  BY <1>1 DEF Cron!CjInit, Cron!Code
<1>3. Cron!Cardinality({}) = 0
  BY FS_EmptySet DEF Cron!Cardinality, Cardinality
<1>4. Cron!CjTypeOK
  <2>1. boots \in 0..MaxBoots /\ request.op = "none" /\ request.on = {}
    BY QueuesAssumption DEF Cron!CjInit, Cron!NoRequest
  <2>2. phase \in Cron!Phase /\ active = {} /\ todo = {} /\ repeatables = {} /\ jobs = {}
        /\ removed = {} /\ kept = {} /\ orphanRuns = FALSE
    BY DEF Cron!CjInit, Cron!Phase
  <2> QED
    <3>1. Cron!Cardinality(active) <= 1
      BY <1>3, <2>2
    <3>2. orphanRuns \in BOOLEAN /\ request.op \in {"none", "register", "remove"}
      BY <2>1, <2>2
    <3> QED
      BY <1>2, <2>1, <2>2, <3>1, <3>2 DEF Cron!CjTypeOK
<1> QED
  BY <1>4
  DEF Cron!CjInit, CronInv, CronRequests, SchedulesClean, Scheduled, Cron!NoRequest, Cleaned, Clean

LEMMA CronTypes == Cron!CjTypeOK /\ [Cron!CjNext]_cronVars => Cron!CjTypeOK'
<1> SUFFICES ASSUME Cron!CjTypeOK, [Cron!CjNext]_cronVars PROVE Cron!CjTypeOK'
  OBVIOUS
<1>1. /\ "none" \in {"none", "register", "remove"} /\ {} \subseteq Cron!Schedule
      /\ Cron!NoRequest.op = "none" /\ Cron!NoRequest.on = {}
      /\ Cron!Registered \subseteq Cron!Schedule
  BY DEF Cron!NoRequest, Cron!Registered
<1>2. \A s : Cron!Cardinality({s}) = 1 /\ Cron!Cardinality({}) = 0
  BY FS_EmptySet, FS_Singleton DEF Cron!Cardinality, Cardinality
<1> USE DEF Cron!CjTypeOK, Cron!cronHistory, Cron!queue
<1>3. ASSUME NEW code \in Cron!Code, Cron!Boot(code) PROVE Cron!CjTypeOK'
  BY <1>3, QueuesAssumption DEF Cron!Boot, Cron!Phase
<1>4. CASE Cron!ListRepeatables
  BY <1>4 DEF Cron!ListRepeatables, Cron!Phase
<1>5. CASE Cron!CleanupOrphanRepeatable
  BY <1>1, <1>5 DEF Cron!CleanupOrphanRepeatable, Cron!Phase
<1>6. CASE Cron!ListJobs
  BY <1>6 DEF Cron!ListJobs, Cron!Phase, Cron!OrphanJobs
<1>7. CASE Cron!CleanupOrphanJob
  BY <1>1, <1>7 DEF Cron!CleanupOrphanJob, Cron!Phase
<1>8. CASE Cron!RegisterCronJob
  BY <1>8 DEF Cron!RegisterCronJob, Cron!Phase, Cron!Add
<1>9. CASE Cron!StartCronWorker
  BY <1>9 DEF Cron!StartCronWorker, Cron!Phase
<1>10. ASSUME NEW s \in Cron!Schedule, Cron!RegisterCron(s) PROVE Cron!CjTypeOK'
  <2>1. PICK N \in SUBSET Name : registry \in [N -> Pattern]
    BY DEF Cron!Code
  <2>2. N \cup {s.name} \in SUBSET Name /\ s.pattern \in Pattern
    BY DEF Cron!Schedule
  <2>3. registry' \in [N \cup {s.name} -> Pattern]
    BY <1>10, <2>1, <2>2 DEF Cron!RegisterCron, Cron!Known
  <2>4. registry' \in Cron!Code
    BY <2>2, <2>3 DEF Cron!Code
  <2>5. request'.op = "register" /\ request'.on = {s}
    BY <1>10 DEF Cron!RegisterCron
  <2> QED
    BY <1>10, <2>4, <2>5 DEF Cron!RegisterCron
<1>11. ASSUME NEW n \in Name, Cron!RemoveCron(n) PROVE Cron!CjTypeOK'
  <2>1. PICK s \in repeatables : request' = [op |-> "remove", on |-> {s}]
    BY <1>11 DEF Cron!RemoveCron
  <2>2. request'.op = "remove" /\ request'.on = {s}
    BY <2>1
  <2> QED
    BY <1>11, <2>2 DEF Cron!RemoveCron
<1>12. CASE Cron!FinishRequest
  BY <1>1, <1>12 DEF Cron!FinishRequest, Cron!Add
<1>13. CASE Cron!RunCronJob
  BY <1>2, <1>13 DEF Cron!RunCronJob
<1>14. CASE Cron!CronJobEnds
  BY <1>2, <1>14 DEF Cron!CronJobEnds
<1>15. CASE Cron!Stop
  BY <1>1, <1>2, <1>15 DEF Cron!Stop, Cron!Phase
<1>16. CASE UNCHANGED cronVars
  BY <1>16 DEF cronVars
<1> QED
  BY <1>3, <1>4, <1>5, <1>6, <1>7, <1>8, <1>9, <1>10, <1>11, <1>12, <1>13, <1>14, <1>15, <1>16
  DEF Cron!CjNext

(* The names and schedules of the code change only with the registry.       *)
LEMMA CodeStays ==
  UNCHANGED registry => Cron!Known' = Cron!Known /\ Cron!Registered' = Cron!Registered
BY DEF Cron!Known, Cron!Registered

LEMMA CronBootSteps ==
  ASSUME CronInv,
         \/ Cron!ListRepeatables \/ Cron!CleanupOrphanRepeatable \/ Cron!ListJobs
         \/ Cron!CleanupOrphanJob \/ Cron!RegisterCronJob \/ Cron!StartCronWorker
  PROVE  ~orphanRuns' /\ CronRequests' /\ SchedulesClean' /\ Scheduled'
<1> USE DEF CronInv, Cron!cronHistory, Cron!queue
<1>1. Cron!Known' = Cron!Known /\ Cron!Registered' = Cron!Registered /\ ~orphanRuns'
  BY CodeStays DEF Cron!ListRepeatables, Cron!CleanupOrphanRepeatable, Cron!ListJobs,
    Cron!CleanupOrphanJob, Cron!RegisterCronJob, Cron!StartCronWorker
<1>2. request.op = "none" /\ request.on = {} /\ request' = request /\ removed' = removed
  BY DEF CronRequests, Cron!ListRepeatables, Cron!CleanupOrphanRepeatable, Cron!ListJobs,
    Cron!CleanupOrphanJob, Cron!RegisterCronJob, Cron!StartCronWorker
<1>3. CronRequests'
  BY <1>2 DEF CronRequests
<1>4. \A s \in Cron!Registered : s.name \in Cron!Known
  BY DEF Cron!Registered
<1>5. CASE Cron!ListRepeatables
  <2>1. SchedulesClean'
    BY <1>1, <1>5 DEF Cron!ListRepeatables, SchedulesClean, Cleaned, Clean, Cron!CjTypeOK
  <2>2. Scheduled'
    BY <1>5 DEF Cron!ListRepeatables, Scheduled
  <2> QED
    BY <1>1, <1>3, <2>1, <2>2
<1>6. CASE Cron!CleanupOrphanRepeatable
  <2>1. SchedulesClean'
    BY <1>1, <1>6 DEF Cron!CleanupOrphanRepeatable, SchedulesClean, Cleaned, Clean, Cron!CjTypeOK
  <2>2. Scheduled'
    BY <1>6 DEF Cron!CleanupOrphanRepeatable, Scheduled
  <2> QED
    BY <1>1, <1>3, <2>1, <2>2
<1>7. CASE Cron!ListJobs
  <2>1. SchedulesClean'
    BY <1>1, <1>7 DEF Cron!ListJobs, Cron!OrphanJobs, SchedulesClean, Cleaned, Clean, Cron!CjTypeOK
  <2>2. Scheduled'
    BY <1>7 DEF Cron!ListJobs, Scheduled
  <2> QED
    BY <1>1, <1>3, <2>1, <2>2
<1>8. CASE Cron!CleanupOrphanJob
  <2>1. SchedulesClean'
    BY <1>1, <1>8 DEF Cron!CleanupOrphanJob, SchedulesClean, Cleaned, Clean, Cron!CjTypeOK
  <2>2. Scheduled'
    BY <1>1, <1>8 DEF Cron!CleanupOrphanJob, Scheduled
  <2> QED
    BY <1>1, <1>3, <2>1, <2>2
<1>9. CASE Cron!RegisterCronJob
  <2>1. SchedulesClean'
    BY <1>1, <1>4, <1>9
    DEF Cron!RegisterCronJob, Cron!Add, SchedulesClean, Scheduled, Cleaned, Clean
  <2>2. Scheduled'
    BY <1>1, <1>9 DEF Cron!RegisterCronJob, Cron!Add, Scheduled
  <2> QED
    BY <1>1, <1>3, <2>1, <2>2
<1>10. CASE Cron!StartCronWorker
  <2>1. SchedulesClean'
    BY <1>1, <1>10 DEF Cron!StartCronWorker, SchedulesClean, Cleaned, Clean
  <2>2. Scheduled'
    BY <1>1, <1>2, <1>10 DEF Cron!StartCronWorker, Scheduled
  <2> QED
    BY <1>1, <1>3, <2>1, <2>2
<1> QED
  BY <1>5, <1>6, <1>7, <1>8, <1>9, <1>10
LEMMA CronUpSteps ==
  ASSUME CronInv,
         \/ \E s \in Cron!Schedule : Cron!RegisterCron(s)
         \/ \E n \in Name : Cron!RemoveCron(n)
         \/ Cron!FinishRequest \/ Cron!RunCronJob \/ Cron!CronJobEnds
  PROVE  ~orphanRuns' /\ CronRequests' /\ SchedulesClean' /\ Scheduled'
<1> USE DEF CronInv, Cron!cronHistory, Cron!queue
<1>1. \A s \in Cron!Registered : s.name \in Cron!Known
  BY DEF Cron!Registered
<1>2. Cron!NoRequest.op = "none" /\ Cron!NoRequest.on = {}
  BY DEF Cron!NoRequest
<1>3. ASSUME NEW s \in Cron!Schedule, Cron!RegisterCron(s)
      PROVE  ~orphanRuns' /\ CronRequests' /\ SchedulesClean' /\ Scheduled'
  <2>1. request'.op = "register" /\ request'.on = {s} /\ s.name \notin Cron!Known
    BY <1>3 DEF Cron!RegisterCron
  <2>2. /\ Cron!Known' = Cron!Known \cup {s.name}
        /\ registry'[s.name] = s.pattern
        /\ \A n \in Cron!Known : registry'[n] = registry[n]
    <3>1. registry' = [n \in Cron!Known \cup {s.name} |->
                         IF n = s.name THEN s.pattern ELSE registry[n]]
      BY <1>3 DEF Cron!RegisterCron
    <3>2. Cron!Known' = DOMAIN registry'
      BY DEF Cron!Known
    <3> QED
      BY <2>1, <3>1, <3>2
  <2>3. Cron!Registered' = Cron!Registered \cup {s}
    <3>1. s \in Cron!Registered'
      BY <2>2 DEF Cron!Registered
    <3>2. Cron!Registered \subseteq Cron!Registered'
      BY <2>1, <2>2 DEF Cron!Registered
    <3>3. ASSUME NEW t \in Cron!Registered', t \notin Cron!Registered PROVE t = s
      <4>1. t \in Cron!Schedule /\ t.name \in Cron!Known' /\ registry'[t.name] = t.pattern
        BY <3>3 DEF Cron!Registered
      <4>2. t.name = s.name
        BY <2>2, <3>3, <4>1 DEF Cron!Registered
      <4> QED
        BY <2>2, <4>1, <4>2 DEF Cron!Schedule
    <3> QED
      BY <3>1, <3>2, <3>3
  <2>4. phase \in {"up", "upIdle"} /\ request.op = "none" /\ request.on = {}
    BY <1>3 DEF Cron!RegisterCron, CronRequests, Cron!Up
  <2>5. /\ UNCHANGED <<repeatables, jobs, phase, todo, removed, orphanRuns>>
        /\ kept' = kept \cup {s}
    BY <1>3 DEF Cron!RegisterCron
  <2>6. CronRequests'
    BY <2>1, <2>3, <2>4, <2>5 DEF CronRequests
  <2>7. SchedulesClean'
    BY <2>2, <2>3, <2>4, <2>5 DEF SchedulesClean, Cleaned, Clean
  <2>8. Scheduled'
    BY <2>1, <2>3, <2>4, <2>5 DEF Scheduled
  <2> QED
    BY <2>5, <2>6, <2>7, <2>8
<1>4. ASSUME UNCHANGED <<registry, phase, todo, removed, kept>>, removed = removed'
      PROVE  Cron!Known' = Cron!Known /\ Cron!Registered' = Cron!Registered
  BY <1>4, CodeStays
<1>5. ASSUME NEW n \in Name, Cron!RemoveCron(n)
      PROVE  ~orphanRuns' /\ CronRequests' /\ SchedulesClean' /\ Scheduled'
  <2>1. PICK s \in repeatables : s.name = n /\ request' = [op |-> "remove", on |-> {s}]
    BY <1>5 DEF Cron!RemoveCron
  <2>2. request'.op = "remove" /\ request'.on = {s}
    BY <2>1
  <2>3. /\ UNCHANGED <<repeatables, jobs, phase, todo, kept, orphanRuns>>
        /\ removed' = removed \cup {n} /\ phase \in {"up", "upIdle"} /\ request.op = "none"
        /\ request.on = {}
    BY <1>5 DEF Cron!RemoveCron, Cron!Up, CronRequests
  <2>4. Cron!Known' = Cron!Known /\ Cron!Registered' = Cron!Registered
    BY <1>5, CodeStays DEF Cron!RemoveCron
  <2>5. CronRequests'
    BY <2>1, <2>2, <2>3 DEF CronRequests
  <2>6. SchedulesClean'
    BY <2>3, <2>4 DEF SchedulesClean
  <2>7. Scheduled'
    BY <2>3, <2>4 DEF Scheduled
  <2> QED
    BY <2>3, <2>5, <2>6, <2>7
<1>6. CASE Cron!FinishRequest
  <2>1. PICK s \in request.on :
          IF request.op = "register"
            THEN /\ repeatables' = repeatables \cup {s}
                 /\ jobs' = IF s \in repeatables THEN jobs ELSE jobs \cup {s}
            ELSE repeatables' = repeatables \ {s} /\ UNCHANGED jobs
    BY <1>6 DEF Cron!FinishRequest, Cron!Add
  <2>2. /\ UNCHANGED <<phase, todo, kept, orphanRuns, removed>>
        /\ phase \in {"up", "upIdle"} /\ request'.op = "none" /\ request'.on = {}
        /\ request.op \in {"register", "remove"}
    BY <1>2, <1>6 DEF Cron!FinishRequest, CronRequests, Cron!CjTypeOK
  <2>3. Cron!Known' = Cron!Known /\ Cron!Registered' = Cron!Registered
    BY <1>6, CodeStays DEF Cron!FinishRequest
  <2>4. CronRequests'
    BY <2>2 DEF CronRequests
  <2>5. request.op = "register" => s \in Cron!Registered
    BY DEF CronRequests
  <2>6. SchedulesClean'
    BY <1>1, <2>1, <2>2, <2>3, <2>5 DEF SchedulesClean, Cleaned, Clean
  <2>7. ASSUME phase' \in {"startWorker", "up"}, NEW t \in Cron!Registered
        PROVE  t.name \in removed' \/ t \in repeatables'
    <3>1. phase = "up"
      BY <2>2, <2>7
    <3>2. t.name \in removed \/ t \in request.on \/ t \in repeatables
      BY <3>1 DEF Scheduled
    <3>3. CASE request.op = "remove"
      BY <2>1, <2>2, <3>2, <3>3 DEF CronRequests
    <3>4. CASE request.op = "register"
      <4>1. request.on = {s}
        BY <3>4 DEF CronRequests, Cron!CjTypeOK
      <4> QED
        BY <2>1, <2>2, <3>2, <3>4, <4>1
    <3> QED
      BY <2>2, <3>3, <3>4
  <2>8. Scheduled'
    BY <2>2, <2>3, <2>7 DEF Scheduled
  <2> QED
    BY <2>2, <2>4, <2>6, <2>8
<1>7. CASE Cron!RunCronJob
  <2>1. PICK s \in jobs : /\ active' = {s}
                          /\ jobs' = IF s \in repeatables THEN jobs ELSE jobs \ {s}
                          /\ orphanRuns' = (orphanRuns \/ s.name \notin Cron!Known)
    BY <1>7 DEF Cron!RunCronJob
  <2>2. /\ UNCHANGED <<repeatables, registry, phase, todo, request, removed, kept>>
        /\ phase = "up"
    BY <1>7 DEF Cron!RunCronJob
  <2>3. Cron!Known' = Cron!Known /\ Cron!Registered' = Cron!Registered
    BY <2>2, CodeStays
  <2>4. ~orphanRuns'
    BY <2>1, <2>2 DEF SchedulesClean, Clean
  <2>5. CronRequests'
    BY <2>2, <2>3 DEF CronRequests
  <2>6. SchedulesClean'
    BY <2>1, <2>2, <2>3 DEF SchedulesClean
  <2>7. Scheduled'
    BY <2>2, <2>3 DEF Scheduled
  <2> QED
    BY <2>4, <2>5, <2>6, <2>7
<1>8. CASE Cron!CronJobEnds
  <2>1. Cron!Known' = Cron!Known /\ Cron!Registered' = Cron!Registered
    BY <1>8, CodeStays DEF Cron!CronJobEnds
  <2> QED
    BY <1>8, <2>1 DEF Cron!CronJobEnds, CronRequests, SchedulesClean, Scheduled
<1> QED
  BY <1>3, <1>5, <1>6, <1>7, <1>8
LEMMA CronSteps == CronInv /\ [Cron!CjNext]_cronVars => CronInv'
<1> SUFFICES ASSUME CronInv, [Cron!CjNext]_cronVars PROVE CronInv'
  OBVIOUS
<1>1. Cron!CjTypeOK'
  BY CronTypes DEF CronInv
<1>2. ~orphanRuns' /\ CronRequests' /\ SchedulesClean' /\ Scheduled'
  <2> USE DEF CronInv, Cron!cronHistory, Cron!queue
  <2>1. ASSUME NEW code \in Cron!Code, Cron!Boot(code)
        PROVE  ~orphanRuns' /\ CronRequests' /\ SchedulesClean' /\ Scheduled'
    <3>1. phase = "down" /\ phase' = "listRepeatables"
      BY <2>1 DEF Cron!Boot
    <3>2. UNCHANGED <<repeatables, jobs, request, kept, orphanRuns>>
      BY <2>1 DEF Cron!Boot
    <3> QED
      BY <3>1, <3>2 DEF CronRequests, SchedulesClean, Scheduled, Cleaned, Clean
  <2>2. CASE Cron!Stop
    <3>1. /\ UNCHANGED <<repeatables, kept, orphanRuns>> /\ phase' = "down"
          /\ request'.op = "none" /\ request'.on = {} /\ jobs \subseteq jobs'
      BY <2>2 DEF Cron!Stop, Cron!NoRequest
    <3> QED
      BY <3>1 DEF CronRequests, SchedulesClean, Scheduled, Cleaned, Clean
  <2>3. CASE UNCHANGED cronVars
    <3>1. Cron!Known' = Cron!Known /\ Cron!Registered' = Cron!Registered
      BY <2>3, CodeStays DEF cronVars
    <3> QED
      BY <2>3, <3>1 DEF cronVars, CronRequests, SchedulesClean, Scheduled
  <2> QED
    BY <2>1, <2>2, <2>3, CronBootSteps, CronUpSteps DEF Cron!CjNext
<1> QED
  BY <1>1, <1>2 DEF CronInv

(* The cron queue: no job of a name without a handler is ever run; once     *)
(* started, every cron of the code has its schedule and its next job; and   *)
(* the schedules there are all kept their names since they were made.       *)
THEOREM CronsFollowTheCode ==
  Cron!CjSpec => [](/\ Cron!CjTypeOK /\ Cron!OrphansNeverRun /\ Cron!CronsScheduled
                    /\ Cron!OneScheduleUnlessRepatterned)
<1>1. CronInv => /\ Cron!CjTypeOK /\ Cron!OrphansNeverRun /\ Cron!CronsScheduled
                 /\ Cron!OneScheduleUnlessRepatterned
  BY DEF CronInv, SchedulesClean, Scheduled, Cron!OrphansNeverRun, Cron!CronsScheduled,
    Cron!OneScheduleUnlessRepatterned
<1> QED
  BY <1>1, CronBegins, CronSteps, PTL DEF Cron!CjSpec, Cron!cjVars, cronVars
-----------------------------------------------------------------------------
(* Tasks: what a call that was not raced knows of the job.                  *)
CallsHaveOp ==
  \A c \in Proc : /\ call[c].pc # "idle" => call[c].op # "none"
                  /\ call[c].pc = "remove" => call[c].op \in {"add", "remove"}
                  /\ call[c].pc \in {"updateData", "add"} => call[c].op \in {"add", "update"}
                  /\ call[c].op \in {"add", "update"} => call[c].data \in Tasks!Data

JobHasData == job.state # "none" => job.data \in Tasks!Data

UnracedKnows ==
  \A c \in Proc : ~call[c].raced =>
    /\ call[c].pc = "add" => job.state = "none" \/ call[c].seen = "prioritized"
    /\ call[c].pc = "updateData" /\ call[c].op = "add" => job.state \in {"waiting", "delayed"}
    /\ call[c].pc = "remove" /\ call[c].op = "add" => job.state \in Tasks!Settled

SurelyRuns ==
  want.sure /\ want.data # 0 =>
    want.data \in ran \/ (job.state \in Tasks!Pending /\ job.data = want.data)

TaskInv == Tasks!TqTypeOK /\ CallsHaveOp /\ JobHasData /\ UnracedKnows /\ SurelyRuns

LEMMA TaskValues ==
  /\ 0 \in 0..MaxData /\ 0 \in 0..MaxStops /\ Tasks!NoJob \in Tasks!JobRec
  /\ Tasks!NoJob.state = "none" /\ Tasks!NoCall \in Tasks!CallRec
  /\ Tasks!NoCall.pc = "idle" /\ Tasks!NoCall.op = "none" /\ ~Tasks!NoCall.raced
BY QueuesAssumption
DEF Tasks!NoJob, Tasks!JobRec, Tasks!NoCall, Tasks!CallRec, Tasks!CallPc, Tasks!JobState,
    Tasks!Data

LEMMA TaskBegins == Tasks!TqInit => TaskInv
<1> SUFFICES ASSUME Tasks!TqInit PROVE TaskInv
  OBVIOUS
<1>1. job \in Tasks!JobRec /\ call \in [Proc -> Tasks!CallRec] /\ ran \in SUBSET Tasks!Data
  BY TaskValues DEF Tasks!TqInit
<1>2. want \in [data : Tasks!Data \cup {0}, sure : BOOLEAN] /\ want.data = 0
  BY DEF Tasks!TqInit
<1>3. Tasks!TqTypeOK
  BY <1>1, <1>2, TaskValues DEF Tasks!TqInit, Tasks!TqTypeOK
<1>4. UnracedKnows
  BY TaskValues DEF Tasks!TqInit, UnracedKnows
<1> QED
  BY <1>2, <1>3, <1>4, TaskValues DEF TaskInv, SurelyRuns, CallsHaveOp, JobHasData,
    Tasks!TqInit

(* What the other calls learn of a change: those that act are raced.        *)
LEMMA RaceTells ==
  ASSUME NEW calls \in [Proc -> Tasks!CallRec]
  PROVE  /\ Tasks!Race(calls) \in [Proc -> Tasks!CallRec]
         /\ \A c \in Proc : /\ Tasks!Race(calls)[c].pc = calls[c].pc
                            /\ Tasks!Race(calls)[c].op = calls[c].op
                            /\ Tasks!Race(calls)[c].data = calls[c].data
                            /\ Tasks!Race(calls)[c].pc \in Tasks!Acting =>
                                 Tasks!Race(calls)[c].raced
<1> SUFFICES ASSUME NEW c \in Proc
             PROVE  /\ Tasks!Race(calls)[c] \in Tasks!CallRec
                    /\ Tasks!Race(calls)[c].pc = calls[c].pc
                    /\ Tasks!Race(calls)[c].op = calls[c].op
                    /\ Tasks!Race(calls)[c].data = calls[c].data
                    /\ Tasks!Race(calls)[c].pc \in Tasks!Acting => Tasks!Race(calls)[c].raced
  BY DEF Tasks!Race
<1> DEFINE rec == [calls[c] EXCEPT !.raced = TRUE]
<1>1. rec \in Tasks!CallRec /\ rec.pc = calls[c].pc /\ rec.op = calls[c].op
      /\ rec.data = calls[c].data /\ rec.raced
  BY DEF Tasks!CallRec
<1>2. Tasks!Race(calls)[c] = IF calls[c].pc \in Tasks!Acting THEN rec ELSE calls[c]
  BY DEF Tasks!Race
<1> HIDE DEF rec
<1> QED
  BY <1>1, <1>2

LEMMA RacedKnowsNothing ==
  ASSUME \A c \in Proc : call'[c].pc \in Tasks!Acting => call'[c].raced
  PROVE  UnracedKnows'
BY DEF UnracedKnows, Tasks!Acting

(* What one call alone does to its record. *)
LEMMA EndAndRaceTells ==
  ASSUME Tasks!TqTypeOK, CallsHaveOp, NEW c \in Proc, Tasks!EndAndRace(c)
  PROVE  call' \in [Proc -> Tasks!CallRec] /\ CallsHaveOp' /\ UnracedKnows'
<1> DEFINE calls == [call EXCEPT ![c] = Tasks!NoCall]
<1>1. calls \in [Proc -> Tasks!CallRec] /\ call' = Tasks!Race(calls)
  BY TaskValues DEF Tasks!TqTypeOK, Tasks!EndAndRace
<1>2. \A d \in Proc : /\ calls[d].pc # "idle" => calls[d].op # "none"
                      /\ calls[d].pc = "remove" => calls[d].op \in {"add", "remove"}
                      /\ calls[d].pc \in {"updateData", "add"} => calls[d].op \in {"add", "update"}
                      /\ calls[d].op \in {"add", "update"} => calls[d].data \in Tasks!Data
  BY TaskValues DEF Tasks!TqTypeOK, CallsHaveOp
<1> HIDE DEF calls
<1> QED
  BY <1>1, <1>2, RaceTells, RacedKnowsNothing DEF CallsHaveOp

LEMMA EndsTells ==
  ASSUME TaskInv, NEW c \in Proc, Tasks!Ends(c), UNCHANGED job
  PROVE  call' \in [Proc -> Tasks!CallRec] /\ CallsHaveOp' /\ UnracedKnows'
<1>1. /\ call' \in [Proc -> Tasks!CallRec] /\ call'[c].pc = "idle" /\ call'[c].op = "none"
      /\ \A d \in Proc : d # c => call'[d] = call[d]
  BY TaskValues DEF TaskInv, Tasks!TqTypeOK, Tasks!Ends
<1> QED
  BY <1>1 DEF TaskInv, UnracedKnows, CallsHaveOp

(* Where a call may go that has looked at the job, and changed nothing.     *)
GotoFits(c, pc, look) ==
  /\ pc \in Tasks!CallPc /\ call[c].op # "none"
  /\ pc = "remove" => call[c].op \in {"add", "remove"}
  /\ pc \in {"updateData", "add"} => call[c].op \in {"add", "update"}
  /\ ~call[c].raced =>
       /\ pc = "add" => job.state = "none" \/ look = "prioritized"
       /\ pc = "updateData" /\ call[c].op = "add" => job.state \in {"waiting", "delayed"}
       /\ pc = "remove" /\ call[c].op = "add" => job.state \in Tasks!Settled

LEMMA GotoTells ==
  ASSUME TaskInv, NEW c \in Proc, NEW pc, NEW look, GotoFits(c, pc, look),
         look = call[c].seen \/ look = job.state, UNCHANGED job,
         call' = [call EXCEPT ![c] = [[call[c] EXCEPT !.pc = pc] EXCEPT !.seen = look]]
  PROVE  call' \in [Proc -> Tasks!CallRec] /\ CallsHaveOp' /\ UnracedKnows'
<1> DEFINE rec == [[call[c] EXCEPT !.pc = pc] EXCEPT !.seen = look]
<1>1. call[c] \in Tasks!CallRec /\ job \in Tasks!JobRec
  BY DEF TaskInv, Tasks!TqTypeOK
<1>2. look \in Tasks!JobState
  BY <1>1 DEF Tasks!CallRec, Tasks!JobRec
<1>3. /\ rec \in Tasks!CallRec /\ rec.pc = pc /\ rec.seen = look /\ rec.op = call[c].op
      /\ rec.raced = call[c].raced /\ rec.data = call[c].data
  BY <1>1, <1>2 DEF Tasks!CallRec, GotoFits
<1>4. call' = [call EXCEPT ![c] = rec]
  OBVIOUS
<1> HIDE DEF rec
<1>5. /\ call' \in [Proc -> Tasks!CallRec] /\ call'[c] = rec
      /\ \A d \in Proc : d # c => call'[d] = call[d]
  BY <1>3, <1>4 DEF TaskInv, Tasks!TqTypeOK
<1> QED
  BY <1>3, <1>5 DEF TaskInv, UnracedKnows, CallsHaveOp, GotoFits

LEMMA BeginTells ==
  ASSUME TaskInv, NEW c \in Proc, NEW rec \in Tasks!CallRec, Tasks!Begin(c, rec),
         rec.pc = "getJob", rec.op # "none", drawn' \in 0..MaxData,
         rec.op \in {"add", "update"} => rec.data \in Tasks!Data
  PROVE  TaskInv'
<1> USE DEF TaskInv
<1>1. /\ call' \in [Proc -> Tasks!CallRec] /\ call'[c] = rec
      /\ \A d \in Proc : d # c => call'[d] = call[d]
  BY DEF Tasks!Begin, Tasks!TqTypeOK
<1>2. Tasks!TqTypeOK'
  BY <1>1 DEF Tasks!Begin, Tasks!TqTypeOK
<1>3. UnracedKnows'
  BY <1>1 DEF UnracedKnows, Tasks!Begin
<1>5. CallsHaveOp'
  BY <1>1 DEF CallsHaveOp
<1>4. SurelyRuns'
  BY DEF SurelyRuns, Tasks!Begin
<1>6. JobHasData'
  BY DEF JobHasData, Tasks!Begin
<1> QED
  BY <1>2, <1>3, <1>4, <1>5, <1>6

LEMMA TaskCallsBegin ==
  ASSUME TaskInv, NEW c \in Proc,
         \/ \E priority \in BOOLEAN : Tasks!AddTask(c, priority)
         \/ Tasks!UpdateJobData(c) \/ Tasks!RemoveTask(c) \/ Tasks!RetryTask(c)
  PROVE  TaskInv'
<1>1. /\ drawn \in 0..MaxData /\ MaxData \in Nat
      /\ drawn < MaxData => drawn + 1 \in 0..MaxData /\ drawn + 1 \in Tasks!Data
  BY QueuesAssumption DEF TaskInv, Tasks!TqTypeOK, Tasks!Data
<1>2. ASSUME NEW priority \in BOOLEAN, Tasks!AddTask(c, priority) PROVE TaskInv'
  <2> DEFINE rec == [Tasks!NoCall EXCEPT !.pc = "getJob", !.op = "add", !.data = drawn + 1,
                                         !.priority = priority]
  <2>1. drawn < MaxData /\ drawn' = drawn + 1 /\ Tasks!Begin(c, rec)
    BY <1>2 DEF Tasks!AddTask
  <2>2. rec \in Tasks!CallRec /\ rec.pc = "getJob" /\ rec.op = "add" /\ rec.data = drawn + 1
    BY <1>1, <2>1 DEF Tasks!NoCall, Tasks!CallRec, Tasks!CallPc, Tasks!JobState
  <2> QED
    BY <1>1, <2>1, <2>2, BeginTells
<1>3. CASE Tasks!UpdateJobData(c)
  <2> DEFINE rec == [Tasks!NoCall EXCEPT !.pc = "getJob", !.op = "update", !.data = drawn + 1]
  <2>1. drawn < MaxData /\ drawn' = drawn + 1 /\ Tasks!Begin(c, rec)
    BY <1>3 DEF Tasks!UpdateJobData
  <2>2. rec \in Tasks!CallRec /\ rec.pc = "getJob" /\ rec.op = "update" /\ rec.data = drawn + 1
    BY <1>1, <2>1 DEF Tasks!NoCall, Tasks!CallRec, Tasks!CallPc, Tasks!JobState
  <2> QED
    BY <1>1, <2>1, <2>2, BeginTells
<1>4. ASSUME NEW o \in {"remove", "retry"},
             Tasks!Begin(c, [Tasks!NoCall EXCEPT !.pc = "getJob", !.op = o]), drawn' = drawn
      PROVE  TaskInv'
  <2> DEFINE rec == [Tasks!NoCall EXCEPT !.pc = "getJob", !.op = o]
  <2>1. rec \in Tasks!CallRec /\ rec.pc = "getJob" /\ rec.op = o
    BY DEF Tasks!NoCall, Tasks!CallRec, Tasks!CallPc, Tasks!JobState
  <2>2. Tasks!Begin(c, rec) /\ drawn' \in 0..MaxData
    BY <1>1, <1>4
  <2> HIDE DEF rec
  <2> QED
    BY <2>1, <2>2, BeginTells
<1>5. CASE Tasks!RemoveTask(c)
  BY <1>4, <1>5 DEF Tasks!RemoveTask
<1>6. CASE Tasks!RetryTask(c)
  BY <1>4, <1>6 DEF Tasks!RetryTask
<1> QED
  BY <1>2, <1>3, <1>5, <1>6

LEMMA TaskLooks ==
  ASSUME TaskInv, NEW c \in Proc, Tasks!GetJob(c) \/ Tasks!GetState(c)
  PROVE  TaskInv'
<1> USE DEF TaskInv
<1>1. call[c] \in Tasks!CallRec /\ job \in Tasks!JobRec
  BY DEF Tasks!TqTypeOK
<1>2. UNCHANGED <<job, worker, handled, drawn, stops, ran, want>>
  BY DEF Tasks!GetJob, Tasks!GetState, Tasks!queueHistory
<1>3. ASSUME NEW pc
      PROVE  Tasks!Goto(c, pc) =>
               call' = [call EXCEPT ![c] = [[call[c] EXCEPT !.pc = pc] EXCEPT
                                              !.seen = call[c].seen]]
  <2>1. [[call[c] EXCEPT !.pc = pc] EXCEPT !.seen = call[c].seen] = [call[c] EXCEPT !.pc = pc]
    BY <1>1 DEF Tasks!CallRec
  <2> QED
    BY <2>1 DEF Tasks!Goto, Tasks!TqTypeOK
<1>4. CASE Tasks!GetJob(c)
  <2>1. call[c].op \in {"add", "remove", "retry", "update"}
    BY <1>1, <1>4 DEF Tasks!GetJob, CallsHaveOp, Tasks!CallRec
  <2>2. \/ Tasks!Ends(c)
        \/ job.state = "none" /\ call[c].op = "add" /\ Tasks!Goto(c, "add")
        \/ Tasks!Goto(c, "getState")
        \/ call[c].op = "remove" /\ Tasks!Goto(c, "remove")
        \/ call[c].op = "update" /\ Tasks!Goto(c, "updateData")
    BY <1>4, <2>1 DEF Tasks!GetJob
  <2>3. {"add", "getState", "remove", "updateData"} \subseteq Tasks!CallPc
    BY DEF Tasks!CallPc
  <2>4. call' \in [Proc -> Tasks!CallRec] /\ CallsHaveOp' /\ UnracedKnows'
    <3>1. CASE Tasks!Ends(c)
      BY <1>2, <3>1, EndsTells
    <3>2. CASE job.state = "none" /\ call[c].op = "add" /\ Tasks!Goto(c, "add")
      <4>1. GotoFits(c, "add", call[c].seen)
        BY <2>1, <2>3, <3>2 DEF GotoFits
      <4> QED
        BY <1>2, <1>3, <3>2, <4>1, GotoTells
    <3>3. CASE Tasks!Goto(c, "getState")
      <4>1. GotoFits(c, "getState", call[c].seen)
        BY <2>1, <2>3, <3>3 DEF GotoFits
      <4> QED
        BY <1>2, <1>3, <3>3, <4>1, GotoTells
    <3>4. CASE call[c].op = "remove" /\ Tasks!Goto(c, "remove")
      <4>1. GotoFits(c, "remove", call[c].seen)
        BY <2>1, <2>3, <3>4 DEF GotoFits
      <4> QED
        BY <1>2, <1>3, <3>4, <4>1, GotoTells
    <3>5. CASE call[c].op = "update" /\ Tasks!Goto(c, "updateData")
      <4>1. GotoFits(c, "updateData", call[c].seen)
        BY <2>1, <2>3, <3>5 DEF GotoFits
      <4> QED
        BY <1>2, <1>3, <3>5, <4>1, GotoTells
    <3> QED
      BY <2>2, <3>1, <3>2, <3>3, <3>4, <3>5
  <2> QED
    BY <1>2, <2>4 DEF Tasks!TqTypeOK, SurelyRuns, JobHasData
<1>5. CASE Tasks!GetState(c)
  <2>1. call[c].op # "none"
    BY <1>5 DEF Tasks!GetState, CallsHaveOp
  <2> DEFINE Took(pc) == call' = [call EXCEPT ![c] = [[call[c] EXCEPT !.pc = pc] EXCEPT
                                                       !.seen = job.state]]
  <2>2. job.state \in {"none"} \cup Tasks!Running \cup Tasks!Pending \cup Tasks!Settled
    BY <1>1 DEF Tasks!JobRec, Tasks!JobState
  <2>3. \A pc : (call' = [call EXCEPT ![c].pc = pc, ![c].seen = job.state]) => Took(pc)
    BY DEF Tasks!TqTypeOK
  <2> HIDE DEF Took
  <2>4. \/ Tasks!Ends(c)
        \/ call[c].op # "add" /\ Took("retry")
        \/ job.state \in {"waiting", "delayed"} /\ call[c].op = "add" /\ Took("updateData")
        \/ job.state \in Tasks!Settled /\ call[c].op = "add" /\ Took("remove")
        \/ (job.state = "none" \/ job.state = "prioritized") /\ call[c].op = "add" /\ Took("add")
    <3>1. CASE call[c].op # "add"
      BY <1>5, <2>3, <3>1 DEF Tasks!GetState
    <3>2. CASE call[c].op = "add"
      <4>1. \/ Tasks!AfterState(job.state) = "idle"
            \/ job.state \in {"waiting", "delayed"} /\ Tasks!AfterState(job.state) = "updateData"
            \/ job.state \in Tasks!Settled /\ Tasks!AfterState(job.state) = "remove"
            \/ /\ job.state = "none" \/ job.state = "prioritized"
               /\ Tasks!AfterState(job.state) = "add"
        BY <2>2 DEF Tasks!AfterState, Tasks!Running, Tasks!Pending, Tasks!Settled
      <4> QED
        BY <1>5, <2>3, <3>2, <4>1 DEF Tasks!GetState
    <3> QED
      BY <3>1, <3>2
  <2>5. {"retry", "updateData", "remove", "add"} \subseteq Tasks!CallPc
    BY DEF Tasks!CallPc
  <2>6. call' \in [Proc -> Tasks!CallRec] /\ CallsHaveOp' /\ UnracedKnows'
    <3>1. CASE Tasks!Ends(c)
      BY <1>2, <3>1, EndsTells
    <3>2. CASE call[c].op # "add" /\ Took("retry")
      <4>1. GotoFits(c, "retry", job.state)
        BY <2>1, <2>5, <3>2 DEF GotoFits
      <4> QED
        BY <1>2, <3>2, <4>1, GotoTells DEF Took
    <3>3. CASE job.state \in {"waiting", "delayed"} /\ call[c].op = "add" /\ Took("updateData")
      <4>1. GotoFits(c, "updateData", job.state)
        BY <2>1, <2>5, <3>3 DEF GotoFits
      <4> QED
        BY <1>2, <3>3, <4>1, GotoTells DEF Took
    <3>4. CASE job.state \in Tasks!Settled /\ call[c].op = "add" /\ Took("remove")
      <4>1. GotoFits(c, "remove", job.state)
        BY <2>1, <2>5, <3>4 DEF GotoFits
      <4> QED
        BY <1>2, <3>4, <4>1, GotoTells DEF Took
    <3>5. CASE (job.state = "none" \/ job.state = "prioritized") /\ call[c].op = "add" /\ Took("add")
      <4>1. GotoFits(c, "add", job.state)
        BY <2>1, <2>5, <3>5 DEF GotoFits
      <4> QED
        BY <1>2, <3>5, <4>1, GotoTells DEF Took
    <3> QED
      BY <2>4, <3>1, <3>2, <3>3, <3>4, <3>5
  <2> QED
    BY <1>2, <2>6 DEF Tasks!TqTypeOK, SurelyRuns, JobHasData
<1> QED
  BY <1>4, <1>5
(* A change of the job, of its state or of its data. *)
LEMMA JobChanges ==
  ASSUME job \in Tasks!JobRec, NEW state \in Tasks!JobState, NEW d \in Tasks!Data \cup {0}
  PROVE  /\ [job EXCEPT !.state = state] \in Tasks!JobRec
         /\ [job EXCEPT !.state = state].state = state
         /\ [job EXCEPT !.state = state].data = job.data
         /\ [job EXCEPT !.data = d] \in Tasks!JobRec
         /\ [job EXCEPT !.data = d].state = job.state
         /\ [job EXCEPT !.data = d].data = d
BY DEF Tasks!JobRec

LEMMA JobStates ==
  /\ Tasks!Running = {"active", "abandoned"} /\ Tasks!Settled = {"completed", "failed"}
  /\ Tasks!Pending = {"waiting", "delayed", "prioritized"}
  /\ Tasks!JobState = {"none", "active", "abandoned", "waiting", "delayed", "prioritized",
                       "completed", "failed"}
  /\ Tasks!Acting = {"updateData", "remove", "add", "retry"}
BY DEF Tasks!Running, Tasks!Settled, Tasks!Pending, Tasks!JobState, Tasks!Acting

LEMMA WantTells ==
  ASSUME NEW c \in Proc, Tasks!TqTypeOK, NEW sure \in BOOLEAN
  PROVE  /\ Tasks!Answered(c, sure) =>
              /\ want' \in [data : Tasks!Data \cup {0}, sure : BOOLEAN]
              /\ want'.data = call[c].data /\ (want'.sure <=> (sure /\ ~call[c].raced))
         /\ [want EXCEPT !.sure = sure] \in [data : Tasks!Data \cup {0}, sure : BOOLEAN]
         /\ [want EXCEPT !.sure = sure].data = want.data
         /\ [want EXCEPT !.sure = sure].sure <=> sure
<1>1. call[c] \in Tasks!CallRec /\ want \in [data : Tasks!Data \cup {0}, sure : BOOLEAN]
  BY DEF Tasks!TqTypeOK
<1>2. call[c].data \in Tasks!Data \cup {0} /\ call[c].raced \in BOOLEAN
  BY <1>1 DEF Tasks!CallRec
<1>3. Tasks!Answered(c, sure) =>
        /\ want' \in [data : Tasks!Data \cup {0}, sure : BOOLEAN]
        /\ want'.data = call[c].data /\ (want'.sure <=> (sure /\ ~call[c].raced))
  <2> SUFFICES ASSUME want' = [data |-> call[c].data, sure |-> sure /\ ~call[c].raced]
               PROVE  /\ want' \in [data : Tasks!Data \cup {0}, sure : BOOLEAN]
                      /\ want'.data = call[c].data /\ (want'.sure <=> (sure /\ ~call[c].raced))
    BY DEF Tasks!Answered
  <2>1. (sure /\ ~call[c].raced) \in BOOLEAN
    OBVIOUS
  <2> QED
    BY <1>2, <2>1
<1>4. /\ [want EXCEPT !.sure = sure] \in [data : Tasks!Data \cup {0}, sure : BOOLEAN]
      /\ [want EXCEPT !.sure = sure].data = want.data
      /\ [want EXCEPT !.sure = sure].sure <=> sure
  BY <1>1
<1> QED
  BY <1>3, <1>4

LEMMA TaskUpdates ==
  ASSUME TaskInv, NEW c \in Proc, Tasks!UpdateData(c)
  PROVE  TaskInv'
<1> USE DEF TaskInv
<1>1. /\ call[c] \in Tasks!CallRec /\ job \in Tasks!JobRec
      /\ call[c].data \in Tasks!Data \cup {0} /\ call[c].raced \in BOOLEAN
  BY DEF Tasks!TqTypeOK, Tasks!CallRec
<1>2. UNCHANGED <<worker, handled, drawn, stops, ran>> /\ call[c].pc = "updateData"
  BY DEF Tasks!UpdateData, Tasks!queueHistory
<1>5. call[c].data \in Tasks!Data
  BY <1>2 DEF CallsHaveOp
<1>3. CASE job.state = "none"
  <2>1. Tasks!Ends(c) /\ UNCHANGED <<job, want>>
    BY <1>3 DEF Tasks!UpdateData
  <2> QED
    BY <1>2, <2>1, EndsTells DEF Tasks!TqTypeOK, SurelyRuns, JobHasData
<1>4. CASE job.state # "none"
  <2>1. /\ job' \in Tasks!JobRec /\ job'.state = job.state /\ job'.data = call[c].data
        /\ Tasks!EndAndRace(c)
    <3>1. job' = [job EXCEPT !.data = call[c].data] /\ Tasks!EndAndRace(c)
      BY <1>4 DEF Tasks!UpdateData
    <3>2. job.state \in Tasks!JobState
      BY <1>1 DEF Tasks!JobRec
    <3> QED
      BY <1>1, <3>1, <3>2, JobChanges
  <2>2. call' \in [Proc -> Tasks!CallRec] /\ CallsHaveOp' /\ UnracedKnows'
    BY <2>1, EndAndRaceTells
  <2>3. CASE call[c].op = "add"
    <3>1. Tasks!Answered(c, TRUE)
      BY <1>4, <2>3 DEF Tasks!UpdateData
    <3>2. want' \in [data : Tasks!Data \cup {0}, sure : BOOLEAN] /\ want'.data = call[c].data
          /\ (want'.sure <=> ~call[c].raced)
      BY <3>1, WantTells
    <3>3. want'.sure => job.state \in Tasks!Pending
      BY <1>2, <2>3, <3>2, JobStates DEF UnracedKnows
    <3> QED
      BY <1>2, <1>5, <2>1, <2>2, <3>2, <3>3 DEF Tasks!TqTypeOK, SurelyRuns, JobHasData
  <2>4. CASE call[c].op # "add"
    <3>1. want' = [want EXCEPT !.sure = FALSE]
      BY <1>4, <2>4 DEF Tasks!UpdateData
    <3>2. want' \in [data : Tasks!Data \cup {0}, sure : BOOLEAN] /\ ~want'.sure
      BY <3>1, WantTells
    <3> QED
      BY <1>2, <1>5, <2>1, <2>2, <3>2 DEF Tasks!TqTypeOK, SurelyRuns, JobHasData
  <2> QED
    BY <2>3, <2>4
<1> QED
  BY <1>3, <1>4

LEMMA TaskAdds ==
  ASSUME TaskInv, NEW c \in Proc, Tasks!Add(c)
  PROVE  TaskInv'
<1> USE DEF TaskInv
<1> DEFINE sure == (call[c].seen # "prioritized")
<1>1. /\ call[c] \in Tasks!CallRec /\ job \in Tasks!JobRec
      /\ call[c].data \in Tasks!Data \cup {0} /\ call[c].raced \in BOOLEAN
  BY DEF Tasks!TqTypeOK, Tasks!CallRec
<1>2. UNCHANGED <<worker, handled, drawn, stops, ran>> /\ call[c].pc = "add"
  BY DEF Tasks!Add, Tasks!queueHistory
<1>7. call[c].data \in Tasks!Data
  BY <1>2 DEF CallsHaveOp
<1>3. /\ want' \in [data : Tasks!Data \cup {0}, sure : BOOLEAN] /\ want'.data = call[c].data
      /\ (want'.sure <=> (sure /\ ~call[c].raced))
  BY WantTells DEF Tasks!Add
<1>4. want'.sure => job.state = "none"
  BY <1>2, <1>3 DEF UnracedKnows
<1>5. CASE job.state = "none"
  <2>1. PICK state \in {"waiting", "delayed"} :
          job' = [Tasks!NoJob EXCEPT !.data = call[c].data,
                    !.state = IF call[c].priority THEN "prioritized" ELSE state]
    BY <1>5 DEF Tasks!Add
  <2>2. job' \in Tasks!JobRec /\ job'.state \in Tasks!Pending /\ job'.data = call[c].data
    <3>1. Tasks!NoJob \in Tasks!JobRec
      BY TaskValues
    <3>2. (IF call[c].priority THEN "prioritized" ELSE state) \in
             Tasks!JobState \cap Tasks!Pending
      BY JobStates
    <3> QED
      BY <1>1, <2>1, <3>1, <3>2 DEF Tasks!JobRec
  <2>3. call' \in [Proc -> Tasks!CallRec] /\ CallsHaveOp' /\ UnracedKnows'
    BY <1>5, EndAndRaceTells DEF Tasks!Add
  <2> QED
    BY <1>2, <1>3, <1>7, <2>2, <2>3 DEF Tasks!TqTypeOK, SurelyRuns, JobHasData
<1>6. CASE job.state # "none"
  <2>1. Tasks!Ends(c) /\ UNCHANGED job
    BY <1>6 DEF Tasks!Add
  <2> QED
    BY <1>2, <1>3, <1>4, <1>6, <2>1, EndsTells DEF Tasks!TqTypeOK, SurelyRuns, JobHasData
<1> QED
  BY <1>5, <1>6

LEMMA TaskRetries ==
  ASSUME TaskInv, NEW c \in Proc, Tasks!Retry(c)
  PROVE  TaskInv'
<1> USE DEF TaskInv
<1>1. UNCHANGED <<worker, handled, drawn, stops, ran, want>> /\ job \in Tasks!JobRec
  BY DEF Tasks!Retry, Tasks!queueHistory, Tasks!TqTypeOK
<1>2. CASE job.state = "failed"
  <2>1. job' = [job EXCEPT !.state = "waiting"] /\ Tasks!EndAndRace(c)
    BY <1>2 DEF Tasks!Retry
  <2>2. job' \in Tasks!JobRec /\ job'.data = job.data /\ job'.state = "waiting"
    BY <1>1, <2>1 DEF Tasks!JobRec, Tasks!JobState, Tasks!Pending
  <2>3. call' \in [Proc -> Tasks!CallRec] /\ CallsHaveOp' /\ UnracedKnows'
    BY <2>1, EndAndRaceTells
  <2> QED
    BY <1>1, <1>2, <2>2, <2>3, JobStates DEF Tasks!TqTypeOK, SurelyRuns, JobHasData
<1>3. CASE job.state # "failed"
  <2>1. Tasks!Ends(c) /\ UNCHANGED job
    BY <1>3 DEF Tasks!Retry
  <2> QED
    BY <1>1, <2>1, EndsTells DEF Tasks!TqTypeOK, SurelyRuns, JobHasData
<1> QED
  BY <1>2, <1>3
LEMMA TaskRemoves ==
  ASSUME TaskInv, NEW c \in Proc, Tasks!Remove(c)
  PROVE  TaskInv'
<1> USE DEF TaskInv
<1>1. /\ UNCHANGED <<worker, handled, drawn, stops, ran>> /\ call[c] \in Tasks!CallRec
      /\ call[c].raced \in BOOLEAN /\ call[c].pc = "remove"
      /\ want \in [data : Tasks!Data \cup {0}, sure : BOOLEAN]
  BY DEF Tasks!Remove, Tasks!queueHistory, Tasks!TqTypeOK, Tasks!CallRec
<1>2. CASE Tasks!Ends(c) /\ UNCHANGED <<job, want>>
  BY <1>1, <1>2, EndsTells DEF Tasks!TqTypeOK, SurelyRuns, JobHasData
<1>3. CASE job' = Tasks!NoJob /\ call[c].op = "remove"
  <2>1. want' = [data |-> 0, sure |-> TRUE] /\ Tasks!EndAndRace(c)
    <3>1. ~(job'.state = job.state /\ job.state \in Tasks!Running)
      BY <1>3, TaskValues, JobStates
    <3> QED
      BY <1>3, <3>1 DEF Tasks!Remove
  <2>2. want' \in [data : Tasks!Data \cup {0}, sure : BOOLEAN] /\ want'.data = 0
    BY <2>1
  <2>3. call' \in [Proc -> Tasks!CallRec] /\ CallsHaveOp' /\ UnracedKnows'
    BY <2>1, EndAndRaceTells
  <2> QED
    BY <1>1, <1>3, <2>2, <2>3, TaskValues DEF Tasks!TqTypeOK, SurelyRuns, JobHasData
<1>4. CASE job' = Tasks!NoJob /\ call[c].op # "remove"
  <2> DEFINE sure == (want.sure /\ ~call[c].raced)
  <2>1. /\ want' = [want EXCEPT !.sure = sure]
        /\ call' = [Tasks!Race(call) EXCEPT ![c] = [call[c] EXCEPT !.pc = "add"]]
    <3>1. ~(job'.state = job.state /\ job.state \in Tasks!Running)
      BY <1>4, TaskValues, JobStates
    <3> QED
      BY <1>4, <3>1 DEF Tasks!Remove
  <2>2. sure \in BOOLEAN
    OBVIOUS
  <2> HIDE DEF sure
  <2>3. /\ want' \in [data : Tasks!Data \cup {0}, sure : BOOLEAN] /\ want'.data = want.data
        /\ want'.sure <=> sure
    BY <2>1, <2>2, WantTells
  <2>4. call[c].op = "add"
    BY <1>1, <1>4 DEF CallsHaveOp
  <2>5. sure => want.sure /\ job.state \in Tasks!Settled
    BY <1>1, <2>4 DEF sure, UnracedKnows
  <2>6. SurelyRuns'
    BY <1>1, <2>3, <2>5, JobStates DEF SurelyRuns
  <2>7. [call[c] EXCEPT !.pc = "add"] \in Tasks!CallRec /\ [call[c] EXCEPT !.pc = "add"].pc = "add"
        /\ [call[c] EXCEPT !.pc = "add"].op = "add"
        /\ [call[c] EXCEPT !.pc = "add"].data = call[c].data
    BY <1>1, <2>4 DEF Tasks!CallRec, Tasks!CallPc
  <2>8. /\ Tasks!Race(call) \in [Proc -> Tasks!CallRec]
        /\ \A d \in Proc : /\ Tasks!Race(call)[d].pc = call[d].pc
                           /\ Tasks!Race(call)[d].op = call[d].op
                           /\ Tasks!Race(call)[d].data = call[d].data
                           /\ Tasks!Race(call)[d].pc \in Tasks!Acting => Tasks!Race(call)[d].raced
    BY RaceTells DEF Tasks!TqTypeOK
  <2>9. /\ call' \in [Proc -> Tasks!CallRec] /\ call'[c].pc = "add" /\ call'[c].op = "add"
        /\ call'[c].data = call[c].data
        /\ \A d \in Proc : d # c => call'[d] = Tasks!Race(call)[d]
    BY <2>1, <2>7, <2>8
  <2>10. CallsHaveOp'
    BY <2>4, <2>8, <2>9 DEF CallsHaveOp
  <2>11. UnracedKnows'
    BY <1>4, <2>8, <2>9, TaskValues, JobStates DEF UnracedKnows
  <2> QED
    BY <1>1, <1>4, <2>3, <2>6, <2>9, <2>10, <2>11, TaskValues DEF Tasks!TqTypeOK, JobHasData
<1> QED
  BY <1>2, <1>3, <1>4 DEF Tasks!Remove

LEMMA JobMoves ==
  ASSUME TaskInv, job' \in Tasks!JobRec, call' = Tasks!Race(call),
         UNCHANGED <<worker, handled, drawn, stops>>, ran' \in SUBSET Tasks!Data, ran \subseteq ran',
         want' \in [data : Tasks!Data \cup {0}, sure : BOOLEAN],
         want'.data = want.data, want'.sure => want.sure,
         job'.state # "none" => job.state # "none" /\ job'.data = job.data,
         want'.sure /\ job.state \in Tasks!Pending /\ want.data # 0 /\ job.data = want.data =>
           want.data \in ran' \/ (job'.state \in Tasks!Pending /\ job'.data = job.data)
  PROVE  TaskInv'
<1>1. call' \in [Proc -> Tasks!CallRec] /\ CallsHaveOp' /\ UnracedKnows'
  BY RaceTells, RacedKnowsNothing DEF TaskInv, Tasks!TqTypeOK, CallsHaveOp
<1>2. SurelyRuns'
  BY DEF TaskInv, SurelyRuns
<1> QED
  BY <1>1, <1>2 DEF TaskInv, Tasks!TqTypeOK, JobHasData

LEMMA TaskQueueSteps ==
  ASSUME TaskInv,
         \/ Tasks!TakeJob \/ Tasks!JobCompletes \/ Tasks!JobFails \/ Tasks!DelayEnds
         \/ Tasks!JobStalled \/ Tasks!SettledExpires
  PROVE  TaskInv'
<1>1. /\ job \in Tasks!JobRec /\ job.state \in Tasks!JobState
      /\ want \in [data : Tasks!Data \cup {0}, sure : BOOLEAN] /\ ran \in SUBSET Tasks!Data
  BY DEF TaskInv, Tasks!TqTypeOK, Tasks!JobRec
<1>2. /\ [want EXCEPT !.sure = FALSE] \in [data : Tasks!Data \cup {0}, sure : BOOLEAN]
      /\ [want EXCEPT !.sure = FALSE].data = want.data /\ ~[want EXCEPT !.sure = FALSE].sure
  BY <1>1
<1>3. ASSUME NEW state \in Tasks!JobState, Tasks!Changes(state)
      PROVE  /\ job' \in Tasks!JobRec /\ job'.state = state /\ job'.data = job.data
             /\ call' = Tasks!Race(call)
  <2>1. job' = [job EXCEPT !.state = state] /\ call' = Tasks!Race(call)
    BY <1>3 DEF Tasks!Changes
  <2> QED
    BY <1>1, <2>1 DEF Tasks!JobRec
<1>4. {"active", "completed", "failed", "waiting", "delayed"} \subseteq Tasks!JobState
  BY JobStates
<1>5. CASE Tasks!TakeJob
  <2>1. /\ job' \in Tasks!JobRec /\ call' = Tasks!Race(call) /\ job'.data = job.data
        /\ UNCHANGED <<worker, handled, drawn, stops>> /\ job.state # "none"
    BY <1>3, <1>4, <1>5, JobStates DEF Tasks!TakeJob
  <2>2. CASE handled
    <3>1. ran' = ran \cup {job.data} /\ want' = want
      BY <1>5, <2>2 DEF Tasks!TakeJob
    <3>2. job.data \in Tasks!Data
      BY <2>1 DEF TaskInv, JobHasData
    <3> QED
      BY <1>1, <2>1, <3>1, <3>2, JobMoves
  <2>3. CASE ~handled
    <3>1. want' = [want EXCEPT !.sure = FALSE] /\ ran' = ran
      BY <1>5, <2>3 DEF Tasks!TakeJob
    <3>2. want' \in [data : Tasks!Data \cup {0}, sure : BOOLEAN] /\ want'.data = want.data
          /\ ~want'.sure
      BY <1>2, <3>1
    <3> QED
      BY <1>1, <2>1, <3>1, <3>2, JobMoves
  <2> QED
    BY <2>2, <2>3
<1> USE DEF Tasks!queueHistory
<1>6. CASE Tasks!JobCompletes
  BY <1>1, <1>3, <1>4, <1>6, JobMoves, JobStates DEF Tasks!JobCompletes
<1>7. CASE Tasks!JobFails
  <2> DEFINE failures == IF job.failures < Attempts THEN job.failures + 1 ELSE Attempts
             state == IF failures = Attempts THEN "failed" ELSE "delayed"
  <2>1. failures \in 0..Attempts /\ state \in Tasks!JobState
    BY <1>1, <1>4, QueuesAssumption DEF Tasks!JobRec
  <2>2. job' = [[job EXCEPT !.failures = failures] EXCEPT !.state = state]
    BY <1>1, <1>7 DEF Tasks!JobFails
  <2> HIDE DEF failures, state
  <2>3. job' \in Tasks!JobRec /\ job'.data = job.data /\ job.state = "active"
    BY <1>1, <1>7, <2>1, <2>2 DEF Tasks!JobFails, Tasks!JobRec
  <2> QED
    BY <1>1, <1>7, <2>3, JobMoves, JobStates DEF Tasks!JobFails
<1>8. CASE Tasks!DelayEnds
  BY <1>1, <1>3, <1>4, <1>8, JobMoves, JobStates DEF Tasks!DelayEnds
<1>9. CASE Tasks!JobStalled
  <2>1. job' \in Tasks!JobRec /\ job'.data = job.data /\ job.state = "abandoned"
    <3>1. [[job EXCEPT !.state = "waiting"] EXCEPT !.stalls = 1] \in Tasks!JobRec
      <4>1. [job EXCEPT !.state = "waiting"] \in Tasks!JobRec /\ 1 \in 0..1
        BY <1>1, <1>4 DEF Tasks!JobRec
      <4> QED
        BY <4>1 DEF Tasks!JobRec
    <3>2. [job EXCEPT !.state = "failed"] \in Tasks!JobRec
      BY <1>1, <1>4 DEF Tasks!JobRec
    <3>3. job' = IF job.stalls = 0 THEN [[job EXCEPT !.state = "waiting"] EXCEPT !.stalls = 1]
                 ELSE [job EXCEPT !.state = "failed"]
      BY <1>9 DEF Tasks!JobStalled
    <3> QED
      BY <1>1, <1>9, <3>1, <3>2, <3>3 DEF Tasks!JobStalled, Tasks!JobRec
  <2> QED
    BY <1>1, <1>9, <2>1, JobMoves, JobStates DEF Tasks!JobStalled
<1>10. CASE Tasks!SettledExpires
  BY <1>1, <1>10, JobMoves, JobStates, TaskValues DEF Tasks!SettledExpires
<1> QED
  BY <1>5, <1>6, <1>7, <1>8, <1>9, <1>10
LEMMA WorkerChanges ==
  ASSUME TaskInv,
         \/ Tasks!CloseWorkers \/ Tasks!WorkersClosed \/ Tasks!Crash \/ Tasks!StartWorker
         \/ UNCHANGED taskVars
  PROVE  TaskInv'
<1> USE DEF TaskInv, Tasks!queueHistory
<1>1. job \in Tasks!JobRec /\ stops \in 0..MaxStops /\ MaxStops \in Nat
  BY QueuesAssumption DEF Tasks!TqTypeOK
<1>2. CASE Tasks!CloseWorkers
  BY <1>1, <1>2 DEF Tasks!CloseWorkers, Tasks!TqTypeOK, CallsHaveOp, JobHasData, UnracedKnows,
    SurelyRuns
<1>3. CASE Tasks!WorkersClosed
  BY <1>3 DEF Tasks!WorkersClosed, Tasks!TqTypeOK, CallsHaveOp, JobHasData, UnracedKnows,
    SurelyRuns
<1>4. CASE Tasks!StartWorker
  BY <1>4 DEF Tasks!StartWorker, Tasks!DiscoverTaskHandlers, Tasks!TqTypeOK, CallsHaveOp,
    JobHasData, UnracedKnows, SurelyRuns
<1>5. CASE UNCHANGED taskVars
  BY <1>5 DEF taskVars, Tasks!TqTypeOK, CallsHaveOp, JobHasData, UnracedKnows, SurelyRuns
<1>6. CASE Tasks!Crash
  <2>1. /\ call' = [c \in Proc |-> Tasks!NoCall] /\ stops' = stops + 1 /\ stops < MaxStops
        /\ worker' = "closed" /\ UNCHANGED <<handled, drawn, ran, want>>
        /\ job' = IF job.state = "active" THEN [job EXCEPT !.state = "abandoned"] ELSE job
    BY <1>6 DEF Tasks!Crash
  <2>2. /\ job' \in Tasks!JobRec /\ job'.data = job.data
        /\ job.state = "active" => job'.state = "abandoned"
        /\ job.state # "active" => job'.state = job.state
    BY <1>1, <2>1, JobStates DEF Tasks!JobRec
  <2>3. call' \in [Proc -> Tasks!CallRec] /\ CallsHaveOp' /\ UnracedKnows'
    BY <2>1, TaskValues DEF CallsHaveOp, UnracedKnows
  <2>4. JobHasData' /\ SurelyRuns'
    BY <2>1, <2>2, JobStates DEF JobHasData, SurelyRuns
  <2> QED
    BY <1>1, <2>1, <2>2, <2>3, <2>4 DEF Tasks!TqTypeOK
<1> QED
  BY <1>2, <1>3, <1>4, <1>5, <1>6

LEMMA TaskSteps == TaskInv /\ [Tasks!TqNext]_taskVars => TaskInv'
BY TaskCallsBegin, TaskLooks, TaskUpdates, TaskRemoves, TaskAdds, TaskRetries, TaskQueueSteps,
   WorkerChanges
DEF Tasks!TqNext

(* The task queue: the data of the last addTask that answered a job, looked *)
(* at and acted on undisturbed, are handled before the job settles or goes. *)
THEOREM TasksAreNotLost ==
  Tasks!TqInit /\ [][Tasks!TqNext]_taskVars => [](Tasks!TqTypeOK /\ Tasks!AnsweredTaskNotLost)
<1>1. TaskInv => Tasks!TqTypeOK /\ Tasks!AnsweredTaskNotLost
  BY JobStates DEF TaskInv, SurelyRuns, Tasks!AnsweredTaskNotLost
<1> QED
  BY <1>1, TaskBegins, TaskSteps, PTL
-----------------------------------------------------------------------------
(* Reference data: what is kept of a tree lists a code once.  The recursion  *)
(* over its items is followed by induction, which takes the least number at  *)
(* which something fails.                                                    *)

(* Of the numbers of a set one is the least. *)
LEMMA LeastNumber ==
  ASSUME NEW T \in SUBSET Nat, T # {}
  PROVE  \E x \in T : \A y \in T : x <= y
<1> DEFINE R == OpToRel(<, Nat)
<1>1. IsWellFoundedOn(R, Nat)
  BY NatLessThanWellFounded
<1>2. \A x, y \in Nat : y < x => <<y, x>> \in R
  BY DEF OpToRel
<1> HIDE DEF R
<1>3. PICK x \in T : \A y \in T : ~ (<<y, x>> \in R)
  BY <1>1, WFMin
<1>4. ASSUME NEW y \in T PROVE x <= y
  <2>1. x \in Nat /\ y \in Nat /\ ~(<<y, x>> \in R)
    BY <1>3
  <2>2. ~(y < x)
    BY <1>2, <2>1
  <2> QED
    BY <2>1, <2>2
<1> QED
  BY <1>4

(* The state after the first k items of a tree, for each k up to n.         *)
NothingSeen == [kept |-> << >>, skip |-> 2]
Seen(tree, n, f) ==
  f = [k \in 0..n |-> IF k = 0 THEN NothingSeen ELSE Reference!Take(f[k - 1], tree[k])]

LEMMA SeenExists ==
  ASSUME NEW tree, NEW n \in Nat
  PROVE  \E f : Seen(tree, n, f)
<1> DEFINE P(k) == \E f : Seen(tree, k, f)
<1>1. P(0)
  <2> DEFINE f == [k \in 0..0 |-> NothingSeen]
  <2>1. f = [k \in 0..0 |-> IF k = 0 THEN NothingSeen ELSE Reference!Take(f[k - 1], tree[k])]
    OBVIOUS
  <2> QED
    BY <2>1 DEF Seen
<1>2. ASSUME NEW k \in Nat, P(k) PROVE P(k + 1)
  <2>1. PICK f : Seen(tree, k, f)
    BY <1>2
  <2> DEFINE next == Reference!Take(f[k], tree[k + 1])
             g == [j \in 0..(k + 1) |-> IF j = k + 1 THEN next ELSE f[j]]
             h == [j \in 0..(k + 1) |-> IF j = 0 THEN NothingSeen ELSE Reference!Take(g[j - 1], tree[j])]
  <2>2. ASSUME NEW j \in 0..(k + 1) PROVE g[j] = h[j]
    <3>1. CASE j = k + 1
      <4>1. g[j] = next /\ g[j - 1] = f[k]
        BY <3>1
      <4>2. h[j] = Reference!Take(g[j - 1], tree[j])
        BY <3>1
      <4> QED
        BY <3>1, <4>1, <4>2
    <3>2. CASE j = 0
      <4>1. g[j] = f[0] /\ h[j] = NothingSeen
        BY <3>2
      <4>2. f[0] = NothingSeen
        BY <2>1 DEF Seen
      <4> QED
        BY <4>1, <4>2
    <3>3. CASE j \in 1..k
      <4>1. g[j] = f[j] /\ g[j - 1] = f[j - 1]
        BY <3>3
      <4>2. h[j] = Reference!Take(g[j - 1], tree[j])
        BY <3>3
      <4>3. f[j] = Reference!Take(f[j - 1], tree[j])
        BY <2>1, <3>3 DEF Seen
      <4> QED
        BY <4>1, <4>2, <4>3
    <3> QED
      BY <3>1, <3>2, <3>3
  <2>3. g = h
    BY <2>2
  <2>4. Seen(tree, k + 1, g)
    BY <2>3 DEF Seen
  <2> QED
    BY <2>4
<1> HIDE DEF P
<1>3. ASSUME NEW k \in Nat, ~P(k) PROVE FALSE
  <2> DEFINE T == {m \in Nat : ~P(m)}
  <2>1. PICK x \in T : \A y \in T : x <= y
    BY <1>3, LeastNumber
  <2>2. x # 0 /\ x - 1 \in Nat /\ x - 1 \notin T
    BY <1>1, <2>1
  <2>3. P(x - 1) /\ (x - 1) + 1 = x
    BY <2>1, <2>2
  <2>4. P((x - 1) + 1)
    BY <1>2, <2>2, <2>3
  <2> QED
    BY <2>1, <2>3, <2>4
<1>4. P(n)
  BY <1>3
<1> QED
  BY <1>4 DEF P

LEMMA FlattenSeen ==
  ASSUME NEW tree, Len(tree) \in Nat
  PROVE  \E f : Seen(tree, Len(tree), f) /\ Reference!Flatten(tree) = f[Len(tree)].kept
<1> DEFINE g == CHOOSE f : f = [n \in 0..Len(tree) |->
                  IF n = 0 THEN NothingSeen ELSE Reference!Take(f[n - 1], tree[n])]
<1>1. Reference!Flatten(tree) = g[Len(tree)].kept
  BY DEF Reference!Flatten, NothingSeen
<1>2. Seen(tree, Len(tree), g)
  BY SeenExists DEF Seen
<1> QED
  BY <1>1, <1>2

Kept(s) ==
  /\ s.kept \in Reference!Tree /\ s.skip \in 1..2 /\ Reference!Distinct(s.kept)

(* An item that is kept is the only one of its value. *)
LEMMA TakeKeeps ==
  ASSUME NEW s, Kept(s), NEW item \in Reference!Item, s.kept # << >> \/ item.depth = 1
  PROVE  /\ Kept(Reference!Take(s, item))
         /\ s.kept # << >> \/ item.depth <= s.skip => Reference!Take(s, item).kept # << >>
<1> DEFINE k == s.kept
           t == Append(k, item)
<1>1. k \in Seq(Reference!Item) /\ Len(k) \in Nat /\ DOMAIN k = 1..Len(k)
  BY DEF Kept, Reference!Tree
<1>2. CASE item.depth > s.skip
  BY <1>2 DEF Reference!Take, Kept, Reference!Item
<1>3. CASE ~(item.depth > s.skip) /\ \E i \in DOMAIN k : k[i].value = item.value
  <2>1. Reference!Take(s, item) = [kept |-> k, skip |-> item.depth]
    BY <1>3 DEF Reference!Take
  <2>2. k # << >>
    BY <1>1, <1>3
  <2> QED
    BY <2>1, <2>2 DEF Kept, Reference!Item
<1>4. CASE ~(item.depth > s.skip) /\ ~ \E i \in DOMAIN k : k[i].value = item.value
  <2>1. Reference!Take(s, item) = [kept |-> t, skip |-> 2]
    BY <1>4 DEF Reference!Take
  <2>2. /\ t \in Seq(Reference!Item) /\ t # << >> /\ DOMAIN t = 1..(Len(k) + 1)
        /\ t[Len(k) + 1] = item /\ \A i \in 1..Len(k) : t[i] = k[i]
    BY <1>1
  <2> HIDE DEF t
  <2>3. Reference!Distinct(t)
    <3> SUFFICES ASSUME NEW i \in 1..(Len(k) + 1), NEW j \in 1..(Len(k) + 1),
                        t[i].value = t[j].value, i < j
                 PROVE  FALSE
      BY <1>1, <2>2 DEF Reference!Distinct
    <3>1. i \in 1..Len(k) /\ t[i] = k[i]
      BY <1>1, <2>2
    <3>2. CASE j = Len(k) + 1
      BY <1>1, <1>4, <2>2, <3>1, <3>2
    <3>3. CASE j # Len(k) + 1
      <4>1. j \in 1..Len(k) /\ t[j] = k[j]
        BY <1>1, <2>2, <3>3
      <4> QED
        BY <1>1, <3>1, <4>1 DEF Kept, Reference!Distinct
    <3> QED
      BY <3>2, <3>3
  <2>4. t[1].depth = 1
    <3>1. CASE k = << >>
      <4>1. Len(k) = 0
        BY <3>1
      <4> QED
        BY <2>2, <3>1, <4>1
    <3>2. CASE k # << >>
      <4>1. 1 \in 1..Len(k)
        BY <1>1, <3>2
      <4> QED
        BY <2>2, <3>2, <4>1 DEF Kept, Reference!Tree
    <3> QED
      BY <3>1, <3>2
  <2> QED
    BY <2>1, <2>2, <2>3, <2>4 DEF Kept, Reference!Tree
<1> QED
  BY <1>2, <1>3, <1>4

(* What is kept of a tree is a tree that lists a code once. *)
LEMMA FlattenKeeps ==
  ASSUME NEW tree \in Reference!Tree
  PROVE  Reference!Flatten(tree) \in Reference!Tree /\ Reference!Distinct(Reference!Flatten(tree))
<1> DEFINE N == Len(tree)
<1>1. N \in Nat /\ DOMAIN tree = 1..N /\ \A i \in 1..N : tree[i] \in Reference!Item
  BY DEF Reference!Tree
<1>2. PICK f : Seen(tree, N, f) /\ Reference!Flatten(tree) = f[N].kept
  BY <1>1, FlattenSeen
<1> HIDE DEF N
<1>3. f[0] = NothingSeen /\ \A n \in 1..N : f[n] = Reference!Take(f[n - 1], tree[n])
  <2>1. f[0] = NothingSeen
    BY <1>1, <1>2 DEF Seen
  <2>2. ASSUME NEW n \in 1..N PROVE f[n] = Reference!Take(f[n - 1], tree[n])
    BY <1>1, <1>2 DEF Seen
  <2> QED
    BY <2>1, <2>2
<1> DEFINE H(n) == Kept(f[n]) /\ (n = 0 \/ f[n].kept # << >>)
           T == {n \in 0..N : ~H(n)}
<1>4. H(0)
  <2>1. << >> \in Reference!Tree /\ Reference!Distinct(<< >>)
    BY DEF Reference!Tree, Reference!Distinct
  <2> QED
    BY <1>3, <2>1 DEF Kept, NothingSeen
<1>5. ASSUME NEW n \in 1..N, H(n - 1) PROVE H(n)
  <2>1. tree[n] \in Reference!Item
    BY <1>1
  <2>2. CASE n = 1
    <3>1. f[n - 1] = NothingSeen
      BY <1>3, <2>2
    <3>2. f[n - 1].skip = 2
      BY <3>1 DEF NothingSeen
    <3>3. tree[n].depth = 1
      <4>1. tree # << >>
        BY <1>1, <2>2 DEF N
      <4> QED
        BY <2>2, <4>1 DEF Reference!Tree
    <3>4. tree[n].depth <= f[n - 1].skip
      BY <3>2, <3>3
    <3> HIDE DEF H
    <3>5. Kept(f[n - 1])
      BY <1>5 DEF H
    <3> QED
      BY <1>3, <2>1, <3>3, <3>4, <3>5, TakeKeeps DEF H
  <2>3. CASE n # 1
    <3>1. f[n - 1].kept # << >> /\ Kept(f[n - 1])
      BY <1>5, <2>3
    <3> QED
      BY <1>3, <2>1, <3>1, TakeKeeps
  <2> QED
    BY <2>2, <2>3
<1> HIDE DEF H
<1>6. T = {}
  <2> SUFFICES ASSUME T # {} PROVE FALSE
    OBVIOUS
  <2>1. T \in SUBSET Nat
    BY <1>1
  <2>2. PICK x \in T : \A y \in T : x <= y
    BY <2>1, LeastNumber
  <2>3. x \in 1..N /\ x - 1 \in 0..N /\ x - 1 \notin T
    BY <1>1, <1>4, <2>2
  <2> QED
    BY <1>5, <2>2, <2>3
<1>7. H(N)
  BY <1>1, <1>6
<1> QED
  BY <1>2, <1>7 DEF H, Kept

(* Of some numbers below a bound one is the greatest. *)
LEMMA GreatestNumber ==
  ASSUME NEW n \in Nat, NEW T \in SUBSET (0..n), T # {}
  PROVE  \E x \in T : \A y \in T : y <= x
<1> DEFINE U == {n - x : x \in T}
<1>1. U \in SUBSET Nat /\ U # {}
  <2>1. ASSUME NEW x \in T PROVE n - x \in Nat
    <3>1. x \in 0..n
      OBVIOUS
    <3> QED
      BY <3>1
  <2> QED
    BY <2>1
<1>2. PICK u \in U : \A v \in U : u <= v
  BY <1>1, LeastNumber
<1>3. PICK x \in T : u = n - x
  OBVIOUS
<1>4. ASSUME NEW y \in T PROVE y <= x
  <2>1. n - y \in U /\ x \in 0..n /\ y \in 0..n
    OBVIOUS
  <2>2. n - x <= n - y
    BY <1>2, <1>3, <2>1
  <2> QED
    BY <2>1, <2>2
<1> QED
  BY <1>4

(* The path of an item is one of codes: a child has a leaf above it. *)
LEMMA PathTyped ==
  ASSUME NEW tree \in Reference!Tree, NEW i \in DOMAIN tree
  PROVE  Reference!Path(tree, i) \in Seq(ListedCode)
<1>1. /\ Len(tree) \in Nat /\ DOMAIN tree = 1..Len(tree)
      /\ \A j \in 1..Len(tree) : tree[j] \in Reference!Item
  BY DEF Reference!Tree
<1>2. tree[i].value \in ListedCode /\ tree[i].depth \in 1..2
  BY <1>1 DEF Reference!Item
<1>3. CASE tree[i].depth = 1
  BY <1>2, <1>3 DEF Reference!Path
<1>4. CASE tree[i].depth # 1
  <2> DEFINE up == {j \in 1..(i - 1) : tree[j].depth = 1}
             top == CHOOSE j \in up : \A k \in up : k <= j
  <2>1. tree[1].depth = 1
    <3>1. tree # << >>
      BY <1>1
    <3> QED
      BY <3>1 DEF Reference!Tree
  <2>2. i - 1 \in Nat /\ 1 \in 1..(i - 1)
    BY <1>1, <1>4, <2>1
  <2>3. 1 \in up /\ up \in SUBSET (0..(i - 1))
    BY <2>1, <2>2
  <2>4. \E j \in up : \A k \in up : k <= j
    BY <2>2, <2>3, GreatestNumber
  <2>5. top \in up
    BY <2>4
  <2>6. top \in 1..Len(tree)
    BY <1>1, <2>5
  <2>7. tree[top].value \in ListedCode
    BY <1>1, <2>6 DEF Reference!Item
  <2>8. Reference!Path(tree, i) = <<tree[top].value, tree[i].value>>
    BY <1>4 DEF Reference!Path
  <2> HIDE DEF top
  <2> QED
    BY <1>2, <2>7, <2>8
<1> QED
  BY <1>3, <1>4

-----------------------------------------------------------------------------
Loaded(tree) == tree \in Trees /\ (group = "city" => Reference!Distinct(tree))

IsProcess(r) == DOMAIN r = {"pc", "tree", "alone", "all"}
IsStarter(r) ==
  /\ IsProcess(r)
  /\ r.pc \in {"full", "map"} => Loaded(r.tree)
  /\ r.pc = "map" => IF r.alone THEN full = Reference!Published(r.tree) ELSE spoilt

DataInv ==
  /\ Reference!RdTypeOK /\ group \in {"dict", "city"} /\ full \in Reference!Tree
  /\ map = [v \in ListedCode |-> map[v]]
  /\ starter = [p \in Proc |-> starter[p]]
  /\ \A p \in Proc : IsStarter(starter[p])
  /\ \A p, q \in Proc : starter[p].pc = "map" /\ starter[p].alone /\ starter[q].pc = "map" => p = q
  /\ Reference!ListedTranslates

LEMMA PublishedListsOnce ==
  ASSUME DataAssumption, group \in {"dict", "city"}, NEW tree, Loaded(tree)
  PROVE  /\ Reference!Published(tree) \in Reference!Tree
         /\ Reference!Distinct(Reference!Published(tree))
BY FlattenKeeps DEF DataAssumption, Loaded, Reference!Published

(* The paths of a tree that lists a code once are those of its places. *)
LEMMA PutPaths ==
  ASSUME Reference!RdTypeOK, NEW tree \in Reference!Tree, Reference!Distinct(tree)
  PROVE  LET m == Reference!Put(tree) IN
         /\ m = [v \in ListedCode |-> m[v]]
         /\ \A v \in ListedCode : m[v] = None \/ m[v] \in Seq(ListedCode)
         /\ \A i \in DOMAIN tree : m[tree[i].value] = Reference!Path(tree, i)
<1> DEFINE m == Reference!Put(tree)
           is(v) == {i \in DOMAIN tree : tree[i].value = v}
           last(v) == CHOOSE i \in is(v) : \A j \in is(v) : j <= i
<1>1. \A i \in DOMAIN tree : i \in Nat /\ tree[i].value \in ListedCode
  <2>1. DOMAIN tree = 1..Len(tree) /\ \A i \in 1..Len(tree) : tree[i] \in Reference!Item
    BY DEF Reference!Tree
  <2> QED
    BY <2>1 DEF Reference!Item
<1>2. m = [v \in ListedCode |-> IF is(v) = {} THEN map[v] ELSE Reference!Path(tree, last(v))]
  BY DEF Reference!Put
<1> HIDE DEF m
<1>3. ASSUME NEW i \in DOMAIN tree PROVE is(tree[i].value) = {i}
  BY DEF Reference!Distinct
<1>4. ASSUME NEW i \in DOMAIN tree PROVE last(tree[i].value) = i
  <2>1. i <= i
    BY <1>1
  <2> HIDE DEF is
  <2> QED
    BY <1>3, <2>1
<1>5. ASSUME NEW i \in DOMAIN tree PROVE m[tree[i].value] = Reference!Path(tree, i)
  <2> HIDE DEF last, is
  <2> QED
    BY <1>1, <1>2, <1>3, <1>4
<1>6. ASSUME NEW v \in ListedCode PROVE m[v] = None \/ m[v] \in Seq(ListedCode)
  <2>1. CASE is(v) = {}
    <3> HIDE DEF is, last
    <3> QED
      BY <1>2, <2>1 DEF Reference!RdTypeOK
  <2>2. CASE is(v) # {}
    <3>1. PICK i \in DOMAIN tree : tree[i].value = v
      BY <2>2
    <3> HIDE DEF is, last
    <3> QED
      BY <1>5, <3>1, PathTyped
  <2> QED
    BY <2>1, <2>2
<1>7. m = [v \in ListedCode |-> m[v]]
  BY <1>2
<1> QED
  BY <1>5, <1>6, <1>7 DEF m

LEMMA DataStarts ==
  ASSUME DataAssumption, Reference!RdInit
  PROVE  DataInv
<1>1. << >> \in Reference!Tree /\ << >> \in Seq(Reference!Item) /\ DOMAIN << >> = {}
  BY DEF Reference!Tree
<1>2. Reference!RdTypeOK
  BY <1>1 DEF DataAssumption, Reference!RdInit, Reference!RdTypeOK
<1>3. IsStarter(Reference!Idle) /\ Reference!Idle.pc = "down"
  BY DEF IsStarter, IsProcess, Reference!Idle
<1>4. Reference!ListedTranslates
  BY <1>1 DEF Reference!RdInit, Reference!ListedTranslates, Reference!GetList, Reference!Distinct
<1> QED
  BY <1>1, <1>2, <1>3, <1>4 DEF DataInv, Reference!RdInit

(* A process that is no more between its writes, nor was it alone there. *)
LEMMA ProcessSteps ==
  ASSUME DataInv, NEW p \in Proc, NEW r,
         starter' = [starter EXCEPT ![p] = r], IsProcess(r), r.pc # "map",
         r.pc = "full" => Loaded(r.tree),
         UNCHANGED <<group, full, map>>, starts' \in 0..MaxStarts,
         spoilt' <=> spoilt \/ starter[p].pc = "map"
  PROVE  DataInv'
<1>1. /\ starter'[p] = r /\ starter' = [q \in Proc |-> starter'[q]]
      /\ \A q \in Proc : q # p => starter'[q] = starter[q]
  BY DEF DataInv
<1>2. Reference!RdTypeOK'
  BY DEF DataInv, Reference!RdTypeOK
<1>3. ASSUME NEW q \in Proc PROVE IsStarter(starter[q])'
  <2>1. CASE q = p
    BY <1>1, <2>1 DEF IsStarter, IsProcess, Loaded
  <2>2. CASE q # p
    <3>1. IsStarter(starter[q]) /\ starter'[q] = starter[q]
      BY <1>1, <2>2 DEF DataInv
    <3>2. Reference!Published(starter[q].tree)' = Reference!Published(starter[q].tree')
      BY DEF Reference!Published
    <3> QED
      BY <3>1 DEF IsStarter, IsProcess, Loaded, Reference!Published
  <2> QED
    BY <2>1, <2>2
<1>4. Reference!ListedTranslates'
  <2>1. ASSUME ~spoilt', Reference!Between' = {} PROVE ~spoilt /\ Reference!Between = {}
    BY <1>1, <2>1 DEF Reference!Between
  <2> QED
    BY <2>1 DEF DataInv, Reference!ListedTranslates, Reference!GetList, Reference!Translate
<1> QED
  BY <1>1, <1>2, <1>3, <1>4 DEF DataInv

LEMMA DataStartsUp ==
  ASSUME DataAssumption, DataInv, NEW p \in Proc, NEW source \in Reference!Sources,
         Reference!Start(p, source)
  PROVE  DataInv'
<1> DEFINE pc == IF source = None THEN "up" ELSE "full"
           r == [Reference!Idle EXCEPT !.pc = pc, !.tree = source]
<1>1. /\ starter' = [starter EXCEPT ![p] = r] /\ UNCHANGED <<group, full, map, spoilt>>
      /\ starter[p].pc # "map" /\ starts' = starts + 1 /\ starts < MaxStarts
  BY DEF Reference!Start
<1>2. IsProcess(r) /\ r.pc = pc /\ r.tree = source
  BY DEF IsProcess, Reference!Idle
<1>3. source = None \/ Loaded(source)
  BY DEF Loaded, Reference!Sources, Reference!Load, DataInv
<1>4. starts' \in 0..MaxStarts
  BY <1>1 DEF DataInv, DataAssumption, Reference!RdTypeOK
<1>5. r.pc # "map" /\ (r.pc = "full" => Loaded(r.tree))
  BY <1>2, <1>3
<1> HIDE DEF r, pc
<1> QED
  BY <1>1, <1>2, <1>4, <1>5, ProcessSteps

LEMMA DataFails ==
  ASSUME DataInv, NEW p \in Proc, Reference!RedisFails(p) \/ Reference!Dies(p)
  PROVE  DataInv'
<1>1. /\ UNCHANGED <<group, full, map, starts>> /\ spoilt' = (spoilt \/ starter[p].pc = "map")
      /\ starts' \in 0..MaxStarts
  BY DEF Reference!RedisFails, Reference!Dies, DataInv, Reference!RdTypeOK
<1>2. CASE Reference!RedisFails(p)
  <2> DEFINE r == [Reference!Idle EXCEPT !.pc = "up"]
  <2>1. starter' = [starter EXCEPT ![p] = r] /\ IsProcess(r) /\ r.pc = "up"
    BY <1>2 DEF Reference!RedisFails, IsProcess, Reference!Idle
  <2> HIDE DEF r
  <2> QED
    BY <1>1, <2>1, ProcessSteps
<1>3. CASE Reference!Dies(p)
  <2>1. /\ starter' = [starter EXCEPT ![p] = Reference!Idle]
        /\ IsProcess(Reference!Idle) /\ Reference!Idle.pc = "down"
    BY <1>3 DEF Reference!Dies, IsProcess, Reference!Idle
  <2> QED
    BY <1>1, <2>1, ProcessSteps
<1> QED
  BY <1>2, <1>3

(* The tree is written: whoever was between its writes is not alone now. *)
LEMMA TreeIsSet ==
  ASSUME DataAssumption, DataInv, NEW p \in Proc, Reference!SetFull(p)
  PROVE  DataInv'
<1> DEFINE t == starter[p].tree
           mine == [starter[p] EXCEPT !.pc = "map", !.alone = Reference!Between = {}]
           other(q) == [starter[q] EXCEPT !.alone = @ /\ q \notin Reference!Between]
<1>1. /\ starter[p].pc = "full" /\ full' = Reference!Published(t)
      /\ starter' = [q \in Proc |-> IF q = p THEN mine ELSE other(q)]
      /\ spoilt' = (spoilt \/ Reference!Between # {})
      /\ UNCHANGED <<group, map, starts>>
  BY DEF Reference!SetFull
<1>2. Loaded(t)
  BY <1>1 DEF DataInv, IsStarter
<1>3. full' \in Reference!Tree /\ full' \in Seq(Reference!Item)
  BY <1>1, <1>2, PublishedListsOnce DEF DataInv, Reference!Tree
<1>4. /\ IsProcess(mine) /\ mine.pc = "map" /\ mine.tree = t
      /\ mine.alone = (Reference!Between = {})
  BY DEF DataInv, IsStarter, IsProcess
<1>5. ASSUME NEW q \in Proc
      PROVE  /\ IsProcess(other(q)) /\ other(q).pc = starter[q].pc
             /\ other(q).tree = starter[q].tree
             /\ other(q).alone = (starter[q].alone /\ q \notin Reference!Between)
  BY DEF DataInv, IsStarter, IsProcess
<1> HIDE DEF mine, other
<1>6. \A q \in Proc : starter'[q].pc = "map" <=> q = p \/ q \in Reference!Between
  BY <1>1, <1>4, <1>5 DEF Reference!Between
<1>7. ASSUME NEW q \in Proc, starter'[q].pc = "map", starter'[q].alone
      PROVE  q = p /\ Reference!Between = {}
  BY <1>1, <1>4, <1>5, <1>6, <1>7
<1>8. ASSUME NEW q \in Proc PROVE IsStarter(starter[q])'
  <2>1. CASE q = p
    <3>1. starter'[q] = mine
      BY <1>1, <2>1
    <3>2. Reference!Published(starter[q].tree)' = Reference!Published(t)
      BY <1>1, <1>4, <3>1 DEF Reference!Published
    <3> QED
      BY <1>1, <1>2, <1>4, <3>1, <3>2 DEF IsStarter, IsProcess, Loaded
  <2>2. CASE q # p
    <3>1. starter'[q] = other(q)
      BY <1>1, <2>2
    <3>2. IsStarter(starter[q])
      BY DEF DataInv
    <3>3. starter'[q].pc = "map" => q \in Reference!Between /\ spoilt' /\ ~starter'[q].alone
      BY <1>1, <1>5, <1>6, <2>2, <3>1
    <3> QED
      BY <1>1, <1>5, <3>1, <3>2, <3>3 DEF IsStarter, IsProcess, Loaded
  <2> QED
    BY <2>1, <2>2
<1>9. Reference!RdTypeOK'
  BY <1>1, <1>3 DEF DataInv, Reference!RdTypeOK
<1>10. Reference!ListedTranslates'
  <2>1. Reference!Between' # {}
    BY <1>6 DEF Reference!Between
  <2> QED
    BY <2>1 DEF Reference!ListedTranslates
<1>11. /\ starter' = [q \in Proc |-> starter'[q]] /\ map' = [v \in ListedCode |-> map'[v]]
       /\ group' \in {"dict", "city"}
  BY <1>1 DEF DataInv
<1>12. \A q, u \in Proc : starter'[q].pc = "map" /\ starter'[q].alone /\ starter'[u].pc = "map"
                            => q = u
  BY <1>6, <1>7
<1> QED
  BY <1>3, <1>8, <1>9, <1>10, <1>11, <1>12 DEF DataInv

(* The paths are written: of the same tree, unless another refresh came in. *)
LEMMA PathsAreSet ==
  ASSUME DataAssumption, DataInv, NEW p \in Proc, Reference!SetMap(p)
  PROVE  DataInv'
<1> DEFINE t == Reference!Published(starter[p].tree)
           all == IF group = "dict" THEN t ELSE << >>
           r == [Reference!Idle EXCEPT !.pc = "up", !.all = all]
<1>1. /\ starter[p].pc = "map" /\ map' = Reference!Put(t)
      /\ spoilt' = (spoilt /\ ~starter[p].alone)
      /\ starter' = [starter EXCEPT ![p] = r]
      /\ UNCHANGED <<group, full, starts>>
  BY DEF Reference!SetMap
<1>2. IsProcess(r) /\ r.pc = "up"
  BY DEF IsProcess, Reference!Idle
<1> HIDE DEF r
<1>3. t \in Reference!Tree /\ Reference!Distinct(t)
  BY <1>1, PublishedListsOnce DEF DataInv, IsStarter
<1>4. /\ map' = [v \in ListedCode |-> map'[v]]
      /\ \A v \in ListedCode : map'[v] = None \/ map'[v] \in Seq(ListedCode)
      /\ \A i \in DOMAIN t : map'[t[i].value] = Reference!Path(t, i)
  BY <1>1, <1>3, PutPaths DEF DataInv
<1> HIDE DEF t
<1>5. /\ starter'[p] = r /\ starter' = [q \in Proc |-> starter'[q]]
      /\ \A q \in Proc : q # p => starter'[q] = starter[q]
  BY <1>1 DEF DataInv
<1>6. Reference!RdTypeOK'
  BY <1>1, <1>4 DEF DataInv, Reference!RdTypeOK
<1>7. IF starter[p].alone THEN full = t ELSE spoilt
  BY <1>1 DEF DataInv, IsStarter, t
<1>8. ASSUME NEW q \in Proc PROVE IsStarter(starter[q])'
  <2>1. CASE q = p
    BY <1>2, <1>5, <2>1 DEF IsStarter, IsProcess
  <2>2. CASE q # p
    <3>1. IsStarter(starter[q]) /\ starter'[q] = starter[q]
      BY <1>5, <2>2 DEF DataInv
    <3>2. starter[q].pc = "map" => ~starter[q].alone /\ ~starter[p].alone
      BY <1>1, <2>2 DEF DataInv
    <3> QED
      BY <1>1, <3>1, <3>2 DEF IsStarter, IsProcess, Loaded
  <2> QED
    BY <2>1, <2>2
<1>9. Reference!ListedTranslates'
  <2> SUFFICES ASSUME ~spoilt'
               PROVE  Reference!Distinct(full') /\
                      \A i \in DOMAIN full' : map'[full'[i].value] = Reference!Path(full', i)
    BY DEF Reference!ListedTranslates, Reference!GetList, Reference!Translate
  <2>1. full' = t
    BY <1>1, <1>7
  <2> QED
    BY <1>3, <1>4, <2>1
<1>10. \A q, u \in Proc : starter'[q].pc = "map" /\ starter'[q].alone /\ starter'[u].pc = "map"
                            => q = u
  BY <1>2, <1>5 DEF DataInv
<1> QED
  BY <1>1, <1>4, <1>5, <1>6, <1>8, <1>9, <1>10 DEF DataInv

(* Every code that is listed is listed once and translates to its place,     *)
(* unless the tree and the paths come from two refreshes.                    *)
THEOREM DataTranslates == Reference!RdSpec => [](Reference!RdTypeOK /\ Reference!ListedTranslates)
<1>1. Reference!RdInit => DataInv
  BY DataAssumption, DataStarts
<1>2. DataInv /\ [Reference!RdNext]_(Reference!rdVars) => DataInv'
  <2> SUFFICES ASSUME DataInv, [Reference!RdNext]_(Reference!rdVars) PROVE DataInv'
    OBVIOUS
  <2>1. CASE UNCHANGED Reference!rdVars
    BY <2>1 DEF DataInv, IsStarter, IsProcess, Loaded, Reference!rdVars, Reference!RdTypeOK,
           Reference!ListedTranslates, Reference!GetList, Reference!Translate,
           Reference!Between, Reference!Published
  <2> QED
    BY <2>1, DataAssumption, DataStartsUp, DataFails, TreeIsSet, PathsAreSet DEF Reference!RdNext
<1>3. DataInv => Reference!RdTypeOK /\ Reference!ListedTranslates
  BY DEF DataInv
<1> QED
  BY <1>1, <1>2, <1>3, PTL DEF Reference!RdSpec
-----------------------------------------------------------------------------
(* The composition.                                                         *)
LEMMA EachServiceInits ==
  ServicesInit => /\ Init /\ Kafka!KcInit /\ Rabbit!RqInit /\ Guards!RgInit /\ Healthy!HlInit
                  /\ Logs!RlInit /\ Cache!CsInit /\ Cron!CjInit /\ Tasks!TqInit
                  /\ Reference!RdInit
BY DEF ServicesInit

LEMMA EachServiceSteps ==
  [ServicesNext]_allVars =>
    /\ [Next]_vars
    /\ [Kafka!KcNext]_kafkaVars /\ [Rabbit!RqNext]_rabbitVars /\ [Guards!RgNext]_guardVars
    /\ [Healthy!HlNext]_healthVars /\ [Logs!RlNext]_logVars /\ [Cache!CsNext]_cacheVars
    /\ [Cron!CjNext]_cronVars /\ [Tasks!TqNext]_taskVars /\ [Reference!RdNext]_dataVars
BY DEF ServicesNext, allVars, webVars, kafkaVars, rabbitVars, guardVars, healthVars, logVars,
       cacheVars, cronVars, taskVars, dataVars

(* Each service, with the others around it, behaves as its own specification *)
(* says: a behaviour of the composition is one of every service's, which     *)
(* steps or stands still.                                                    *)
THEOREM ServicesRefineEach ==
  ServicesSpec => /\ Spec /\ Kafka!KcSpec /\ Rabbit!RqSpec /\ Guards!RgSpec /\ Healthy!HlSpec
                  /\ Logs!RlSpec /\ Cron!CjSpec /\ Reference!RdSpec
                  /\ Cache!CsInit /\ [][Cache!CsNext]_cacheVars
                  /\ Tasks!TqInit /\ [][Tasks!TqNext]_taskVars
BY EachServiceInits, EachServiceSteps, PTL
DEF ServicesSpec, Spec, Kafka!KcSpec, Kafka!kcVars, Rabbit!RqSpec, Rabbit!rqVars,
  Guards!RgSpec, Guards!rgVars, Healthy!HlSpec, Healthy!hlVars, Logs!RlSpec, Logs!rlVars,
  Cron!CjSpec, Cron!cjVars, cronVars, Reference!RdSpec, Reference!rdVars, dataVars,
  kafkaVars, rabbitVars, guardVars, healthVars, logVars

(* MessagesSettled: with the other services around, no offset is committed   *)
(* past a message that was not processed, and no message leaves RabbitMQ     *)
(* that was neither handled nor tried as often as it may be.                 *)
THEOREM MessagesAreSettled == ServicesSpec => []MessagesSettled
<1>1. /\ Kafka!KcTypeOK /\ Kafka!CommittedWasProcessed
      /\ Rabbit!RqTypeOK /\ Rabbit!LeavesHandledOrExhausted
      => MessagesSettled
  BY DEF MessagesSettled
<1> QED
  BY <1>1, ServicesRefineEach, KafkaCommits, RabbitLeaves, PTL

(* GuardsAdmitAndRefuse: a request reaches its handler only if each condition*)
(* of the route held at some time, and is refused only for a reason.         *)
THEOREM GuardsAreSound == ServicesSpec => []GuardsAdmitAndRefuse
<1>1. Guards!RgTypeOK /\ Guards!AdmittedWasAllowed /\ Guards!RefusedForAReason
      => GuardsAdmitAndRefuse
  BY DEF GuardsAdmitAndRefuse
<1> QED
  BY <1>1, ServicesRefineEach, GuardsHold, PTL

(* HealthIsReported: an answer is not older than a report lives and a check  *)
(* takes, and shows a dependency that was in trouble all the while.          *)
THEOREM HealthIsSound == ServicesSpec => []HealthIsReported
<1>1. Healthy!HlTypeOK /\ Healthy!AnswersInTime /\ Healthy!TroubleShows => HealthIsReported
  BY DEF HealthIsReported
<1> QED
  BY <1>1, ServicesRefineEach, HealthAnswers, PTL

(* LogsKept: a request log that fits is stored, once unless a failure leaves *)
(* that open, and follows the option the runtime configuration gave.         *)
THEOREM LogsAreKept == ServicesSpec => []LogsKept
<1>1. /\ Logs!RlTypeOK /\ Logs!ShortLogsSaved /\ Logs!SavedOnce /\ Logs!RuntimeOptionWins
      => LogsKept
  BY DEF LogsKept
<1> QED
  BY <1>1, ServicesRefineEach, LogsAreStored, PTL

(* SingleFlight: of concurrent misses of one key one computes the value,     *)
(* unless locks expire or calls fail, and nobody deletes another's lock.     *)
THEOREM FlightIsSingle == ServicesSpec => []SingleFlight
<1>1. /\ Cache!CsTypeOK /\ Cache!OneComputation /\ Cache!WaitOutlastsHolder
      /\ Cache!DeletesOwnLock
      => SingleFlight
  BY DEF SingleFlight
<1> QED
  BY <1>1, ServicesRefineEach, CacheComputesOnce, PTL

(* QueuesFollowTheCode: the data of an answered task are handled before its  *)
(* job settles or goes, and cron schedules are those of the code.            *)
THEOREM QueuesFollow == ServicesSpec => []QueuesFollowTheCode
<1>1. /\ Tasks!TqTypeOK /\ Tasks!AnsweredTaskNotLost
      /\ Cron!CjTypeOK /\ Cron!OrphansNeverRun /\ Cron!CronsScheduled
      /\ Cron!OneScheduleUnlessRepatterned
      => QueuesFollowTheCode
  BY DEF QueuesFollowTheCode
<1> QED
  BY <1>1, ServicesRefineEach, TasksAreNotLost, CronsFollowTheCode, PTL

(* ListedCodesTranslate: what a dictionary or the cities list is listed once *)
(* and translates to its place, unless refreshes overlapped or broke off.    *)
THEOREM CodesTranslate == ServicesSpec => []ListedCodesTranslate
<1>1. Reference!RdTypeOK /\ Reference!ListedTranslates => ListedCodesTranslate
  BY DEF ListedCodesTranslate
<1> QED
  BY <1>1, ServicesRefineEach, DataTranslates, PTL

(* SerialPromises: a conditional update replaces the version it names, a     *)
(* built-in row stays and ensure() keeps what is there, while calls do not   *)
(* overlap; other services change none of that.                              *)
THEOREM PromisesAreKept == ServicesSpec => SerialPromises
<1>1. OptimisticLockAlone /\ BuiltinStaysAlone /\ EnsureKeepsValueAlone => SerialPromises
  BY DEF SerialPromises
<1> QED
  BY <1>1, ServicesRefineEach, WritersKeepPromisesAlone
=============================================================================
