------------------------------ MODULE RabbitAck ------------------------------
(* A RabbitMQ queue consumed behind RabbitAckInterceptor: the broker gives   *)
(* back what was not acknowledged when a connection is lost.                 *)
EXTENDS Naturals

CONSTANTS Message,
  MAX_RETRY,    \* RabbitAckInterceptor.MAX_RETRY
  MaxFailures,  \* bound: failures of the handler, per message
  MaxCrashes    \* bound: lost connections

VARIABLES
  rabbit,       \* the messages of the queue
  crashes       \* how many connections were lost

rqVars == <<rabbit, crashes>>

RabbitRec == [state : {"unsent", "ready", "delivered", "answered", "acked", "dead"},
              header : 0..MAX_RETRY,      \* x-death or x-retry-count
              failures : 0..MaxFailures,
              handled : BOOLEAN]          \* history: the handler has succeeded

RqTypeOK ==
  /\ rabbit \in [Message -> RabbitRec]
  /\ crashes \in 0..MaxCrashes

RqInit ==
  /\ rabbit = [m \in Message |-> [state |-> "unsent", header |-> 0, failures |-> 0,
                                  handled |-> FALSE]]
  /\ crashes = 0

(* RabbitEventPublisher; a message that comes out of a dead-letter exchange *)
(* carries the count of its x-death header.                                 *)
RabbitPublish(m, header) ==
  /\ rabbit[m].state = "unsent"
  /\ rabbit' = [rabbit EXCEPT ![m].state = "ready", ![m].header = header]
  /\ UNCHANGED crashes

RabbitDeliver(m) ==
  /\ rabbit[m].state = "ready"
  /\ rabbit' = [rabbit EXCEPT ![m].state = "delivered"]
  /\ UNCHANGED crashes

HandlerSucceeds(m) ==
  /\ rabbit[m].state = "delivered"
  /\ rabbit' = [rabbit EXCEPT ![m].state = "answered", ![m].handled = TRUE]
  /\ UNCHANGED crashes

Ack(m) ==
  /\ rabbit[m].state = "answered"
  /\ rabbit' = [rabbit EXCEPT ![m].state = "acked"]
  /\ UNCHANGED crashes

(* handleFailure: nack with requeue gives the message back as it was, the   *)
(* header included.                                                         *)
Requeues(m) == rabbit[m].header < MAX_RETRY
FailedState(m) == IF Requeues(m) THEN "ready" ELSE "dead"

HandlerFails(m) ==
  /\ rabbit[m].state = "delivered" /\ rabbit[m].failures < MaxFailures
  /\ rabbit' = [rabbit EXCEPT ![m].failures = rabbit[m].failures + 1,
                              ![m].state = FailedState(m)]
  /\ UNCHANGED crashes

(* A connection lost before the ack: delivered again.                       *)
ConnectionLost(m) ==
  /\ rabbit[m].state \in {"delivered", "answered"} /\ crashes < MaxCrashes
  /\ crashes' = crashes + 1
  /\ rabbit' = [rabbit EXCEPT ![m].state = "ready"]

-----------------------------------------------------------------------------
RqNext ==
  \E m \in Message :
    \/ \E header \in 0..MAX_RETRY : RabbitPublish(m, header)
    \/ RabbitDeliver(m) \/ HandlerSucceeds(m) \/ Ack(m) \/ HandlerFails(m)
    \/ ConnectionLost(m)

RqSpec == RqInit /\ [][RqNext]_rqVars

-----------------------------------------------------------------------------
(* Whatever fails and wherever the connection is lost, a message leaves the *)
(* queue only when its handler has succeeded, or failed on the delivery     *)
(* whose header says that the retries are used up.                          *)
LeavesHandledOrExhausted ==
  \A m \in Message :
    /\ rabbit[m].state = "acked" => rabbit[m].handled
    /\ rabbit[m].state = "dead" => rabbit[m].failures > 0 /\ rabbit[m].header >= MAX_RETRY

=============================================================================
