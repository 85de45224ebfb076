----------------------------- MODULE RequestLogs -----------------------------
(* The log of an http request from the interceptor to core_request_log:      *)
(* saved directly, or published to Kafka and saved by a consumer, with the   *)
(* database as the fallback.  Nothing waits for it.                          *)
EXTENDS Naturals

CONSTANTS Req, None,
  MaxRows,      \* bound: rows counted per request
  MaxFaults     \* bound: failures of the broker, the database or a process

VARIABLES
  mode,         \* persistenceMode
  byDefault,    \* captureRequestBodyByDefault
  req,          \* the requests and what is left to do for their logs
  topic,        \* the logs in Kafka that are not committed
  consumed,     \* the log the consumer has dealt with and not yet committed
  rows,         \* how many rows of core_request_log a request has
  stored,       \* how its last row has the body: absent, whole or truncated
  faults,       \* how many failures there were
  lost,         \* history: logs a failed save or a dead process lost
  doubled       \* history: logs published or consumed twice by a failure

rlVars == <<mode, byDefault, req, topic, consumed, rows, stored, faults, lost, doubled>>

(* The body against maxBodyLength: "short" when the whole log fits it too,  *)
(* "wide" when its fields do and the log does not.                          *)
Size == {"short", "wide", "long"}
Flag == {None, TRUE, FALSE}
Pc == {"none", "guards", "handler", "persist", "publish", "save", "done", "unlogged"}
ReqRec == [pc : Pc, size : Size, decorator : Flag, runtime : Flag,
           early : Flag,        \* history: the runtime option when start ran
           capture : BOOLEAN]

RlTypeOK ==
  /\ mode \in {"database", "kafka"} /\ byDefault \in BOOLEAN
  /\ req \in [Req -> ReqRec]
  /\ topic \subseteq Req /\ consumed \in Req \cup {None}
  /\ rows \in [Req -> 0..MaxRows]
  /\ stored \in [Req -> {"absent", "whole", "truncated"}]
  /\ faults \in 0..MaxFaults
  /\ lost \subseteq Req /\ doubled \subseteq Req

RlInit ==
  /\ mode \in {"database", "kafka"} /\ byDefault \in BOOLEAN
  /\ req = [q \in Req |-> [pc |-> "none", size |-> "short", decorator |-> None,
                           runtime |-> None, early |-> None, capture |-> FALSE]]
  /\ topic = {} /\ consumed = None
  /\ rows = [q \in Req |-> 0]
  /\ stored = [q \in Req |-> "absent"]
  /\ faults = 0
  /\ lost = {} /\ doubled = {}

settings == <<mode, byDefault>>
sink == <<topic, consumed, rows, stored>>
Goto(q, pc) == req' = [req EXCEPT ![q].pc = pc]
Fault == faults < MaxFaults /\ faults' = faults + 1

-----------------------------------------------------------------------------
(* RequestLogsInterceptor and RequestLogsControlService.                    *)

Receive(q, size, decorator) ==
  /\ req[q].pc = "none"
  /\ req' = [req EXCEPT ![q].pc = "guards", ![q].size = size, ![q].decorator = decorator]
  /\ UNCHANGED <<settings, sink, faults, lost, doubled>>

(* enableBodyCapture and disableBodyCapture, by a guard or by the handler.  *)
PatchRuntimeOptions(q, on) ==
  /\ req[q].pc \in {"guards", "handler"}
  /\ req' = [req EXCEPT ![q].runtime = on]
  /\ UNCHANGED <<settings, sink, faults, lost, doubled>>

(* The runtime option, then the decorator, then the module's default.       *)
ResolveCaptureFlag(q) ==
  IF req[q].runtime # None THEN req[q].runtime
  ELSE IF req[q].decorator # None THEN req[q].decorator ELSE byDefault

Start(q) ==
  /\ req[q].pc = "guards"
  /\ req' = [req EXCEPT ![q].pc = "handler", ![q].early = req[q].runtime,
                        ![q].capture = ResolveCaptureFlag(q)]
  /\ UNCHANGED <<settings, sink, faults, lost, doubled>>

(* @IgnoreRequestLog, ignorePaths or skip; or a guard refused the request,  *)
(* which then never gets to the interceptor.                                *)
StartIgnored(q) ==
  /\ req[q].pc = "guards"
  /\ Goto(q, "unlogged")
  /\ UNCHANGED <<settings, sink, faults, lost, doubled>>

(* finishSuccess or finishError; the response does not wait.                *)
Finish(q) ==
  /\ req[q].pc = "handler"
  /\ Goto(q, "persist")
  /\ UNCHANGED <<settings, sink, faults, lost, doubled>>

-----------------------------------------------------------------------------
(* RequestLogsService.                                                      *)

Persist(q) ==
  /\ req[q].pc = "persist"
  /\ Goto(q, IF mode = "kafka" THEN "publish" ELSE "save")
  /\ UNCHANGED <<settings, sink, faults, lost, doubled>>

Published(q) ==
  /\ req[q].pc = "publish"
  /\ topic' = topic \cup {q}
  /\ Goto(q, "done")
  /\ UNCHANGED <<settings, consumed, rows, stored, faults, lost, doubled>>

(* A rejected publish falls back to the database, though the broker may     *)
(* have stored the message before its answer was lost.                      *)
AfterRejectionNothing == "done"
AfterRejection == "save"

PublishRejected(q) ==
  /\ req[q].pc = "publish"
  /\ Fault
  /\ \/ topic' = topic /\ UNCHANGED doubled
     \/ topic' = topic \cup {q} /\ doubled' = doubled \cup {q}
  /\ Goto(q, AfterRejection)
  /\ UNCHANGED <<settings, consumed, rows, stored, lost>>

NormalizeForStorage(size) == IF size = "long" THEN "truncated" ELSE "whole"
BuildLogByState(q) ==
  IF req[q].capture THEN NormalizeForStorage(req[q].size) ELSE "absent"

Insert(q) == /\ rows[q] < MaxRows
             /\ rows' = [rows EXCEPT ![q] = rows[q] + 1]
             /\ stored' = [stored EXCEPT ![q] = BuildLogByState(q)]

PersistToDatabase(q) ==
  /\ req[q].pc = "save"
  /\ \/ Insert(q) /\ UNCHANGED <<faults, lost>>
     \/ Fault /\ lost' = lost \cup {q} /\ UNCHANGED <<rows, stored>>
  /\ Goto(q, "done")
  /\ UNCHANGED <<settings, topic, consumed, doubled>>

(* The process dies with the logs it has not handed over.                   *)
ProcessDies(q) ==
  /\ req[q].pc \in {"persist", "publish", "save"}
  /\ Fault
  /\ lost' = lost \cup {q}
  /\ Goto(q, "done")
  /\ UNCHANGED <<settings, sink, doubled>>

-----------------------------------------------------------------------------
(* RequestLogsKafkaConsumer.                                                *)

(* consumeKafkaLog normalizes the log as a whole: one that is longer than   *)
(* maxBodyLength has no systemType any more and is dropped.  A body that    *)
(* was cut to maxBodyLength makes the log longer than that.                 *)
TooLong(q) == req[q].capture /\ req[q].size \in {"wide", "long"}

ConsumeKafkaLog(q) ==
  /\ q \in topic /\ consumed = None
  /\ consumed' = q
  /\ \/ TooLong(q) /\ UNCHANGED <<rows, stored, faults, lost>>
     \/ ~TooLong(q) /\ Insert(q) /\ UNCHANGED <<faults, lost>>
     \/ ~TooLong(q) /\ Fault /\ lost' = lost \cup {q} /\ UNCHANGED <<rows, stored>>
  /\ UNCHANGED <<settings, req, topic, doubled>>

CommitKafkaLog ==
  /\ consumed # None
  /\ topic' = topic \ {consumed}
  /\ consumed' = None
  /\ UNCHANGED <<settings, req, rows, stored, faults, lost, doubled>>

ConsumerDies ==
  /\ consumed # None
  /\ Fault
  /\ doubled' = doubled \cup {consumed}
  /\ consumed' = None
  /\ UNCHANGED <<settings, req, topic, rows, stored, lost>>

-----------------------------------------------------------------------------
RlNext ==
  \/ \E q \in Req :
       \/ \E size \in Size, decorator \in Flag : Receive(q, size, decorator)
       \/ \E on \in BOOLEAN : PatchRuntimeOptions(q, on)
       \/ Start(q) \/ StartIgnored(q) \/ Finish(q)
       \/ Persist(q) \/ Published(q) \/ PublishRejected(q) \/ PersistToDatabase(q)
       \/ ProcessDies(q) \/ ConsumeKafkaLog(q)
  \/ CommitKafkaLog \/ ConsumerDies

RlSpec == RlInit /\ [][RlNext]_rlVars

-----------------------------------------------------------------------------
Settled(q) == req[q].pc = "done" /\ q \notin topic

(* The log of a request that was not ignored gets a row, by one way or the  *)
(* other, unless a save failed, its process died, or it went through Kafka  *)
(* with a captured body that makes it too long.                             *)
ShortLogsSaved ==
  \A q \in Req : Settled(q) => rows[q] > 0 \/ q \in lost \/ TooLong(q)

(* It gets one row, unless a failure left it open whether the broker or the *)
(* table has it already.                                                    *)
SavedOnce == \A q \in Req : rows[q] <= 1 \/ q \in doubled

(* A body is stored against the option set at run time only when that was   *)
(* set after the interceptor had looked at it, in the handler.              *)
RuntimeOptionWins ==
  \A q \in Req : rows[q] > 0 /\ req[q].early # None
    => (stored[q] # "absent") = req[q].early

=============================================================================
