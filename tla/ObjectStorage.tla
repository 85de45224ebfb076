--------------------------- MODULE ObjectStorage ---------------------------
(* S3StorageService: the calls that go through the client context cached    *)
(* for one OSS configuration of a process, while that configuration is      *)
(* edited.  config is what findByCode answers.  The object store is         *)
(* external: one key per bucket, one multipart upload of it at a time.      *)
EXTENDS Naturals, FiniteSets, Sequences, SequencesExt

CONSTANTS Caller, Bucket, Part, None,
  MaxEdits,     \* bound: how often the configuration changes
  MaxUploads,   \* bound: how many multipart uploads are opened
  Overlapping   \* bound: the operations that may overlap another call

VARIABLES
  config,       \* sys_oss_config, None when there is no such row
  clientCache,  \* clientCache.get(code): fingerprint and context
  call,         \* the calls in progress
  object,       \* the object of each bucket: its parts, {0} when put whole
  upload,       \* the multipart upload of each bucket
  opened,       \* how many uploads were opened
  edits         \* how many changes the configuration had

osVars == <<config, clientCache, call, object, upload, opened, edits>>

(* Only one of several fields that are treated alike is kept: of the        *)
(* credentials, the token and the region, the secret.                       *)
Config == [bucket : Bucket, internal : BOOLEAN, useInternal : BOOLEAN,
           provider : {"s3", "aliyun"}, style : {"path", "virtual-hosted"},
           secret : {1, 2, None}, domain : {"url", "malformed", None},
           signingExpiresIn : {0, 600}]
Json == {"provider", "style", "secret", "domain", "signingExpiresIn"}

(* chk_sys_oss_config_internal_endpoint_enabled *)
ColumnsChecked(f) == f.useInternal => f.internal
(* normalizeAndValidateConfig, which a change of the JSON column goes through *)
Validated(f) ==
  /\ f.provider = "aliyun" => f.style = "virtual-hosted"
  /\ f.secret # None /\ f.domain # "malformed"

(* Mutant: where the server connects to is left out. *)
FingerprintWithoutEndpoint(f) == [f EXCEPT !.internal = FALSE, !.useInternal = FALSE]
Fingerprint(f) == f

(* The clients and the settings that go with them. *)
Context(f) ==
  [bucket |-> f.bucket, domain |-> f.domain, style |-> f.style, secret |-> f.secret,
   signingExpiresIn |-> f.signingExpiresIn,
   client |-> IF f.useInternal THEN "internal" ELSE "endpoint",
   signingClient |-> "endpoint",
   accessClient |-> IF f.provider = "aliyun" /\ f.domain # None THEN "domain" ELSE None]

(* What getClientContext refuses before it looks into the cache, and what   *)
(* it refuses when it must build a context (normalizeAccessDomain).         *)
Unusable(f) ==
  \/ f.useInternal /\ ~f.internal
  \/ f.provider = "aliyun" /\ f.style # "virtual-hosted"
Unbuildable(f) ==
  f.secret = None \/ (f.provider = "aliyun" /\ f.domain = "malformed")

ResolveExpiresIn(requested, configured) ==
  CASE requested > 0 -> requested [] configured > 0 -> configured [] OTHER -> 900

(* The address of the object: under the domain, which stands for a bucket   *)
(* without naming it, or under a path or a host that names the bucket.      *)
BuildObjectUrl(x) ==
  IF x.domain # None THEN [host |-> "domain", bucket |-> None]
  ELSE [host |-> "endpoint", bucket |-> x.bucket]

ServerOp == {"upload", "download", "metadata", "list", "init", "part", "listParts",
             "complete", "abort", "delete", "acl"}
PartList == {s \in UNION {[1..k -> [n : Part, eTag : BOOLEAN]] : k \in 0..Cardinality(Part)} :
               \A i, j \in DOMAIN s : i # j => s[i].n # s[j].n}

Idle == [op |-> None, pc |-> "idle", uploadId |-> 0, parts |-> << >>, expiresIn |-> 0,
         read |-> None, context |-> None, answer |-> None]

(* A store reached by path, one through an endpoint inside the network, and *)
(* one of Aliyun with a domain of its own.                                  *)
Deployed ==
  LET At(internal, provider, style, domain) ==
        [bucket |-> CHOOSE b \in Bucket : TRUE, internal |-> internal, useInternal |-> internal,
         provider |-> provider, style |-> style, secret |-> 1, domain |-> domain,
         signingExpiresIn |-> 0]
  IN {At(FALSE, "s3", "path", None), At(TRUE, "s3", "path", None),
      At(FALSE, "aliyun", "virtual-hosted", "url")}

OsInit ==
  /\ config \in Deployed \cup {None}
  /\ clientCache = None
  /\ call = [c \in Caller |-> Idle]
  /\ object = [b \in Bucket |-> {}]
  /\ upload = [b \in Bucket |-> None]
  /\ opened = 0 /\ edits = 0

osStore == <<object, upload, opened>>
-----------------------------------------------------------------------------
(* OssConfigService: update one field, delete the row, create one.          *)
UpdateConfig ==
  /\ config # None /\ edits < MaxEdits
  /\ \E f \in Config :
       /\ Cardinality({x \in DOMAIN f : f[x] # config[x]}) = 1
       /\ ColumnsChecked(f)
       /\ (\E x \in Json : f[x] # config[x]) => Validated(f)
       /\ config' = f
  /\ edits' = edits + 1
  /\ UNCHANGED <<clientCache, call, osStore>>

DeleteConfig ==
  /\ config # None /\ edits < MaxEdits
  /\ config' = None /\ edits' = edits + 1
  /\ UNCHANGED <<clientCache, call, osStore>>

CreateConfig ==
  /\ config = None /\ edits < MaxEdits
  /\ \E f \in Deployed : ColumnsChecked(f) /\ Validated(f) /\ config' = f
  /\ edits' = edits + 1
  /\ UNCHANGED <<clientCache, call, osStore>>

-----------------------------------------------------------------------------
(* A call, which first awaits findByCode.  A part URL without an upload id  *)
(* is refused at once.                                                      *)
Start(c, op, id, parts, expiresIn) ==
  /\ call[c].pc = "idle"
  /\ \A d \in Caller : call[d].pc # "idle" => {op, call[d].op} \subseteq Overlapping
  /\ op = "signPart" => id # 0
  /\ call' = [call EXCEPT ![c] = [Idle EXCEPT !.op = op, !.pc = "read", !.uploadId = id,
                                              !.parts = parts, !.expiresIn = expiresIn]]
  /\ UNCHANGED <<config, clientCache, osStore, edits>>

Answer(c, a) == call' = [call EXCEPT ![c] = [Idle EXCEPT !.op = call[c].op, !.pc = "done", !.answer = a]]
Refused == [status |-> "refused"]

FindByCode(c) ==
  /\ call[c].pc = "read"
  /\ IF config = None THEN Answer(c, Refused)
     ELSE call' = [call EXCEPT ![c].pc = "have", ![c].read = config]
  /\ UNCHANGED <<config, clientCache, osStore, edits>>

(* The context is taken from the cache, or built and put there.             *)
GetClientContext(c) ==
  /\ call[c].pc = "have"
  /\ LET f == call[c].read
         hit == clientCache # None /\ clientCache.fingerprint = Fingerprint(f)
         x == IF hit THEN clientCache.context ELSE Context(f)
     IN IF Unusable(f) \/ (~hit /\ Unbuildable(f))
        THEN Answer(c, Refused) /\ UNCHANGED clientCache
        ELSE /\ call' = [call EXCEPT ![c].pc = "send", ![c].context = x]
             /\ clientCache' = [fingerprint |-> Fingerprint(f), context |-> x]
  /\ UNCHANGED <<config, osStore, edits>>

Sends(c, op) == call[c].pc = "send" /\ call[c].op = op
Ctx(c) == call[c].context
osRest == <<config, clientCache, edits>>

(* The command of the call is rejected, by the network or by the store.     *)
SendFails(c) ==
  /\ call[c].pc = "send" /\ call[c].op \in ServerOp
  /\ Answer(c, [status |-> "failed"])
  /\ UNCHANGED <<osRest, osStore>>

UploadObject(c) ==
  /\ Sends(c, "upload")
  /\ object' = [object EXCEPT ![Ctx(c).bucket] = {0}]
  /\ Answer(c, [status |-> "ok", bucket |-> Ctx(c).bucket, fullUrl |-> BuildObjectUrl(Ctx(c))])
  /\ UNCHANGED <<osRest, upload, opened>>

DownloadObject(c) ==
  /\ Sends(c, "download")
  /\ Answer(c, [status |-> "ok", body |-> object[Ctx(c).bucket]])
  /\ UNCHANGED <<osRest, osStore>>

GetObjectMetadata(c) ==
  /\ Sends(c, "metadata")
  /\ Answer(c, IF object[Ctx(c).bucket] = {} THEN [status |-> "failed"]
               ELSE [status |-> "ok", bucket |-> Ctx(c).bucket,
                     fullUrl |-> BuildObjectUrl(Ctx(c))])
  /\ UNCHANGED <<osRest, osStore>>

ListObjects(c) ==
  /\ Sends(c, "list")
  /\ Answer(c, [status |-> "ok", bucket |-> Ctx(c).bucket, found |-> object[Ctx(c).bucket] # {}])
  /\ UNCHANGED <<osRest, osStore>>

Signed(c, client) ==
  [status |-> "signed", host |-> client, bucket |-> Ctx(c).bucket,
   expiresIn |-> ResolveExpiresIn(call[c].expiresIn, Ctx(c).signingExpiresIn)]

SignObject(c) ==
  /\ Sends(c, "sign")
  /\ Answer(c, Signed(c, Ctx(c).signingClient))
  /\ UNCHANGED <<osRest, osStore>>

GeneratePresignedPutUrl(c) ==
  /\ Sends(c, "signPut")
  /\ Answer(c, Signed(c, Ctx(c).signingClient))
  /\ UNCHANGED <<osRest, osStore>>

GeneratePresignedGetUrl(c) ==
  /\ Sends(c, "signGet")
  /\ Answer(c, Signed(c, IF Ctx(c).accessClient # None THEN Ctx(c).accessClient
                         ELSE Ctx(c).signingClient))
  /\ UNCHANGED <<osRest, osStore>>

GeneratePresignedUploadPartUrl(c) ==
  /\ Sends(c, "signPart")
  /\ Answer(c, Signed(c, Ctx(c).signingClient))
  /\ UNCHANGED <<osRest, osStore>>

-----------------------------------------------------------------------------
HasUpload(c) == /\ upload[Ctx(c).bucket] # None
                /\ upload[Ctx(c).bucket].id = call[c].uploadId

InitMultipartUpload(c) ==
  /\ Sends(c, "init") /\ opened < MaxUploads
  /\ opened' = opened + 1
  /\ upload' = [upload EXCEPT ![Ctx(c).bucket] = [id |-> opened + 1, parts |-> {}]]
  /\ Answer(c, [status |-> "ok", bucket |-> Ctx(c).bucket, uploadId |-> opened + 1])
  /\ UNCHANGED <<osRest, object>>

UploadPart(c, n) ==
  /\ Sends(c, "part") /\ HasUpload(c)
  /\ upload' = [upload EXCEPT ![Ctx(c).bucket].parts = @ \cup {n}]
  /\ Answer(c, [status |-> "ok", partNumber |-> n])
  /\ UNCHANGED <<osRest, object, opened>>

ListUploadParts(c) ==
  /\ Sends(c, "listParts") /\ HasUpload(c)
  /\ Answer(c, [status |-> "ok", listed |-> upload[Ctx(c).bucket].parts])
  /\ UNCHANGED <<osRest, osStore>>

(* Parts without an eTag are dropped, the rest sorted by their numbers, of  *)
(* which a list holds each once.                                            *)
Ascending(s) == \A i, j \in DOMAIN s : i < j => s[i] < s[j]
NormalizedParts(parts) ==
  LET tagged == {parts[i].n : i \in {j \in DOMAIN parts : parts[j].eTag}}
  IN CHOOSE s \in [1..Cardinality(tagged) -> tagged] : Ascending(s)

CompleteMultipartUpload(c) ==
  /\ Sends(c, "complete")
  /\ LET s == NormalizedParts(call[c].parts)
         b == Ctx(c).bucket
     IN IF call[c].uploadId = 0 \/ s = << >>
        THEN Answer(c, Refused) /\ UNCHANGED <<object, upload>>
        ELSE IF HasUpload(c) /\ Ascending(s) /\ ToSet(s) \subseteq upload[b].parts
        THEN /\ object' = [object EXCEPT ![b] = ToSet(s)]
             /\ upload' = [upload EXCEPT ![b] = None]
             /\ Answer(c, [status |-> "ok", bucket |-> b, fullUrl |-> BuildObjectUrl(Ctx(c))])
        ELSE /\ Answer(c, [status |-> "failed", missing |-> ~HasUpload(c)
                                         \/ ~(ToSet(s) \subseteq upload[b].parts)])
             /\ UNCHANGED <<object, upload>>
  /\ UNCHANGED <<osRest, opened>>

AbortMultipartUpload(c) ==
  /\ Sends(c, "abort") /\ HasUpload(c)
  /\ upload' = [upload EXCEPT ![Ctx(c).bucket] = None]
  /\ Answer(c, [status |-> "ok", bucket |-> Ctx(c).bucket])
  /\ UNCHANGED <<osRest, object, opened>>

DeleteObject(c) ==
  /\ Sends(c, "delete")
  /\ object' = [object EXCEPT ![Ctx(c).bucket] = {}]
  /\ Answer(c, [status |-> "ok", bucket |-> Ctx(c).bucket])
  /\ UNCHANGED <<osRest, upload, opened>>

SetObjectAcl(c) ==
  /\ Sends(c, "acl") /\ object[Ctx(c).bucket] # {}
  /\ Answer(c, [status |-> "ok", bucket |-> Ctx(c).bucket])
  /\ UNCHANGED <<osRest, osStore>>

Return(c) ==
  /\ call[c].pc = "done"
  /\ call' = [call EXCEPT ![c] = Idle]
  /\ UNCHANGED <<osRest, osStore>>

OsNext ==
  \/ UpdateConfig \/ CreateConfig \/ DeleteConfig
  \/ \E c \in Caller :
       \/ \E op \in {"upload", "download", "metadata", "list", "init", "delete", "acl"} :
            Start(c, op, 0, << >>, 0)
       \/ \E op \in {"part", "listParts", "abort"}, id \in 1..opened : Start(c, op, id, << >>, 0)
       \/ \E id \in 0..opened, s \in PartList : Start(c, "complete", id, s, 0)
       \/ \E op \in {"sign", "signPut", "signGet"}, t \in {0, 60} : Start(c, op, 0, << >>, t)
       \/ \E id \in 1..opened, t \in {0, 60} : Start(c, "signPart", id, << >>, t)
       \/ FindByCode(c) \/ GetClientContext(c) \/ SendFails(c) \/ Return(c)
       \/ UploadObject(c) \/ DownloadObject(c) \/ GetObjectMetadata(c) \/ ListObjects(c)
       \/ SignObject(c) \/ GeneratePresignedPutUrl(c) \/ GeneratePresignedGetUrl(c)
       \/ GeneratePresignedUploadPartUrl(c)
       \/ InitMultipartUpload(c) \/ ListUploadParts(c) \/ CompleteMultipartUpload(c)
       \/ AbortMultipartUpload(c) \/ DeleteObject(c) \/ SetObjectAcl(c)
       \/ \E n \in Part : UploadPart(c, n)

OsSpec == OsInit /\ [][OsNext]_osVars

-----------------------------------------------------------------------------
OsTypeOK ==
  /\ config \in Config \cup {None}
  /\ \A c \in Caller : call[c].pc \in {"idle", "read", "have", "send", "done"}
  /\ object \in [Bucket -> SUBSET (Part \cup {0})]
  /\ \A b \in Bucket : upload[b] # None => upload[b].id \in 1..opened /\ upload[b].parts \subseteq Part
  /\ opened \in 0..MaxUploads /\ edits \in 0..MaxEdits

(* A call connects as the configuration it has read says, whatever was      *)
(* cached for the configuration before or is read by the calls beside it.   *)
ContextIsOfReadConfig ==
  \A c \in Caller : call[c].pc = "send" => call[c].context = Context(call[c].read)

(* An address or a signed URL never leads to the internal endpoint, and a   *)
(* signature lives for some time.                                           *)
UrlsArePublic ==
  \A c \in Caller :
    LET a == call[c].answer
    IN a # None => /\ a.status = "signed" => a.host # "internal" /\ a.expiresIn > 0
                   /\ "fullUrl" \in DOMAIN a => a.fullUrl.host # "internal"

(* The store never refuses to complete an upload for the order of its parts.*)
PartsInOrder ==
  \A c \in Caller : call[c].op = "complete" /\ call[c].answer # None
    => (call[c].answer.status = "failed" /\ "missing" \in DOMAIN call[c].answer
          => call[c].answer.missing)

(* The answer of a call that stored an object names the bucket where it now *)
(* is, and its address is the one the configuration the call has read gives *)
(* to an object of that bucket, whatever was cached for the code before.    *)
AnswerNamesPlace ==
  [][\A c \in Caller :
       call[c].pc = "send" /\ call'[c].pc = "done" /\ call'[c].answer.status = "ok"
         /\ call[c].op \in {"upload", "complete"}
       => /\ object'[call[c].read.bucket] # {}
          /\ call'[c].answer.bucket = call[c].read.bucket
          /\ call'[c].answer.fullUrl = BuildObjectUrl(Context(call[c].read))]_osVars
=============================================================================
