----------------------------- MODULE ClientCodec -----------------------------
(***************************************************************************)
(* How the client's values reach the canisters and come back: the adapter  *)
(* that walks the interface definition along with the data                 *)
(* (utils/candidAdapter.ts), the calls of services/api, and the mappers of *)
(* what is returned (utils/mappers.ts).                                    *)
(*                                                                         *)
(* A value of JavaScript carries its kind, since the adapter decides by    *)
(* it; a value on the wire is what the canister receives.  A call is tried *)
(* with every value of one of its fields at a time: the adapter visits the *)
(* fields of a record one by one and none depends on another.              *)
(***************************************************************************)
EXTENDS Naturals, Sequences, FiniteSets, SequencesExt, Functions, TLC

VARIABLE call    \* [kind, of, field, value, got]: one call, and what came of it

codecVars == <<call>>

\* Values of JavaScript.
Undefined == [js |-> "undefined"]
Null == [js |-> "null"]
Text(s) == [js |-> "string", text |-> s]
Number(n) == [js |-> "number", num |-> n]
Big(n) == [js |-> "bigint", num |-> n]
Flag(b) == [js |-> "boolean", flag |-> b]
Pid(p) == [js |-> "principal", pid |-> p]
List(s) == [js |-> "array", items |-> s]
Bytes(s) == [js |-> "bytes", items |-> s]
Object(f) == [js |-> "object", fields |-> f]
Absent(d) == d.js \in {"undefined", "null"}

\* Types of the interface definition.
Prim(n) == [idl |-> n]
Opt(t) == [idl |-> "opt", of |-> t]
Vec(t) == [idl |-> "vec", of |-> t]
Rec(f) == [idl |-> "record", fields |-> f]
Var(f) == [idl |-> "variant", fields |-> f]
T == Prim("text")
N64 == Prim("nat64")
N32 == Prim("nat32")
F == Prim("float")
B == Prim("bool")
P == Prim("principal")
Nil == Prim("null")
N8 == Prim("nat8")
Blob == Vec(N8)

\* Values on the wire.
Wired(kind, v) == (("wire" :> kind) @@ (kind :> v))
None == Wired("opt", <<>>)
Some(w) == Wired("opt", <<w>>)
NotEncoded == [wire |-> "refused"]

-----------------------------------------------------------------------------
(* candidAdapter.ts.                                                        *)

\* Decimal ids are strings; BigInt() of anything else is caught and gives 0.
BigInt(s) == IF \E n \in 0..99 : ToString(n) = s THEN CHOOSE n \in 0..99 : ToString(n) = s ELSE 0

VisitPrimitive(t, d) ==
    IF t.idl # "nat64" THEN d
    ELSE CASE d.js = "number" -> Big(d.num)
           [] d.js = "string" -> Big(BigInt(d.text))
           [] OTHER           -> d

VisitPrincipal(d) == IF d.js = "string" THEN Pid(d.text) ELSE d

\* Mutant of Unwrapped: a list of one element is taken for a wrapped value.
UnwrappedAlways(t, d) == IF d.js = "array" THEN Head(d.items) ELSE d

\* An array stands for an option already wrapped unless the option is of a
\* vector; an empty one is no value in either case.
Unwrapped(t, d) == IF d.js = "array" /\ t.of.idl # "vec" THEN Head(d.items) ELSE d
IsNone(d) == Absent(d) \/ (d.js = "array" /\ d.items = <<>>)

FieldOf(d, k) == IF k \in DOMAIN d.fields THEN d.fields[k] ELSE Undefined

RECURSIVE Visit(_, _)
VisitOpt(t, d) == List(IF IsNone(d) THEN <<>> ELSE <<Visit(t.of, Unwrapped(t, d))>>)
VisitVec(t, d) ==
    CASE t.of.idl = "nat8" -> IF d.js = "array" THEN Bytes([i \in DOMAIN d.items |-> d.items[i].num]) ELSE d
      [] d.js # "array"    -> List(<<>>)
      [] OTHER             -> List([i \in DOMAIN d.items |-> Visit(t.of, d.items[i])])
VisitRecord(t, d) ==
    IF d.js # "object" THEN d ELSE Object([k \in DOMAIN t.fields |-> Visit(t.fields[k], FieldOf(d, k))])
VisitVariant(t, d) ==
    CASE d.js = "string" /\ d.text \in DOMAIN t.fields /\ t.fields[d.text] = Nil -> Object(d.text :> Null)
      [] d.js = "object" /\ Cardinality(DOMAIN d.fields) = 1 /\ DOMAIN d.fields \subseteq DOMAIN t.fields
                           -> Object([k \in DOMAIN d.fields |-> Visit(t.fields[k], d.fields[k])])
      [] OTHER             -> d
Visit(t, d) ==
    CASE t.idl = "record"    -> VisitRecord(t, d)
      [] t.idl = "opt"       -> VisitOpt(t, d)
      [] t.idl = "vec"       -> VisitVec(t, d)
      [] t.idl = "variant"   -> VisitVariant(t, d)
      [] t.idl = "principal" -> VisitPrincipal(d)
      [] OTHER               -> VisitPrimitive(t, d)

\* external: the serializer, which refuses what does not have the type.
RECURSIVE Encode(_, _)
Encode(t, d) ==
    CASE t.idl = "text" /\ d.js = "string"          -> Wired("text", d.text)
      [] t.idl = "nat64" /\ d.js = "bigint"         -> Wired("nat", d.num)
      [] t.idl \in {"nat8", "nat32", "float"} /\ d.js = "number" -> Wired("nat", d.num)
      [] t.idl = "bool" /\ d.js = "boolean"         -> Wired("bool", d.flag)
      [] t.idl = "principal" /\ d.js = "principal"  -> Wired("pid", d.pid)
      [] t.idl = "null" /\ d.js = "null"            -> Wired("null", "")
      [] t = Blob /\ d.js = "bytes"                 -> Wired("blob", d.items)
      [] t.idl = "opt" /\ d.js = "array" /\ Len(d.items) <= 1 ->
            Wired("opt", [i \in DOMAIN d.items |-> Encode(t.of, d.items[i])])
      [] t.idl = "vec" /\ t # Blob /\ d.js = "array" -> Wired("vec", [i \in DOMAIN d.items |-> Encode(t.of, d.items[i])])
      [] t.idl = "record" /\ d.js = "object" /\ DOMAIN t.fields = DOMAIN d.fields ->
            Wired("record", [k \in DOMAIN t.fields |-> Encode(t.fields[k], d.fields[k])])
      [] t.idl = "variant" /\ d.js = "object" /\ DOMAIN d.fields \subseteq DOMAIN t.fields ->
            Wired("variant", [k \in DOMAIN d.fields |-> Encode(t.fields[k], d.fields[k])])
      [] OTHER -> NotEncoded

-----------------------------------------------------------------------------
(* The arguments of the canisters' methods, from their interface.           *)

Tool == Rec([name |-> T, parameters |-> T, description |-> T])
Role == Var([User |-> Nil, Assistant |-> Nil, System |-> Nil, Tool |-> Nil])
ImageAttachment == Rec([data |-> Blob, mime_type |-> T])
FsItemType == Var([Folder |-> Nil, File |-> Nil])
TextChunk == Rec([chunk_index |-> N32, end_char |-> N32, start_char |-> N32, embedding |-> Blob])
ToolResult == Rec([content |-> T, error |-> Opt(T), tool_call_id |-> T])
ToolResponseMessage == Rec([content |-> Blob, tool_call_id |-> T])

Generation == [custom_prompt |-> Opt(T), tools |-> Opt(Vec(Tool)), node_id |-> N64, temperature |-> F,
               encrypted_chat_key |-> Opt(T), max_completion_tokens |-> N32, model_id |-> T, max_context |-> N32]
AddMessageRequest == Generation @@ [content |-> Blob, role |-> Role, parent_message_id |-> Opt(N64),
    reasoning_effort |-> Opt(T), chat_id |-> N64, attachments |-> Opt(Vec(ImageAttachment))]
CreateChatRequest == Generation @@ [title |-> T, initial_message |-> Blob, encryption_salt |-> Blob,
    temporary |-> B, attachments |-> Opt(Vec(ImageAttachment))]
EditUserMessageRequest == Generation @@ [old_user_message_id |-> N64, new_content |-> Blob,
    reasoning_effort |-> Opt(T), chat_id |-> N64, attachments |-> Opt(Vec(ImageAttachment))]
RetryAiMessageRequest == Generation @@ [reasoning_effort |-> Opt(T), chat_id |-> N64, user_message_id |-> N64]
ContinueRequest == Generation @@ [responses |-> Vec(ToolResponseMessage), assistant_message_id |-> N64,
    reasoning_effort |-> Opt(T), chat_id |-> N64]

ModelStatus == Var([Paused |-> Nil, Active |-> Nil])
Model == Rec([maker |-> T, status |-> ModelStatus, max_tools |-> N32, max_output |-> N32, provider |-> T,
    release_date |-> Opt(T), extra_body_json |-> Opt(T), max_image_attachments |-> N32, name |-> T,
    description |-> T, output_token_price |-> F, provider_model |-> T, provider_endpoint |-> T,
    is_featured |-> B, input_token_price |-> F, is_reasoning |-> B, model_id |-> T, aa_score |-> Opt(N32),
    is_embedding |-> B, max_context |-> N32])
TcbVersion == Rec([fmc |-> N8, snp |-> N8, tee |-> N8, bootloader |-> N8, microcode |-> N8])
GenTcbRequirements == Rec([min_tcb |-> TcbVersion, min_guest_svn |-> N32])
MeasurementStatus == Var([Active |-> Nil, Deprecated |-> Nil, Revoked |-> Nil])
AttestationPolicies == [max_attestation_age_ns |-> N64, min_report_version |-> N32,
    require_ciphertext_hiding_enabled |-> B, require_tsme_disabled |-> B, genoa_policy |-> GenTcbRequirements,
    expected_measurement_len |-> N64, require_ecc_enabled |-> B, require_smt_disabled |-> B,
    turin_policy |-> GenTcbRequirements, require_rapl_disabled |-> B, milan_policy |-> GenTcbRequirements]

\* Errors: those with a text and those without.
Plain(names) == [n \in names |-> Nil]
Texts(names) == [n \in names |-> T]
ProviderErrorType ==
    Var(Texts({"InvalidImage", "Unknown"})
        @@ Plain({"NetworkError", "ContentPolicyViolation", "ContextLengthExceeded", "ServiceUnavailable", "RateLimited",
                  "Timeout", "AuthenticationError", "BadRequest", "ServerError"}))
MessageErrorStatus ==
    Var(Plain({"NodeOffline", "Timeout"}) @@ ("ProviderError" :> ProviderErrorType)
        @@ Texts({"Unknown", "ConfigurationError", "CanisterCallError", "InvalidState"}))
CanisterError ==
    Var(Texts({"InvalidFileName", "InvalidInput", "UnsupportedMimeType", "FileSystemLimitExceeded", "CallError",
               "ItemNameCollision", "Other"})
        @@ Plain({"CannotDeleteRootFolder", "UserAlreadyRegistered", "DeleteNonEmptyFolder", "ModelNotFound",
                  "InvalidPathDepth", "PoolExhausted", "NoAvailableUserCanister", "MessageNotFound", "ChatNotFound",
                  "Unauthorized", "FileNotFound", "PathNotFound", "GenerationInProgress", "NodeNotFound",
                  "InvalidSecretKey", "FolderNotFound", "TrialExpired", "RoleAlreadyClaimed", "UserNotFound"}))

UserService == [
    list_chats |-> [include_archived |-> B], get_chat |-> [chat_id |-> N64], get_message |-> [message_id |-> N64],
    create_chat |-> CreateChatRequest, add_message |-> AddMessageRequest, edit_user_message |-> EditUserMessageRequest,
    delete_chat |-> [chat_id |-> N64], rename_chat |-> [new_title |-> T, chat_id |-> N64],
    archive_chat |-> [chat_id |-> N64], unarchive_chat |-> [chat_id |-> N64], get_chat_jobs |-> [chat_id |-> N64],
    retry_ai_message |-> RetryAiMessageRequest, continue_from_tool_response |-> ContinueRequest,
    store_tool_results |-> [assistant_message_id |-> N64, results |-> Vec(ToolResult), chat_id |-> N64],
    get_folder_content |-> [folder_id |-> Opt(N64)], get_item_by_path |-> [path |-> T],
    get_file_content |-> [file_id |-> N64], create_folder |-> [name |-> T, parent_folder_id |-> N64],
    upload_file |-> [content |-> Blob, name |-> T, mime_type |-> T, parent_folder_id |-> N64,
                     chunks |-> Opt(Vec(TextChunk))],
    rename_item |-> [item_type |-> FsItemType, new_name |-> T, item_id |-> N64],
    delete_item |-> [item_type |-> FsItemType, item_id |-> N64],
    is_user_finalized |-> [user_principal |-> P],
    finalize_registration |-> [enc_salt |-> Blob, enc_validator |-> T]]

IndexService == [
    create_node |-> [hostname |-> T, encrypted_api_key |-> T, model_id |-> T, expected_chip_id |-> T],
    get_user_assignment |-> [user_principal |-> P], register_user |-> [username |-> T],
    add_manager |-> [principal_to_add |-> P], remove_manager |-> [principal_to_remove |-> P],
    update_attestation_policies |-> AttestationPolicies,
    add_measurement |-> [name |-> T, measurement_hex |-> T],
    update_measurement_status |-> [status |-> MeasurementStatus, measurement_hex |-> T],
    remove_measurement |-> [measurement_hex |-> T],
    add_model |-> [model |-> Model], update_model |-> [model |-> Model]]

Service == UserService @@ IndexService

-----------------------------------------------------------------------------
(* services/api: what each call passes for a field, and what it means by it. *)

V(js, means) == [js |-> js, means |-> means]

Strings == {V(Text("a"), Wired("text", "a")), V(Text(""), Wired("text", ""))}
IdStrings == {V(Text(ToString(n)), Wired("nat", n)) : n \in {0, 7}}
Numbers == {V(Number(n), Wired("nat", n)) : n \in {0, 3}}
Bigs == {V(Big(n), Wired("nat", n)) : n \in {0, 3}}
Booleans == {V(Flag(b), Wired("bool", b)) : b \in BOOLEAN}
Buffers == {V(Bytes(s), Wired("blob", s)) : s \in {<<>>, <<1>>, <<1, 2>>}}
NumberLists == {V(List([i \in DOMAIN s |-> Number(s[i])]), Wired("blob", s)) : s \in {<<1>>, <<1, 2>>}}
PidStrings == {V(Text("p1"), Wired("pid", "p1"))}
Pids == {V(Pid("p1"), Wired("pid", "p1"))}
Cases(names) == {V(Object(n :> Null), Wired("variant", n :> Wired("null", ""))) : n \in names}

\* A field that may be missing, one wrapped by hand, one that may be a list.
Maybe(vs) == {V(Undefined, None)} \cup {V(v.js, Some(v.means)) : v \in vs}
MaybeNull(vs) == {V(Null, None)} \cup {V(v.js, Some(v.means)) : v \in vs}
Wrapped(vs) == {V(List(<<>>), None)} \cup {V(List(<<v.js>>), Some(v.means)) : v \in vs}
ListsOf(v) == {V(List([i \in 1..n |-> v.js]), Wired("vec", [i \in 1..n |-> v.means])) : n \in 0..2}
MaybeList(v) == {V(Undefined, None)} \cup {V(l.js, IF l.js.items = <<>> THEN None ELSE Some(l.means)) : l \in ListsOf(v)}

\* One value of a set of values, and a record made of such.
One(vs) == CHOOSE v \in vs : TRUE
RecordValue(f) == V(Object([k \in DOMAIN f |-> One(f[k]).js]), Wired("record", [k \in DOMAIN f |-> One(f[k]).means]))
\* A tool of the client has a displayName that the interface does not know.
ToolValue ==
    LET plain == RecordValue([name |-> Strings, parameters |-> Strings, description |-> Strings])
    IN  V(Object(plain.js.fields @@ [displayName |-> Text("a")]), plain.means)

Attachments == MaybeList(RecordValue([data |-> Buffers, mime_type |-> Strings]))
Settings == [custom_prompt |-> Maybe(Strings), tools |-> MaybeList(ToolValue), node_id |-> Numbers,
             temperature |-> Numbers, encrypted_chat_key |-> Maybe(Strings), max_completion_tokens |-> Numbers,
             model_id |-> Strings, max_context |-> Numbers]

ChatQueries == [list_chats |-> [include_archived |-> Booleans], get_chat |-> [chat_id |-> IdStrings],
                get_message |-> [message_id |-> Bigs]]
CreateChatCall == Settings @@ [title |-> Strings, initial_message |-> Buffers, encryption_salt |-> Buffers,
                               attachments |-> Attachments, temporary |-> Booleans]
AddMessageCall == Settings @@ [chat_id |-> IdStrings, parent_message_id |-> Maybe(IdStrings), role |-> Cases({"User"}),
                               content |-> Buffers, attachments |-> Attachments, reasoning_effort |-> Maybe(Strings)]
EditCall == Settings @@ [chat_id |-> IdStrings, old_user_message_id |-> IdStrings, new_content |-> Buffers,
                         attachments |-> Attachments, reasoning_effort |-> Maybe(Strings)]
ChatCalls == [delete_chat |-> [chat_id |-> IdStrings], rename_chat |-> [chat_id |-> IdStrings, new_title |-> Strings],
              archive_chat |-> [chat_id |-> IdStrings], unarchive_chat |-> [chat_id |-> IdStrings],
              get_chat_jobs |-> [chat_id |-> IdStrings]]
RetryCall == Settings @@ [chat_id |-> IdStrings, user_message_id |-> IdStrings, reasoning_effort |-> Maybe(Strings)]
StoreCall == [chat_id |-> IdStrings, assistant_message_id |-> IdStrings,
              results |-> ListsOf(RecordValue([tool_call_id |-> Strings, content |-> Strings, error |-> Maybe(Strings)]))]
ContinueCall == Settings @@ [chat_id |-> IdStrings, assistant_message_id |-> IdStrings, reasoning_effort |-> Maybe(Strings),
                             responses |-> ListsOf(RecordValue([tool_call_id |-> Strings, content |-> Buffers]))]
FileQueries == [get_folder_content |-> [folder_id |-> MaybeNull(IdStrings)], get_item_by_path |-> [path |-> Strings],
                get_file_content |-> [file_id |-> IdStrings],
                create_folder |-> [name |-> Strings, parent_folder_id |-> IdStrings]]

\* mapUploadFileRequest turns ids, contents and embeddings into the wire's kinds
\* itself, before the adapter; serializeEmbedding writes four bytes a number.
SerializeEmbedding(n) == Bytes([i \in 1..(4 * n) |-> 0])
UploadChunk(n) == RecordValue([chunk_index |-> Numbers, start_char |-> Numbers, end_char |-> Numbers,
                               embedding |-> {V(SerializeEmbedding(n), Wired("blob", [i \in 1..(4 * n) |-> 0]))}])
UploadCall == [name |-> Strings, mime_type |-> Strings, parent_folder_id |-> Bigs, content |-> Buffers,
               chunks |-> UNION {MaybeList(UploadChunk(n)) : n \in {0, 2}}]
ItemCalls == [rename_item |-> [item_id |-> IdStrings, item_type |-> Cases({"File", "Folder"}), new_name |-> Strings],
              delete_item |-> [item_id |-> IdStrings, item_type |-> Cases({"File", "Folder"})]]
RegistrationCalls == [is_user_finalized |-> [user_principal |-> Pids],
                      finalize_registration |-> [enc_salt |-> NumberLists \cup Buffers, enc_validator |-> Strings]]

AccountCalls == [create_node |-> [hostname |-> Strings, model_id |-> Strings, encrypted_api_key |-> Strings,
                                  expected_chip_id |-> Strings],
                 get_user_assignment |-> [user_principal |-> PidStrings], register_user |-> [username |-> Strings]]
TcbValue == RecordValue([min_guest_svn |-> Numbers, min_tcb |-> {RecordValue([fmc |-> Numbers, snp |-> Numbers,
                tee |-> Numbers, bootloader |-> Numbers, microcode |-> Numbers])}])
\* The policies come from a form that holds what the canister returned.
PolicyCall == [k \in DOMAIN AttestationPolicies |->
    CASE k \in {"max_attestation_age_ns", "expected_measurement_len"} -> Bigs
      [] k = "min_report_version" -> Numbers
      [] k \in {"genoa_policy", "turin_policy", "milan_policy"} -> {TcbValue}
      [] OTHER -> Booleans]
GovernanceCalls == [add_manager |-> [principal_to_add |-> PidStrings], remove_manager |-> [principal_to_remove |-> Pids],
    update_attestation_policies |-> PolicyCall, add_measurement |-> [measurement_hex |-> Strings, name |-> Strings],
    update_measurement_status |-> [measurement_hex |-> Strings, status |-> Cases({"Active", "Deprecated", "Revoked"})],
    remove_measurement |-> [measurement_hex |-> Strings]]

\* A preset of the client, or a model edited in a form: some fields are wrapped
\* by hand, some are not.
Preset == [k \in DOMAIN Model.fields |->
    CASE k = "status" -> Cases({"Active", "Paused"})
      [] k = "release_date" -> Wrapped(Strings)
      [] k = "aa_score" -> Wrapped(Numbers)
      [] k = "extra_body_json" -> Maybe(Strings)
      [] Model.fields[k] \in {N32, F} -> Numbers
      [] Model.fields[k] = B -> Booleans
      [] OTHER -> Strings]
\* addModel replaces the status.
ModelCalls == [add_model |-> [Preset EXCEPT !.status = Cases({"Active"})], update_model |-> Preset]

Api == ChatQueries @@ ChatCalls @@ FileQueries @@ ItemCalls @@ RegistrationCalls @@ AccountCalls @@ GovernanceCalls
         @@ ModelCalls @@ [create_chat |-> CreateChatCall, add_message |-> AddMessageCall,
                           edit_user_message |-> EditCall, retry_ai_message |-> RetryCall,
                           store_tool_results |-> StoreCall, continue_from_tool_response |-> ContinueCall,
                           upload_file |-> UploadCall]

\* The arguments of a call with one field chosen; a model is itself a field.
Argument(m, field, v, part) ==
    [k \in DOMAIN Api[m] |-> IF k = field THEN v[part] ELSE One(Api[m][k])[part]]
ArgumentType(m) == IF m \in DOMAIN ModelCalls THEN Model ELSE Rec(Service[m])

\* normalizePayload, then the serializer.
NormalizePayload(m, args) == Visit(ArgumentType(m), Object(args))

-----------------------------------------------------------------------------
(* utils/mappers.ts: what the client makes of an answer.                    *)

FromOpt(d) ==
    CASE Absent(d)      -> Undefined
      [] d.js = "array" -> IF d.items = <<>> THEN Undefined ELSE d.items[1]
      [] OTHER          -> d
FromBigInt(d) == IF Absent(d) THEN Text("0") ELSE Text(ToString(d.num))
FromTimestamp(d) == IF Absent(d) THEN Number(0) ELSE Number(d.num \div 1000000)
OrNull(d) == IF d = Undefined THEN Null ELSE d

\* deserializeEmbedding: nothing of a length that is no multiple of four.
DeserializeEmbedding(d) == IF Len(d.items) % 4 # 0 THEN List(<<>>) ELSE List([i \in 1..(Len(d.items) \div 4) |-> Number(0)])

\* The one alternative a variant holds.
Key(d) == CHOOSE k \in DOMAIN d.fields : TRUE

NormalizeProviderError(d) ==
    CASE Key(d) \in {"RateLimited", "AuthenticationError", "ServerError", "ServiceUnavailable", "BadRequest",
                     "ContextLengthExceeded", "ContentPolicyViolation", "NetworkError", "Timeout"} -> [type |-> Key(d)]
      [] Key(d) \in {"InvalidImage", "Unknown"} -> [type |-> Key(d), message |-> d.fields[Key(d)]]
      [] OTHER -> [type |-> "Unknown", message |-> Text("Unknown provider error")]
NormalizeErrorStatus(d) ==
    CASE Absent(d) -> Undefined
      [] Key(d) \in {"NodeOffline", "Timeout"} -> [type |-> Key(d)]
      [] Key(d) \in {"CanisterCallError", "InvalidState", "ConfigurationError", "Unknown"} ->
            [type |-> Key(d), message |-> d.fields[Key(d)]]
      [] Key(d) = "ProviderError" -> [type |-> "ProviderError", details |-> NormalizeProviderError(d.fields[Key(d)])]
      [] OTHER -> [type |-> "Unknown", message |-> Text("Unknown error kind")]

\* formatCanisterError: a sentence for most errors, their JSON for the rest.
FormatCanisterError(d) ==
    CASE Key(d) \in {"InvalidInput", "CallError", "FileSystemLimitExceeded", "ItemNameCollision", "UnsupportedMimeType",
                     "Other"} -> [sentence |-> Key(d), text |-> d.fields[Key(d)]]
      [] Key(d) \in {"UserNotFound", "ChatNotFound", "MessageNotFound", "ModelNotFound", "NodeNotFound", "InvalidSecretKey",
                     "Unauthorized", "GenerationInProgress", "FolderNotFound", "FileNotFound", "DeleteNonEmptyFolder",
                     "CannotDeleteRootFolder", "InvalidPathDepth", "PathNotFound", "RoleAlreadyClaimed"} ->
            [sentence |-> Key(d)]
      [] OTHER -> [json |-> d]
\* unwrapResult: a value, or the error thrown.  The bindings in use have no __kind__.
Thrown(e) == [thrown |-> e]
UnwrapResult(d) ==
    CASE Absent(d)                -> Thrown("null")
      [] "Ok" \in DOMAIN d.fields  -> d.fields.Ok
      [] "Err" \in DOMAIN d.fields -> Thrown(FormatCanisterError(d.fields.Err))
      [] OTHER                    -> Thrown("format")

\* ERROR_CODE_MAP: of each code, whether trying again is futile.
Table(fatal, passing) == [c \in fatal |-> TRUE] @@ [c \in passing |-> FALSE]
SystemErrors == Table({"IC0102", "IC0207"},
    {"IC0101", "IC0201", "IC0202", "IC0203", "IC0204", "IC0205", "IC0206", "IC0208", "IC0209", "IC0210"})
RejectErrors == Table({"IC0301", "IC0302", "IC0303", "IC0304", "IC0305", "IC0402", "IC0403", "IC0404", "IC0405"}, {"IC0406"})
RuntimeErrors == Table({"IC0504", "IC0505", "IC0507", "IC0508", "IC0509", "IC0515", "IC0516", "IC0537"},
    {"IC0501", "IC0502", "IC0503", "IC0506", "IC0601"})
HttpErrors == Table({"NET_403", "NET_404"}, {"NET_429", "NET_502", "NET_503", "NET_504"})
CodedErrors == SystemErrors @@ RejectErrors @@ RuntimeErrors
ErrorCodeMap == CodedErrors @@ HttpErrors

\* classifySetupError: by the first code in the message, by the HTTP status of
\* the agent, by words of the message.
ClassifySetupError(e) ==
    CASE e.code \in DOMAIN CodedErrors  -> e.code
      [] e.status \in DOMAIN HttpErrors -> e.status
      [] e.says = "no Wasm module"  -> "IC0505"
      [] e.says = "stopped"         -> "IC0508"
      [] e.says = "Failed to fetch" -> "Network Error"
      [] e.says = "Fail to verify certificate" -> "Security Error"
      [] OTHER                      -> "Connection Error"
IsFatal(class) == IF class \in DOMAIN ErrorCodeMap THEN ErrorCodeMap[class] ELSE class = "Security Error"

\* external: errors of the agent.
SetupErrors == [code : DOMAIN CodedErrors \cup {"", "IC0999"},
                status : {"", "NET_404", "NET_503", "NET_500"},
                says : {"", "no Wasm module", "stopped", "Failed to fetch", "Fail to verify certificate"}]

\* toLowerCase, on the texts that a model has for its maker.
ToLowerCase(s) == IF s = "A" THEN "a" ELSE s

MapField(kind, d) ==
    CASE kind = "id"        -> FromBigInt(d)
      [] kind = "time"      -> FromTimestamp(d)
      [] kind = "opt"       -> FromOpt(d)
      [] kind = "optNull"   -> OrNull(FromOpt(d))
      [] kind = "optId"     -> IF FromOpt(d) = Undefined THEN Undefined ELSE FromBigInt(FromOpt(d))
      [] kind = "optIdNull" -> IF FromOpt(d) = Undefined THEN Null ELSE FromBigInt(FromOpt(d))
      [] kind = "optTime"   -> IF FromOpt(d) \in {Undefined, Big(0)} THEN Null ELSE FromTimestamp(FromOpt(d))
      [] kind = "expiry"    -> IF d.items = <<>> THEN Null ELSE FromTimestamp(d.items[1])
      [] kind = "error"     -> NormalizeErrorStatus(FromOpt(d))
      [] kind = "number"    -> Number(d.num)
      [] kind = "lower"     -> Text(ToLowerCase(d.text))
      [] kind = "result"    -> UnwrapResult(d)
      [] kind = "optList"   -> IF FromOpt(d) \in {Undefined, List(<<>>)} THEN Undefined ELSE FromOpt(d)
      [] kind = "embedding" -> DeserializeEmbedding(d)
      [] OTHER              -> d

MapBackendChat == [chat_id |-> "id", title |-> "same", created_at |-> "time", active_job_id |-> "optIdNull",
                   archived |-> "same"]
MapBackendMessage == [message_id |-> "id", parent_message_id |-> "optId", created_at |-> "time",
                      attachments |-> "optList", tool_calls |-> "optList", tool_results |-> "optList",
                      tool_call_id |-> "opt", usage |-> "opt", error_status |-> "error"]
MapBackendJob == [job_id |-> "id", node_id |-> "id", placeholder_message_id |-> "id", custom_prompt |-> "opt",
                  reasoning_effort |-> "opt", updated_at |-> "time"]
MapBackendTextChunk == [chunk_index |-> "number", start_char |-> "number", end_char |-> "number", embedding |-> "embedding"]
MapBackendFile == [id |-> "id", parent_folder_id |-> "id", updated_at |-> "time", content_size_bytes |-> "number"]
MapBackendFolder == [id |-> "id", name |-> "same"]
WhoAmI == [enc_salt |-> "optNull", enc_validator |-> "optNull"]
StorageUsage == [usage_bytes |-> "number", limit_bytes |-> "number"]
MapBackendModel == [model_id |-> "same", maker |-> "lower", aa_score |-> "opt", release_date |-> "opt", extra_body_json |-> "opt"]
MapBackendLocalNode == [node_id |-> "id", public_key |-> "optNull", node_principal |-> "optNull"]
MapBackendPublicNode == [node_id |-> "id", public_key |-> "optNull", attestation_verified_at |-> "optTime",
                         last_heartbeat_timestamp |-> "optTime", detected_generation |-> "optNull"]
MapCanisterPoolState == [expires_at |-> "expiry"]
MapBackendPoolEntry == [time_created |-> "time"]

Mappers == [chat |-> MapBackendChat, message |-> MapBackendMessage, job |-> MapBackendJob, file |-> MapBackendFile,
            model |-> MapBackendModel, localNode |-> MapBackendLocalNode, publicNode |-> MapBackendPublicNode,
            pool |-> MapBackendPoolEntry, poolState |-> MapCanisterPoolState, chunk |-> MapBackendTextChunk,
            folder |-> MapBackendFolder, whoami |-> WhoAmI, storage |-> StorageUsage, call |-> [result |-> "result"]]

\* Every alternative of a variant without records, as the canister answers it.
RECURSIVE AlternativesOf(_)
AlternativesOf(t) ==
    CASE t = Nil -> {Null}
      [] t = T   -> {Text("a")}
      [] OTHER   -> UNION {{Object(k :> d) : d \in AlternativesOf(t.fields[k])} : k \in DOMAIN t.fields}
\* The client's form of an error: its type, and what it carries.
RECURSIVE ErrorMeant(_)
ErrorMeant(d) ==
    LET k == CHOOSE key \in DOMAIN d.fields : TRUE
        of == d.fields[k]
    IN  CASE of = Null        -> [type |-> k]
          [] of.js = "object" -> [type |-> k, details |-> ErrorMeant(of)]
          [] OTHER            -> [type |-> k, message |-> of]
\* An error told in words keeps its text; one that has no words is shown whole.
Tells(told, e) ==
    \/ told = [json |-> e]
    \/ /\ "sentence" \in DOMAIN told /\ told.sentence \in DOMAIN e.fields
       /\ e.fields[told.sentence] # Null => "text" \in DOMAIN told /\ told.text = e.fields[told.sentence]

\* What the canister may answer in a field of a kind (js), and what it means.
Answered(kind) ==
    CASE kind = "id"      -> {V(Big(7), Text("7")), V(Big(0), Text("0"))}
      [] kind = "time"    -> {V(Big(2500000), Number(2)), V(Big(0), Number(0))}
      [] kind = "opt"     -> {V(List(<<>>), Undefined), V(List(<<Text("a")>>), Text("a")), V(List(<<Number(0)>>), Number(0))}
      [] kind = "optNull" -> {V(List(<<>>), Null), V(List(<<Text("a")>>), Text("a"))}
      [] kind = "optId"   -> {V(List(<<>>), Undefined), V(List(<<Big(0)>>), Text("0"))}
      [] kind = "optIdNull" -> {V(List(<<>>), Null), V(List(<<Big(0)>>), Text("0"))}
      [] kind = "optTime" -> {V(List(<<>>), Null), V(List(<<Big(2500000)>>), Number(2))}
      [] kind = "optList" -> {V(List(<<>>), Undefined), V(List(<<List(<<>>)>>), Undefined),
                              V(List(<<List(<<Text("a")>>)>>), List(<<Text("a")>>))}
      [] kind = "expiry"  -> {V(List(<<>>), Null), V(List(<<Big(2500000)>>), Number(2)), V(List(<<Big(0)>>), Number(0))}
      [] kind = "number"  -> {V(Big(n), Number(n)) : n \in {0, 3}}
      [] kind = "lower"   -> {V(Text("A"), Text("a")), V(Text("a"), Text("a"))}
      [] kind = "error"   -> {V(List(<<>>), Undefined)} \cup {V(List(<<e>>), ErrorMeant(e)) : e \in AlternativesOf(MessageErrorStatus)}
      [] kind = "result"  -> {V(Object("Ok" :> Text("a")), Text("a")), V(Object("Ok" :> Null), Null)}
                               \cup {V(Object("Err" :> e), Thrown(e)) : e \in AlternativesOf(CanisterError)}
      [] kind = "embedding" -> {V(SerializeEmbedding(n), List([i \in 1..n |-> Number(0)])) : n \in 0..2}
      [] OTHER            -> {V(Text("a"), Text("a"))}

\* isComplete of mapBackendMessageToFrontend.
IsComplete(m) == m.error \/ (~m.requires_client_action /\ (m.content \/ m.tool_results))

\* The messages the user canister stores: whether they have an error, a text
\* and results of tools, and whether their generation is over.  A generation
\* that succeeds without a text is left out: the client takes it for one that
\* runs.
StoredMessage(error, content, asks, results, over) ==
    [error |-> error, content |-> content, requires_client_action |-> asks, tool_results |-> results, over |-> over]
StoredMessages == {StoredMessage(FALSE, TRUE, FALSE, FALSE, TRUE),   \* a user's, or an answer
                   StoredMessage(FALSE, FALSE, FALSE, FALSE, FALSE), \* a placeholder
                   StoredMessage(FALSE, FALSE, TRUE, FALSE, FALSE),  \* it asks for tools
                   StoredMessage(FALSE, FALSE, FALSE, TRUE, TRUE),   \* results are stored
                   StoredMessage(TRUE, FALSE, FALSE, FALSE, TRUE)}   \* it failed

\* What a model of the index may hold besides what this client gives it: a
\* maker in capitals, and a price that is no fraction of a million.
OddPrice == 41
Prices == {"input_token_price", "output_token_price"}
StoredValues(field) ==
    Preset[field] \cup
    CASE field = "maker" -> {V(Text("A"), Wired("text", "A"))}
      [] field \in Prices -> {V(Number(OddPrice), Wired("nat", OddPrice))}
      [] OTHER -> {}

\* Mutant of Toggled: what is missing is sent as a zero.
ToggledWithZero(m) ==
    [k \in DOMAIN m |->
        CASE k = "status" -> Object((IF "Active" \in DOMAIN m.status.fields THEN "Paused" ELSE "Active") :> Null)
          [] k = "description" -> Text("")
          [] k = "aa_score" -> IF FromOpt(m[k]) = Undefined THEN Number(0) ELSE FromOpt(m[k])
          [] OTHER -> FromOpt(m[k])]

\* The switch of ModelsTab: a model read from the index is sent back with the
\* other status and without a description, which the client does not keep.
Toggled(m) ==
    [k \in DOMAIN m |->
        CASE k = "status" -> Object((IF "Active" \in DOMAIN m.status.fields THEN "Paused" ELSE "Active") :> Null)
          [] k = "description" -> Text("")
          [] k = "aa_score" -> IF FromOpt(m[k]) = Undefined THEN List(<<>>) ELSE List(<<FromOpt(m[k])>>)
          [] k = "release_date" -> IF FromOpt(m[k]) \in {Undefined, Text("")} THEN List(<<>>) ELSE List(<<FromOpt(m[k])>>)
          [] k = "extra_body_json" -> FromOpt(m[k])
          [] OTHER -> m[k]]

\* Times a million, for the form, and divided by it again: some prices become
\* the floating-point number next to them.
PerMillion(d) == IF d = Number(OddPrice) THEN Number(OddPrice + 1) ELSE d

\* ModelForm sends what it shows: a model edited in it loses its description,
\* its score and its release date, and is active.
FormModel(m) ==
    [k \in DOMAIN m |->
        CASE k = "status" -> Object("Active" :> Null)
          [] k = "description" -> Text("")
          [] k \in {"aa_score", "release_date"} -> List(<<>>)
          [] k = "extra_body_json" -> IF FromOpt(m[k]) \in {Undefined, Text("")} THEN Undefined ELSE FromOpt(m[k])
          [] k \in Prices -> PerMillion(m[k])
          [] OTHER -> m[k]]

\* External: what the agent reads a value on the wire as.
RECURSIVE Decode(_, _)
Decode(t, w) ==
    CASE t.idl = "text" -> Text(w.text)
      [] t.idl = "bool" -> Flag(w.bool)
      [] t.idl = "opt" -> List([i \in DOMAIN w.opt |-> Decode(t.of, w.opt[i])])
      [] t.idl = "variant" -> Object([k \in DOMAIN w.variant |-> Null])
      [] OTHER -> Number(w.nat)
StoredModel(field, v) == [k \in DOMAIN Preset |-> IF k = field THEN v.means ELSE One(Preset[k]).means]

-----------------------------------------------------------------------------

NoAnswer == [none |-> TRUE]

CodecInit ==
    \/ \E m \in DOMAIN Api : \E f \in DOMAIN Api[m] : \E v \in Api[m][f] :
         call = [kind |-> "request", of |-> m, field |-> f, value |-> v, got |-> NoAnswer]
    \/ \E r \in DOMAIN Mappers : \E f \in DOMAIN Mappers[r] : \E v \in Answered(Mappers[r][f]) :
         call = [kind |-> "answer", of |-> r, field |-> f, value |-> v, got |-> NoAnswer]
    \/ \E f \in DOMAIN Preset : \E v \in StoredValues(f) : \E kind \in {"toggle", "form"} :
         call = [kind |-> kind, of |-> "update_model", field |-> f, value |-> v, got |-> NoAnswer]
    \/ \E e \in SetupErrors : call = [kind |-> "setup", of |-> "error", field |-> "class", value |-> e, got |-> NoAnswer]
    \/ \E m \in StoredMessages : call = [kind |-> "message", of |-> "message", field |-> "isComplete", value |-> m, got |-> NoAnswer]

Request ==
    /\ call.kind = "request" /\ call.got = NoAnswer
    /\ call' = [call EXCEPT !.got = Encode(ArgumentType(call.of),
                    NormalizePayload(call.of, Argument(call.of, call.field, call.value, "js")))]

Answer ==
    /\ call.kind = "answer" /\ call.got = NoAnswer
    /\ call' = [call EXCEPT !.got = MapField(Mappers[call.of][call.field], call.value.js)]

ReadMessage ==
    /\ call.kind = "message" /\ call.got = NoAnswer
    /\ call' = [call EXCEPT !.got = [complete |-> IsComplete(call.value)]]

\* What resolveUserSession shows of a failure.
SetupFails ==
    /\ call.kind = "setup" /\ call.got = NoAnswer
    /\ LET class == ClassifySetupError(call.value)
       IN  call' = [call EXCEPT !.got = [class |-> class, fatal |-> IsFatal(class)]]

\* The model as the index answered it, with the maker that the mapper gives it.
ReadModel ==
    LET stored == StoredModel(call.field, call.value)
    IN  [k \in DOMAIN stored |->
            LET d == Decode(Model.fields[k], stored[k])
            IN  IF k = "maker" THEN MapField(MapBackendModel[k], d) ELSE d]

ToggleModel ==
    /\ call.kind = "toggle" /\ call.got = NoAnswer
    /\ call' = [call EXCEPT !.got = Encode(Model, NormalizePayload("update_model", Toggled(ReadModel)))]

EditModel ==
    /\ call.kind = "form" /\ call.got = NoAnswer
    /\ call' = [call EXCEPT !.got = Encode(Model, NormalizePayload("update_model", FormModel(ReadModel)))]

CodecNext == Request \/ Answer \/ ReadMessage \/ SetupFails \/ ToggleModel \/ EditModel

CodecSpec == CodecInit /\ [][CodecNext]_codecVars

-----------------------------------------------------------------------------

\* Whatever a call passes arrives at the canister as it was meant, whether it is
\* missing, empty, wrapped by hand or not; in particular a list of one element
\* is not taken for a wrapped value, and no call is refused by the serializer.
CallsArriveAsMeant ==
    call.kind = "request" /\ call.got # NoAnswer =>
        call.got = Wired("record", Argument(call.of, call.field, call.value, "means"))

\* What a canister answers is what the client holds: every error of a message is
\* read as itself with what it carries, an error of a call is thrown and told,
\* never taken for a value; and a message counts as complete exactly when its
\* generation is over.
AnswersAreRead ==
    call.got # NoAnswer =>
        /\ call.kind = "answer" =>
             \/ call.got = call.value.means
             \/ /\ {"thrown"} = DOMAIN call.got \cap DOMAIN call.value.means
                /\ Tells(call.got.thrown, call.value.means.thrown)
        /\ call.kind = "message" => call.got.complete = call.value.over

\* Whether trying again is futile does not depend on the agent keeping the code of
\* the error: the same failure told in words alone, or under a code that the table
\* misses, is judged the same, and never lost among the unknown ones.
FailuresAreKnown ==
    call.kind = "setup" /\ call.got # NoAnswer =>
        LET words == [IC0505 |-> "no Wasm module", IC0537 |-> "no Wasm module", IC0508 |-> "stopped"]
        IN  \A c \in DOMAIN words :
              call.value.says = words[c] =>
                /\ call.got.class # "Connection Error"
                /\ {call.value.code, call.value.status} \cap DOMAIN ErrorCodeMap \subseteq {c} => call.got.fatal = IsFatal(c)

\* A value keeps its meaning on its way from the client to a canister and back.
ValuesSurvive == CallsArriveAsMeant /\ AnswersAreRead /\ FailuresAreKnown

\* Pausing a model and resuming it changes its status, drops its description (and
\* an empty release date), writes its maker in small letters, and nothing else:
\* the model went through the mappers, the page and the adapter.  Saving it from
\* the form keeps every field the form shows, a price up to rounding.
ToggleKeepsModel ==
    call.kind \in {"toggle", "form"} /\ call.got # NoAnswer =>
        LET stored == StoredModel(call.field, call.value)
            after == call.got.record
            empty == Some(Wired("text", ""))
            dropped == {"status", "description"} \cup IF call.kind = "form" THEN {"aa_score", "release_date"} ELSE {}
            Rewritten(k) ==
                \/ k \in {"release_date", "extra_body_json"} /\ stored[k] = empty /\ after[k] = None
                \/ k = "maker" /\ after[k].text = ToLowerCase(stored[k].text)
                \/ k \in Prices /\ call.kind = "form" /\ after[k].nat = stored[k].nat + 1
        IN  /\ call.kind = "toggle" => after.status # stored.status
            /\ \A k \in DOMAIN stored \ dropped : after[k] = stored[k] \/ Rewritten(k)

=============================================================================
