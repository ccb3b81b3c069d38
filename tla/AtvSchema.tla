------------------------------ MODULE AtvSchema ------------------------------
(***************************************************************************)
(* The message types of the two TV protocols and of the stored shortcuts,  *)
(* as the generated nanopb code declares them.  A descriptor is the        *)
(* sequence of the fields of a message, in tag order.  The types used are  *)
(* BOOL, INT32, UINT32, UENUM, STRING, BYTES and MESSAGE, the repetition   *)
(* rules REQUIRED, SINGULAR, OPTIONAL and REPEATED, and two CALLBACK       *)
(* fields; nothing else nanopb knows (oneof, extensions, fixed-width       *)
(* numbers, pointers, packed arrays) occurs in these schemas.              *)
(***************************************************************************)
EXTENDS Integers, Sequences, TLC

(***************************************************************************)
(* One line of a FIELDLIST.                                                *)
(***************************************************************************)
X(atype, htype, type, name, tag) ==
  [atype |-> atype, htype |-> htype, type |-> type, name |-> name, tag |-> tag]

Singular(type, name, tag) == X("STATIC", "SINGULAR", type, name, tag)
Optional(name, tag)       == X("STATIC", "OPTIONAL", "MESSAGE", name, tag)
Required(type, name, tag) == X("STATIC", "REQUIRED", type, name, tag)
Repeated(name, tag)       == X("STATIC", "REPEATED", "MESSAGE", name, tag)

RemoteParts ==
  [RemoteAppLinkLaunchRequest |-> << Singular("STRING", "app_link", 1) >>,
   Empty |-> << >>,
   RemoteSetVolumeLevel |->
     << Singular("UINT32", "unknown1", 1), Singular("UINT32", "unknown2", 2),
        Singular("STRING", "player_model", 3), Singular("UINT32", "unknown4", 4),
        Singular("UINT32", "unknown5", 5), Singular("UINT32", "volume_max", 6),
        Singular("UINT32", "volume_level", 7), Singular("BOOL", "volume_muted", 8) >>,
   RemoteStart |-> << Singular("BOOL", "started", 1) >>,
   RemoteVoiceEnd |-> << Singular("INT32", "session_id", 1) >>,
   RemoteVoicePayload |-> << Singular("INT32", "session_id", 1),
                             X("CALLBACK", "SINGULAR", "BYTES", "samples", 2) >>,
   RemoteVoiceBegin |-> << Singular("INT32", "session_id", 1),
                           Singular("STRING", "package_name", 2) >>]

ImeParts ==
  [RemoteTextFieldStatus |->
     << Singular("INT32", "counter_field", 1), Singular("STRING", "value", 2),
        Singular("INT32", "start", 3), Singular("INT32", "end", 4),
        Singular("INT32", "int5", 5), Singular("STRING", "label", 6) >>,
   RemoteImeShowRequest |-> << Optional("remote_text_field_status", 2) >>,
   RemoteEditInfo |-> << Singular("INT32", "insert", 1), Optional("text_field_status", 2) >>,
   RemoteImeObject |-> << Singular("INT32", "start", 1), Singular("INT32", "end", 2),
                          Singular("STRING", "value", 3) >>,
   RemoteImeBatchEdit |-> << Singular("INT32", "ime_counter", 1),
                             Singular("INT32", "field_counter", 2), Repeated("edit_info", 3) >>,
   RemoteAppInfo |->
     << Singular("INT32", "counter", 1), Singular("INT32", "int2", 2),
        Singular("INT32", "int3", 3), Singular("STRING", "int4", 4),
        Singular("INT32", "int7", 7), Singular("INT32", "int8", 8),
        Singular("STRING", "label", 10), Singular("STRING", "app_package", 12),
        Singular("INT32", "int13", 13) >>,
   RemoteImeKeyInject |-> << Optional("app_info", 1), Optional("text_field_status", 2) >>]

ControlParts ==
  [RemoteKeyInject |-> << Singular("UENUM", "key_code", 1), Singular("UENUM", "direction", 2) >>,
   RemotePingResponse |-> << Singular("INT32", "val1", 1) >>,
   RemotePingRequest |-> << Singular("INT32", "val1", 1), Singular("INT32", "val2", 2) >>,
   RemoteSetActive |-> << Singular("INT32", "active", 1) >>,
   RemoteDeviceInfo |->
     << Singular("STRING", "model", 1), Singular("STRING", "vendor", 2),
        Singular("INT32", "unknown1", 3), Singular("STRING", "unknown2", 4),
        Singular("STRING", "package_name", 5), Singular("STRING", "app_version", 6) >>,
   RemoteConfigure |-> << Singular("INT32", "code1", 1), Optional("device_info", 2) >>,
   RemoteError |-> << Singular("BOOL", "value", 1),
                      X("CALLBACK", "OPTIONAL", "MESSAGE", "message", 2) >>]

RemoteMessage ==
  << Optional("remote_configure", 1), Optional("remote_set_active", 2),
     Optional("remote_error", 3), Optional("remote_ping_request", 8),
     Optional("remote_ping_response", 9), Optional("remote_key_inject", 10),
     Optional("remote_ime_key_inject", 20), Optional("remote_ime_batch_edit", 21),
     Optional("remote_ime_show_request", 22), Optional("remote_voice_begin", 30),
     Optional("remote_voice_payload", 31), Optional("remote_voice_end", 32),
     Optional("remote_start", 40), Optional("remote_set_volume_level", 50),
     Optional("remote_adjust_volume_level", 51),
     Optional("remote_set_preferred_audio_device", 60),
     Optional("remote_reset_preferred_audio_device", 61),
     Optional("remote_app_link_launch_request", 90) >>

PoloMessages ==
  [OuterMessage |->
     << Required("UINT32", "protocol_version", 1), Required("UENUM", "status", 2),
        Optional("pairing_request", 10), Optional("pairing_request_ack", 11),
        Optional("options", 20), Optional("configuration", 30),
        Optional("configuration_ack", 31), Optional("secret", 40),
        Optional("secret_ack", 41) >>,
   PairingRequest |-> << Required("STRING", "service_name", 1),
                         X("STATIC", "OPTIONAL", "STRING", "client_name", 2) >>,
   PairingRequestAck |-> << X("STATIC", "OPTIONAL", "STRING", "server_name", 1) >>,
   Options |-> << Repeated("input_encodings", 1), Repeated("output_encodings", 2),
                  X("STATIC", "OPTIONAL", "UENUM", "preferred_role", 3) >>,
   Encoding |-> << Required("UENUM", "type", 1), Required("UINT32", "symbol_length", 2) >>,
   Configuration |-> << Required("MESSAGE", "encoding", 1), Required("UENUM", "client_role", 2) >>,
   Secret |-> << Required("BYTES", "secret", 1) >>]

ShortcutMessages ==
  [AppShortcut |-> << Singular("STRING", "label", 1), Singular("STRING", "app_id", 2) >>,
   AppShortcuts |-> << Repeated("items", 1) >>]

FieldList == [RemoteMessage |-> RemoteMessage] @@ RemoteParts @@ ImeParts
               @@ ControlParts @@ PoloMessages @@ ShortcutMessages

(***************************************************************************)
(* The capacities: the members of the C structs.  A string of n bytes has  *)
(* room for n - 1 and the terminator, a bytes member for n.                *)
(***************************************************************************)
RemoteStruct ==
  [app_link |-> 128, player_model |-> 64, package_name |-> 64, value |-> 128,
   int4 |-> 64, label |-> 64, app_package |-> 128, model |-> 64, vendor |-> 64,
   unknown2 |-> 16, app_version |-> 32, edit_info |-> 2]

PoloStruct ==
  [service_name |-> 32, client_name |-> 32, server_name |-> 64, secret |-> 32,
   input_encodings |-> 4, output_encodings |-> 4]

ShortcutStruct == [label |-> 32, app_id |-> 128, items |-> 10]

(***************************************************************************)
(* The _MSGTYPE of every field that holds a message.                       *)
(***************************************************************************)
PartType ==
  [remote_text_field_status |-> "RemoteTextFieldStatus", edit_info |-> "RemoteEditInfo",
   app_info |-> "RemoteAppInfo", device_info |-> "RemoteDeviceInfo",
   message |-> "RemoteMessage"]

RemoteMsgType ==
  [remote_configure |-> "RemoteConfigure", remote_set_active |-> "RemoteSetActive",
   remote_error |-> "RemoteError", remote_ping_request |-> "RemotePingRequest",
   remote_ping_response |-> "RemotePingResponse", remote_key_inject |-> "RemoteKeyInject",
   remote_ime_key_inject |-> "RemoteImeKeyInject",
   remote_ime_batch_edit |-> "RemoteImeBatchEdit",
   remote_ime_show_request |-> "RemoteImeShowRequest",
   remote_voice_begin |-> "RemoteVoiceBegin", remote_voice_payload |-> "RemoteVoicePayload",
   remote_voice_end |-> "RemoteVoiceEnd", remote_start |-> "RemoteStart",
   remote_set_volume_level |-> "RemoteSetVolumeLevel", remote_adjust_volume_level |-> "Empty",
   remote_set_preferred_audio_device |-> "Empty",
   remote_reset_preferred_audio_device |-> "Empty",
   remote_app_link_launch_request |-> "RemoteAppLinkLaunchRequest"]

PoloMsgType ==
  [pairing_request |-> "PairingRequest", pairing_request_ack |-> "PairingRequestAck",
   options |-> "Options", configuration |-> "Configuration", configuration_ack |-> "Empty",
   secret |-> "Secret", secret_ack |-> "Secret", input_encodings |-> "Encoding",
   output_encodings |-> "Encoding", encoding |-> "Encoding"]

SubmsgDesc(m, f) ==
  CASE m = "RemoteEditInfo" -> "RemoteImeObject"
    [] m = "RemoteImeKeyInject" /\ f.name = "text_field_status" -> "RemoteTextFieldStatus"
    [] m = "AppShortcuts" -> "AppShortcut"
    [] OTHER -> (PartType @@ RemoteMsgType @@ PoloMsgType)[f.name]

(***************************************************************************)
(* The descriptor PB_BIND builds: the field list with, for every field,    *)
(* the type nanopb handles it as, its capacity (the size of a string or    *)
(* bytes member, the length of an array) and its submessage.               *)
(***************************************************************************)
Ltype == [BOOL |-> "BOOL", INT32 |-> "VARINT", UINT32 |-> "UVARINT", UENUM |-> "UVARINT",
          STRING |-> "STRING", BYTES |-> "BYTES", MESSAGE |-> "SUBMESSAGE"]

Struct(m) == CASE m \in DOMAIN PoloMessages -> PoloStruct
               [] m \in DOMAIN ShortcutMessages -> ShortcutStruct
               [] OTHER -> RemoteStruct

ArraySize(m, f) == IF f.htype = "REPEATED" THEN Struct(m)[f.name] ELSE 1

DataSize(m, f) == IF f.atype = "STATIC" /\ f.type \in {"STRING", "BYTES"}
                  THEN Struct(m)[f.name] ELSE 4

BindField(m, f) ==
  [name |-> f.name, tag |-> f.tag, atype |-> f.atype, htype |-> f.htype,
   ltype |-> Ltype[f.type], size |-> DataSize(m, f), array |-> ArraySize(m, f),
   sub |-> IF f.type = "MESSAGE" THEN SubmsgDesc(m, f) ELSE "none"]

Bind(m, fields) == [i \in DOMAIN fields |-> BindField(m, fields[i])]

Descriptor == [m \in DOMAIN FieldList |-> Bind(m, FieldList[m])]

(***************************************************************************)
(* The enumerations: the values a key injection may carry, and the others. *)
(***************************************************************************)
KeyCode      == 0 .. 304
Direction    == 0 .. 3
Status       == {200, 400, 401, 402}
RoleType     == 0 .. 2
EncodingType == 0 .. 4

EnumType == [key_code |-> KeyCode, direction |-> Direction, status |-> Status,
             type |-> EncodingType, client_role |-> RoleType, preferred_role |-> RoleType]

(***************************************************************************)
(* The `_size' constants: the longest encoding of each message.            *)
(***************************************************************************)
RemoteSize ==
  [RemoteAppInfo |-> 326, RemoteAppLinkLaunchRequest |-> 130, RemoteConfigure |-> 270,
   RemoteDeviceInfo |-> 256, RemoteEditInfo |-> 166, RemoteImeBatchEdit |-> 360,
   RemoteImeKeyInject |-> 571, RemoteImeObject |-> 152, RemoteImeShowRequest |-> 242,
   RemoteKeyInject |-> 5, RemotePingRequest |-> 22, RemotePingResponse |-> 11,
   RemoteSetActive |-> 11, RemoteSetVolumeLevel |-> 103, RemoteStart |-> 2,
   RemoteTextFieldStatus |-> 239, RemoteVoiceBegin |-> 76, RemoteVoiceEnd |-> 11, Empty |-> 0]

PoloSize == [Configuration |-> 12, Encoding |-> 8, Options |-> 82, OuterMessage |-> 321,
             PairingRequestAck |-> 65, PairingRequest |-> 66, Secret |-> 34]

ShortcutSize == [AppShortcut |-> 163, AppShortcuts |-> 1660]
==============================================================================
