------------------------------- MODULE Shortcuts -------------------------------
(***************************************************************************)
(* The list of app shortcuts, from the bytes of a request to the bytes in  *)
(* flash and back (shortcuts.c, and the checks of shortcuts_post_handler   *)
(* in webserver.c and of the editor in index.html).  A list is a sequence  *)
(* of entries [label, app_id], each the bytes of its UTF-8 text.           *)
(***************************************************************************)
EXTENDS Nanopb

SHORTCUTS_MAX      == 10
SHORTCUTS_FORMAT_V1 == 1
SHORTCUTS_BLOB_MAX == 1792
LABEL_MAX          == 31
APPID_MAX          == 127

Netflix == [label |-> << 78, 101, 116, 102, 108, 105, 120 >>,
            app_id |-> << 110, 101, 116, 102, 108, 105, 120, 58, 47, 47, 104, 111, 109, 101 >>]
YouTube == [label |-> << 89, 111, 117, 84, 117, 98, 101 >>,
            app_id |-> << 104, 116, 116, 112, 115, 58, 47, 47, 119, 119, 119, 46, 121, 111, 117,
                          116, 117, 98, 101, 46, 99, 111, 109, 47, 116, 118 >>]

LoadDefaults == << Netflix, YouTube >>

(* shortcuts_load: << >> stands for a key that is absent.                    *)
ShortcutsLoad(blob) ==
  LET r == Decode("AppShortcuts", Tail(blob))
  IN IF Len(blob) < 1 \/ blob[1] # SHORTCUTS_FORMAT_V1 THEN LoadDefaults
     ELSE IF r.ok THEN r.v.items ELSE LoadDefaults

(* A text is there and fits its member with the terminator.                  *)
Fits(text, max) == Len(text) \in 1 .. max

(* What shortcuts_post_handler lets into the struct, and `valid' to flash.   *)
Valid(list) == /\ Len(list) <= SHORTCUTS_MAX
               /\ \A i \in DOMAIN list : /\ Fits(list[i].label, ShortcutStruct.label - 1)
                                         /\ Fits(list[i].app_id, ShortcutStruct.app_id - 1)

(* shortcuts_save, up to the call of the store.                              *)
Blob(list) == << SHORTCUTS_FORMAT_V1 >> \o Encode("AppShortcuts", [items |-> list]).v

(* The characters of a text: maxLength in the editor counts those, not bytes.*)
CharsOf(text) == Cardinality({i \in DOMAIN text : text[i] \notin 128 .. 191})

EditorAccepts(list) ==
  /\ Len(list) <= SHORTCUTS_MAX
  /\ \A i \in DOMAIN list : /\ CharsOf(list[i].label) \in 1 .. LABEL_MAX
                            /\ CharsOf(list[i].app_id) \in 1 .. APPID_MAX
================================================================================
