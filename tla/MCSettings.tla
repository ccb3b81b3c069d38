------------------------------ MODULE MCSettings ------------------------------
EXTENDS Settings, Shortcuts

(***************************************************************************)
(* Lists: none, one entry, and a label of 31 characters that the editor    *)
(* lets through but whose bytes do not fit.                                *)
(***************************************************************************)
Short   == [label |-> << 97 >>, app_id |-> << 98 >>]
Longest == [label |-> [i \in 1 .. 31 |-> 97], app_id |-> [i \in 1 .. 127 |-> 98]]
Wide    == [label |-> [i \in 1 .. 62 |-> IF i % 2 = 1 THEN 195 ELSE 188], app_id |-> << 98 >>]
Times(n, e) == [i \in 1 .. n |-> e]

MCLists == {<< >>, << Short >>, << Wide >>}

(***************************************************************************)
(* A device with two entries, and one with the entry of a format that is   *)
(* not known; when its flash is erased, it is as new.                      *)
(***************************************************************************)
MCFirstBlobs == {Blob(Times(2, Short)), << 2, 10, 0 >>}

MCTokens     == {"t1", "long"}
MCLongTokens == {"long"}

(***************************************************************************)
(* Ten of the longest entries fit the blob and are found again, an         *)
(* eleventh is refused; the editor's limit is not the firmware's when      *)
(* characters take more than one byte.                                     *)
(***************************************************************************)
ASSUME LongestFits ==
  /\ Len(Blob(Times(10, Longest))) <= ShortcutSize.AppShortcuts + 1
  /\ ShortcutSize.AppShortcuts + 1 <= SHORTCUTS_BLOB_MAX
  /\ ShortcutsLoad(Blob(Times(10, Longest))) = Times(10, Longest)
  /\ ~Valid(Times(11, Short)) /\ ~Encode("AppShortcuts", [items |-> Times(11, Short)]).ok

ASSUME EditorLimit == EditorAccepts(<< Wide >>) /\ ~Valid(<< Wide >>)
================================================================================
