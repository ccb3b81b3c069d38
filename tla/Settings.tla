------------------------------- MODULE Settings -------------------------------
(***************************************************************************)
(* What outlives a restart, and how a boot finds it again: app_main        *)
(* (main.c), the paired flag, the Samsung token and the shortcuts in NVS   *)
(* (store.c), their users (samsung_tv.c, the shortcut handlers of          *)
(* webserver.c and the pages that call them), and the WiFi connection a    *)
(* boot waits for (wifi.c).                                                *)
(*                                                                         *)
(* The flash changes one entry at a time, as a whole.  The access point,   *)
(* the Samsung TV and its user are the environment.                        *)
(***************************************************************************)
EXTENDS Integers, Sequences

CONSTANTS Lists,      \* the lists that requests carry
          FirstBlobs, \* the shortcut entries the device may start with
          Tokens,     \* the tokens the Samsung TV gives
          LongTokens, \* those that do not fit SAMSUNG_TOKEN_MAX
          Connections, \* bound: the requests of the page that may overlap
          Together,   \* bound: the shortcuts are also used on a device that
                      \* has the address of a Samsung TV
          MaxFaults   \* bound: restarts, outages, failed calls, lost requests

(* shortcuts.c and the editor: Valid, EditorAccepts, Blob, ShortcutsLoad,    *)
(* LoadDefaults and SHORTCUTS_BLOB_MAX of module Shortcuts, where it is      *)
(* checked.                                                                  *)
CONSTANTS Storable(_), \* the firmware stores this list
          Editable(_), \* the editor of the page lets it through
          EntryOf(_),  \* the entry in flash that saving it leaves
          ListOf(_),   \* the list that loading finds in an entry, or in none: << >>
          Defaults,    \* the list of a new device
          EntryMax,    \* the longest entry
          DraftMax     \* the most items the editor allows

ASSUME TokenAssumption == LongTokens \subseteq Tokens
ASSUME BoundAssumption == MaxFaults \in Nat
ASSUME ConnectionAssumption == "other" \notin Connections /\ "nobody" \notin Connections

(* A list that may be stored is found again, and fits.                       *)
ASSUME RoundTripAssumption ==
  \A list \in Lists :
    Storable(list) => ListOf(EntryOf(list)) = list /\ Len(EntryOf(list)) <= EntryMax

ASSUME FlashAssumption ==
  /\ ListOf(<< >>) = Defaults
  /\ EntryMax \in Nat
  /\ \A blob \in FirstBlobs : Len(blob) <= EntryMax

VARIABLES
  nvs,        \* the namespace "atv": paired, token (sstoken), shortcuts
  boot,       \* app_main: "flash", "wifi", "services" or "done"
  paired,     \* g_atv_status.paired
  wifi,       \* the station: "off", "connecting", "up" or "lost"
  ap,         \* the access point is there
  uri,        \* the token in s_uri
  ws,         \* the Samsung TV: "none" (no address configured), "off", "prompt",
              \* "granted" or "paired"
  grant,      \* the token on its way from the TV
  trusted,    \* the tokens the TV accepts
  worker,     \* the POST /api/shortcuts the HTTP worker has
  shown,      \* the page's shortcuts
  loading,    \* the page is open and its load has not been served
  reply,      \* on each connection of the page, the ok on its way, with the list
              \* it makes the page show; is it that of the last change?
  stale,      \* history: of the flash the page was not told all: another
              \* client saved, or a request or its reply went wrong
  tripped,    \* history: the page fell behind by itself: the last reply to arrive
              \* was not the last one made, or found the draft longer
  good,       \* history: the lists that may be stored: the one saved last,
              \* and those whose saving failed since
  kept,       \* history: the token and the flag that were stored
  bootToken,  \* history: the token stored when the device started
  faults

web     == << worker, shown, loading, reply, stale, tripped >>
tv      == << uri, ws, grant, trusted, bootToken >>
station == << wifi, ap >>
vars    == << nvs, boot, paired, station, tv, web, good, kept, faults >>

NoToken == "none"
Nobody  == [who |-> "nobody"]
Empty   == [paired |-> FALSE, token |-> NoToken, shortcuts |-> << >>]
Forgot  == [paired |-> FALSE, token |-> NoToken]
NoReply == [to |-> "nothing", list |-> << >>, fresh |-> FALSE]

(* The flash has changed, or may have, since these replies were made.        *)
Older(replies) == [k \in Connections |-> [replies[k] EXCEPT !.fresh = FALSE]]

Fault == faults < MaxFaults /\ faults' = faults + 1

Stored == ListOf(nvs.shortcuts)

Init ==
  /\ nvs \in {[Empty EXCEPT !.shortcuts = b] : b \in FirstBlobs}
  /\ boot = "flash" /\ paired = FALSE /\ wifi = "off" /\ ap \in BOOLEAN
  /\ uri = NoToken /\ ws \in {"none", "off"} /\ grant = NoToken /\ trusted = {}
  /\ bootToken = NoToken
  /\ worker = Nobody /\ shown = << >> /\ loading = FALSE
  /\ reply = [k \in Connections |-> NoReply] /\ stale = TRUE /\ tripped = FALSE
  /\ good = {Stored} /\ kept = Forgot
  /\ faults = 0

-------------------------------------------------------------------------------
(* app_main.                                                                 *)

ReadFlash ==
  /\ boot = "flash"
  /\ boot' = "wifi" /\ paired' = nvs.paired
  /\ wifi' = "connecting"
  /\ UNCHANGED << nvs, ap, tv, web, good, kept, faults >>

(* nvs_flash_init reports no free pages, or a newer version: all is erased.  *)
EraseFlash ==
  /\ boot = "flash" /\ Fault
  /\ nvs' = Empty /\ kept' = Forgot /\ good' = {Defaults}
  /\ stale' = TRUE /\ reply' = Older(reply)
  /\ UNCHANGED << boot, paired, station, tv, worker, shown, loading, tripped >>

(* Mutant: a token that is too long is cut, not refused.                     *)
FitAnyToken(t) == t

(* store_get_samsung_token, whose error samsung_tv_init ignores.             *)
FitToken(t) == IF t \in LongTokens THEN NoToken ELSE t

(* webserver_start; samsung_tv_init, which without an address does nothing.  *)
StartServices ==
  /\ boot = "services"
  /\ boot' = "done"
  /\ uri' = IF ws = "none" THEN NoToken ELSE FitToken(nvs.token)
  /\ bootToken' = kept.token
  /\ UNCHANGED << nvs, paired, station, ws, grant, trusted, web, good, kept, faults >>

SessionOver == ws' = (IF ws = "none" THEN "none" ELSE "off") /\ grant' = NoToken

(* The request the worker had fails on the page, which says so; a load that  *)
(* nobody has served fails too (LoadFails), or is tried again.               *)
Restart ==
  /\ boot # "flash" /\ Fault
  /\ boot' = "flash" /\ wifi' = "off" /\ paired' = FALSE
  /\ uri' = NoToken /\ SessionOver /\ bootToken' = NoToken
  /\ worker' = Nobody
  /\ UNCHANGED << nvs, ap, trusted, shown, loading, reply, stale, tripped, good, kept >>

-------------------------------------------------------------------------------
(* wifi.c.                                                                   *)

(* The bit that wifi_connect waits for stays set.                            *)
GotIp ==
  /\ wifi = "connecting" /\ ap
  /\ wifi' = "up"
  /\ boot' = IF boot = "wifi" THEN "services" ELSE boot
  /\ UNCHANGED << nvs, paired, ap, tv, web, good, kept, faults >>

NotFound ==
  /\ wifi = "connecting" /\ ~ap
  /\ wifi' = "lost"
  /\ UNCHANGED << nvs, boot, paired, ap, tv, web, good, kept, faults >>

ApDrops ==
  /\ ap /\ Fault
  /\ ap' = FALSE
  /\ wifi' = IF wifi = "up" THEN "lost" ELSE wifi
  /\ SessionOver
  /\ UNCHANGED << nvs, boot, paired, uri, trusted, bootToken, web, good, kept >>

ApReturns ==
  /\ ~ap
  /\ ap' = TRUE
  /\ UNCHANGED << nvs, boot, paired, wifi, tv, web, good, kept, faults >>

(* Mutant: only the first connection is tried again.                         *)
RetryAtBoot ==
  /\ wifi = "lost" /\ boot = "wifi"
  /\ wifi' = "connecting"
  /\ UNCHANGED << nvs, boot, paired, ap, tv, web, good, kept, faults >>

StaDisconnected ==
  /\ wifi = "lost"
  /\ wifi' = "connecting"
  /\ UNCHANGED << nvs, boot, paired, ap, tv, web, good, kept, faults >>

-------------------------------------------------------------------------------
(* The paired flag.                                                          *)

Online == boot = "done" /\ wifi = "up"

(* Mutant: the flag is not committed.                                        *)
PairedInRam ==
  /\ Online /\ ~paired
  /\ paired' = TRUE /\ kept' = [kept EXCEPT !.paired = TRUE]
  /\ UNCHANGED << nvs, boot, station, tv, web, good, faults >>

(* An exchange succeeds; if the store fails, the device restarts.            *)
PairingDone ==
  /\ Online /\ ~paired
  /\ nvs' = [nvs EXCEPT !.paired = TRUE]
  /\ paired' = TRUE /\ kept' = [kept EXCEPT !.paired = TRUE]
  /\ UNCHANGED << boot, station, tv, web, good, faults >>

-------------------------------------------------------------------------------
(* The Samsung TV.                                                           *)

(* The client connects, and connects again, with the URI of the boot.        *)
WsConnects ==
  /\ Online /\ ws = "off"
  /\ ws' = IF uri \in trusted THEN "paired" ELSE "prompt"
  /\ UNCHANGED << nvs, boot, paired, station, uri, grant, trusted, bootToken, web, good, kept, faults >>

UserApproves ==
  /\ ws = "prompt"
  /\ \E t \in Tokens \ trusted :
       /\ grant' = t
       /\ trusted' \in {trusted \cup {t}, {t}}
  /\ ws' = "granted"
  /\ UNCHANGED << nvs, boot, paired, station, uri, bootToken, web, good, kept, faults >>

UserRefuses ==
  /\ ws = "prompt"
  /\ ws' = "off"
  /\ UNCHANGED << nvs, boot, paired, station, uri, grant, trusted, bootToken, web, good, kept, faults >>

(* Mutant: only the first token is saved.                                    *)
SaveFirstToken ==
  /\ ws = "granted"
  /\ ws' = "paired" /\ grant' = NoToken
  /\ nvs' = IF nvs.token = NoToken THEN [nvs EXCEPT !.token = grant] ELSE nvs
  /\ kept' = [kept EXCEPT !.token = grant]
  /\ UNCHANGED << boot, paired, station, uri, trusted, bootToken, web, good, faults >>

(* ms.channel.connect with a token.                                          *)
SaveToken ==
  /\ ws = "granted"
  /\ ws' = "paired" /\ grant' = NoToken
  /\ nvs' = [nvs EXCEPT !.token = grant]
  /\ kept' = [kept EXCEPT !.token = grant]
  /\ UNCHANGED << boot, paired, station, uri, trusted, bootToken, web, good, faults >>

(* nvs_set_str or nvs_commit fails, and nobody looks: the token may be       *)
(* stored or not.                                                            *)
TokenNotSaved ==
  /\ ws = "granted" /\ Fault
  /\ ws' = "paired" /\ grant' = NoToken
  /\ \/ UNCHANGED << nvs, kept >>
     \/ nvs' = [nvs EXCEPT !.token = grant] /\ kept' = [kept EXCEPT !.token = grant]
  /\ UNCHANGED << boot, paired, station, uri, trusted, bootToken, web, good >>

WsDrops ==
  /\ ws \in {"granted", "paired"} /\ Fault
  /\ ws' = "off" /\ grant' = NoToken
  /\ UNCHANGED << nvs, boot, paired, station, uri, trusted, bootToken, web, good, kept >>

-------------------------------------------------------------------------------
(* The shortcuts: GET and POST /api/shortcuts, from the page and from        *)
(* another client.  Nothing on the page waits for a request: its load and    *)
(* its saves overlap, on connections of their own.  A save has its list from *)
(* the click on; until the one worker takes it, it changes nothing, so here  *)
(* it begins with that.                                                      *)

rest == << boot, paired, station, tv, kept >>

InUse == Together \/ ws = "none"

Free(k) == worker = Nobody /\ reply[k] = NoReply

(* The page is opened, or opened again; what the old one asked for is lost   *)
(* on it, and what the worker had not yet taken is now another client's.     *)
PageOpens ==
  /\ Online /\ InUse /\ worker = Nobody
  /\ shown' = << >> /\ loading' = TRUE
  /\ reply' = [k \in Connections |-> NoReply]
  /\ stale' = TRUE /\ tripped' = FALSE
  /\ UNCHANGED << nvs, rest, worker, good, faults >>

ServeLoad(k) ==
  /\ Online /\ loading /\ Free(k)
  /\ loading' = FALSE
  /\ reply' = [reply EXCEPT ![k] = [to |-> "load", list |-> Stored, fresh |-> TRUE]]
  /\ UNCHANGED << nvs, rest, worker, shown, stale, tripped, good, faults >>

(* Memory runs out on the way: the entries so far are sent as the list.      *)
ServeSome(k) ==
  /\ Online /\ loading /\ Free(k) /\ Fault
  /\ loading' = FALSE /\ stale' = TRUE
  /\ \E n \in 0 .. Len(Stored) :
       reply' = [reply EXCEPT ![k] =
                   [to |-> "load", list |-> SubSeq(Stored, 1, n), fresh |-> FALSE]]
  /\ UNCHANGED << nvs, rest, worker, shown, tripped, good >>

(* The page then shows an empty list, whatever was saved in the meantime.    *)
LoadFails ==
  /\ loading /\ Fault
  /\ loading' = FALSE /\ shown' = << >> /\ stale' = TRUE
  /\ UNCHANGED << nvs, rest, worker, reply, tripped, good >>

Request(who, list) == worker' = [who |-> who, list |-> list, body |-> "part"]

PageSave(k) ==
  /\ Online /\ InUse /\ Free(k)
  /\ \E list \in Lists : Editable(list) /\ Request(k, list)
  /\ UNCHANGED << nvs, rest, shown, loading, reply, stale, tripped, good, faults >>

OtherSave ==
  /\ Online /\ InUse /\ worker = Nobody
  /\ \E list \in Lists : Request("other", list)
  /\ UNCHANGED << nvs, rest, shown, loading, reply, stale, tripped, good, faults >>

(* The last segment of the body; those before change nothing.                *)
ReceiveSegment ==
  /\ worker # Nobody /\ worker.body = "part"
  /\ worker' = [worker EXCEPT !.body = "whole"]
  /\ UNCHANGED << nvs, rest, shown, loading, reply, stale, tripped, good, faults >>

(* An error is a message on the page, which keeps the list it had.           *)
Refuse == worker' = Nobody /\ UNCHANGED << rest, shown, loading, tripped >>

ReceiveFails ==
  /\ worker # Nobody /\ worker.body = "part" /\ Fault
  /\ Refuse
  /\ UNCHANGED << nvs, reply, stale, good >>

RefuseList ==
  /\ worker # Nobody /\ worker.body = "whole" /\ ~Storable(worker.list)
  /\ Refuse
  /\ UNCHANGED << nvs, reply, stale, good, faults >>

(* The ok goes to the one who asked; the replies before it are older.        *)
Acknowledge ==
  /\ good' = {worker.list}
  /\ worker' = Nobody
  /\ IF worker.who \in Connections
       THEN /\ reply' = [Older(reply) EXCEPT ![worker.who] =
                           [to |-> "save", list |-> worker.list, fresh |-> TRUE]]
            /\ UNCHANGED stale
       ELSE reply' = Older(reply) /\ stale' = TRUE
  /\ UNCHANGED << rest, shown, loading, tripped, faults >>

(* Mutant: the list is not committed.                                        *)
SaveUncommitted ==
  /\ worker # Nobody /\ worker.body = "whole" /\ Storable(worker.list)
  /\ Acknowledge
  /\ UNCHANGED nvs

SaveShortcuts ==
  /\ worker # Nobody /\ worker.body = "whole" /\ Storable(worker.list)
  /\ nvs' = [nvs EXCEPT !.shortcuts = EntryOf(worker.list)]
  /\ Acknowledge

(* nvs_set_blob or nvs_commit fails: the list may be stored or not.          *)
SaveFails ==
  /\ worker # Nobody /\ worker.body = "whole" /\ Storable(worker.list) /\ Fault
  /\ nvs' \in {nvs, [nvs EXCEPT !.shortcuts = EntryOf(worker.list)]}
  /\ good' = good \cup {worker.list}
  /\ stale' = TRUE /\ reply' = Older(reply)
  /\ Refuse

(* A reply arrives, in whatever order: the page shows its list.  Only the    *)
(* last one made tells it what is stored.                                    *)
Arrives(k) ==
  /\ shown' = reply[k].list
  /\ reply' = [reply EXCEPT ![k] = NoReply]
  /\ stale' = (stale /\ ~reply[k].fresh) /\ tripped' = ~reply[k].fresh
  /\ UNCHANGED << nvs, rest, worker, loading, good, faults >>

LoadArrives(k) == reply[k].to = "load" /\ Arrives(k)

(* Mutant: the page goes on with the list it had.                            *)
SaveForgotten(k) ==
  /\ reply[k].to = "save"
  /\ reply' = [reply EXCEPT ![k] = NoReply]
  /\ stale' = (stale /\ ~reply[k].fresh) /\ tripped' = ~reply[k].fresh
  /\ UNCHANGED << nvs, rest, worker, shown, loading, good, faults >>

SaveArrives(k) == reply[k].to = "save" /\ Arrives(k)

(* The user has added to the draft since, or opened it anew: it has more     *)
(* items than were sent, and the page, going through both, throws before it  *)
(* takes over the list.                                                      *)
SaveStumbles(k) ==
  /\ reply[k].to = "save" /\ Len(reply[k].list) < DraftMax
  /\ reply' = [reply EXCEPT ![k] = NoReply]
  /\ stale' = (stale /\ ~reply[k].fresh) /\ tripped' = TRUE
  /\ UNCHANGED << nvs, rest, worker, shown, loading, good, faults >>

(* The load fails after all; of a save, "request failed", and yet it is      *)
(* done.                                                                     *)
ReplyLost(k) ==
  /\ reply[k] # NoReply /\ Fault
  /\ reply' = [reply EXCEPT ![k] = NoReply]
  /\ shown' = IF reply[k].to = "load" THEN << >> ELSE shown
  /\ stale' = (stale \/ reply[k].to = "load" \/ reply[k].fresh)
  /\ UNCHANGED << nvs, rest, worker, loading, tripped, good >>

Next ==
  \/ ReadFlash \/ EraseFlash \/ StartServices \/ Restart
  \/ GotIp \/ NotFound \/ ApDrops \/ ApReturns \/ StaDisconnected
  \/ PairingDone
  \/ WsConnects \/ UserApproves \/ UserRefuses \/ SaveToken \/ TokenNotSaved \/ WsDrops
  \/ PageOpens \/ LoadFails
  \/ OtherSave \/ ReceiveSegment \/ ReceiveFails \/ RefuseList
  \/ SaveShortcuts \/ SaveFails
  \/ \E k \in Connections : \/ ServeLoad(k) \/ ServeSome(k) \/ PageSave(k)
                            \/ LoadArrives(k) \/ SaveArrives(k) \/ SaveStumbles(k)
                            \/ ReplyLost(k)

(* app_main and the WiFi driver go on.                                       *)
Spec == Init /\ [][Next]_vars
        /\ WF_vars(ReadFlash) /\ WF_vars(StartServices)
        /\ WF_vars(GotIp) /\ WF_vars(NotFound) /\ WF_vars(StaDisconnected)

-------------------------------------------------------------------------------
(* Properties.                                                               *)

(* Every variable holds a value of its kind; a token in the URI fits its     *)
(* buffer and a list its blob (samsung_tv.c, shortcuts.c).                   *)
TypeOK ==
  /\ nvs.paired \in BOOLEAN /\ nvs.token \in Tokens \cup {NoToken}
  /\ Len(nvs.shortcuts) <= EntryMax
  /\ boot \in {"flash", "wifi", "services", "done"} /\ paired \in BOOLEAN
  /\ wifi \in {"off", "connecting", "up", "lost"} /\ ap \in BOOLEAN
  /\ uri \in (Tokens \ LongTokens) \cup {NoToken} /\ trusted \subseteq Tokens
  /\ ws \in {"none", "off", "prompt", "granted", "paired"} /\ grant \in Tokens \cup {NoToken}
  /\ loading \in BOOLEAN /\ stale \in BOOLEAN /\ tripped \in BOOLEAN

(* What a load finds is the list that was saved last, whatever restarts came *)
(* between, also when that list is empty; the defaults come only before the  *)
(* first save; a list that was refused is never found (shortcuts_load,       *)
(* shortcuts_save, shortcuts_post_handler).                                  *)
KeepsSavedList == Stored \in good

Settled == \A k \in Connections : reply[k] = NoReply

(* The page has the list that is stored, so that an edit starts from it,     *)
(* unless another client saved since, a request or a reply of the page went  *)
(* wrong, its last two replies came in the other order, or the draft grew    *)
(* while it was saved (loadShortcuts, editSave.onclick,                      *)
(* shortcuts_post_handler).                                                  *)
PageInStep == Settled /\ ~stale /\ ~tripped => shown = Stored

(* "On a successful save the firmware persists the new blob to NVS and the   *)
(* row re-renders from the fresh copy" (the comment on the editor in         *)
(* index.html): when every request of the page has succeeded and nobody else *)
(* saved, the row is what is stored.  It is not when the draft has grown     *)
(* during the save, or when an older reply arrives after a newer one: Save   *)
(* stays enabled while a save is under way, and the load is not waited for.  *)
SavedShown == Settled /\ ~stale => shown = Stored

(* "Pairing survives everything short of deleting the certificate", and the  *)
(* erasing of the flash: every boot finds it (app_main, store.c).            *)
PairingKept == kept.paired /\ boot # "flash" => paired

(* "Future boots don't prompt again": the Samsung TV asks its user only in a *)
(* boot before which no token was stored, or one that the TV has since given *)
(* up or that does not fit (samsung_tv_init, handle_message).                *)
NoPromptAgain ==
  ws = "prompt" => bootToken = NoToken \/ bootToken \notin trusted \/ bootToken \in LongTokens

(* When the access point is back for good, the device is: it boots through   *)
(* and has a connection (wifi_connect, event_handler).                       *)
BackOnline == <>[]ap => <>[](boot = "done" /\ wifi = "up")
================================================================================
