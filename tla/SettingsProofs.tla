---------------------------- MODULE SettingsProofs ----------------------------
(***************************************************************************)
(* Theorems about Settings: what the flash keeps, what the page has of it,   *)
(* and what a boot makes of it, for any lists, tokens and number of          *)
(* restarts, outages and failed calls.                                       *)
(***************************************************************************)
EXTENDS Settings, TLAPS

(* The entries the flash may hold: one of the start, none, or a saved one.   *)
Entries == FirstBlobs \cup {<< >>} \cup {EntryOf(l) : l \in {k \in Lists : Storable(k)}}

Requests == [who : Connections \cup {"other"}, list : Lists, body : {"part", "whole"}]

(* What a reply carries: a list that was saved, or the stored one, or some   *)
(* of its entries.                                                           *)
Carried == Lists \cup {<< >>} \cup {ListOf(e) : e \in Entries}
             \cup UNION {{SubSeq(ListOf(e), 1, n) : n \in Int} : e \in Entries}

Replies == [to : {"nothing", "load", "save"}, list : Carried, fresh : BOOLEAN]

(* Every variable holds a value of its kind.                                 *)
Types ==
  /\ nvs \in [paired : BOOLEAN, token : Tokens \cup {NoToken}, shortcuts : Entries]
  /\ kept \in [paired : BOOLEAN, token : Tokens \cup {NoToken}]
  /\ boot \in {"flash", "wifi", "services", "done"} /\ paired \in BOOLEAN
  /\ wifi \in {"off", "connecting", "up", "lost"} /\ ap \in BOOLEAN
  /\ uri \in (Tokens \ LongTokens) \cup {NoToken} /\ trusted \subseteq Tokens
  /\ ws \in {"none", "off", "prompt", "granted", "paired"} /\ grant \in Tokens \cup {NoToken}
  /\ loading \in BOOLEAN /\ stale \in BOOLEAN /\ tripped \in BOOLEAN
  /\ reply \in [Connections -> Replies]
  /\ worker \in Requests \cup {Nobody}

(* What the histories say of the flash.                                      *)
FlashInv ==
  /\ Stored \in good
  /\ kept.paired = nvs.paired
  /\ boot # "flash" => paired = nvs.paired

(* However the requests of the page overlap: a reply that is still the last  *)
(* word of the flash carries what is stored, and a page that was told all,   *)
(* in order, shows it or has such a reply under way.                         *)
PageInv ==
  /\ \A k \in Connections : reply[k].fresh => reply[k].list = Stored
  /\ ~stale /\ ~tripped => shown = Stored \/ \E k \in Connections : reply[k].fresh

(* A session of the Samsung TV is one of a completed boot, whose URI has the *)
(* token that was stored before; what asks for approval is not trusted.      *)
TokenInv ==
  /\ kept.token = nvs.token
  /\ boot = "done" /\ ws # "none" => uri = FitToken(bootToken)
  /\ ws \notin {"none", "off"} => boot = "done"
  /\ ws = "granted" => grant \in Tokens
  /\ ws = "prompt" => uri \notin trusted

IInv == Types /\ FlashInv /\ PageInv /\ TokenInv

-------------------------------------------------------------------------------

(* No entry counts as one: an erased flash.                                  *)
LEMMA NoneIsEntry == << >> \in Entries
  BY DEF Entries

(* So is what a save of a list writes.                                       *)
LEMMA SavedIsEntry ==
  ASSUME NEW list \in Lists, Storable(list)
  PROVE  EntryOf(list) \in Entries
  BY DEF Entries

(* What Request makes of its arguments.                                      *)
LEMMA RequestType ==
  ASSUME NEW who \in Connections \cup {"other"}, NEW list \in Lists, NEW body \in {"part", "whole"}
  PROVE  [who |-> who, list |-> list, body |-> body] \in Requests
  BY DEF Requests

(* A reply is one of its kind; no reply tells the page nothing.              *)
LEMMA ReplyType ==
  ASSUME NEW to \in {"nothing", "load", "save"}, NEW list \in Carried, NEW fresh \in BOOLEAN
  PROVE  [to |-> to, list |-> list, fresh |-> fresh] \in Replies
  BY DEF Replies

LEMMA NoReplyType == NoReply \in Replies /\ NoReply.fresh = FALSE
  BY DEF NoReply, Replies, Carried

(* To grow older takes from the replies nothing but that they are the last   *)
(* word.                                                                     *)
LEMMA OlderReplies ==
  ASSUME NEW replies \in [Connections -> Replies]
  PROVE  /\ Older(replies) \in [Connections -> Replies]
         /\ \A k \in Connections : Older(replies)[k].fresh = FALSE
  BY DEF Older, Replies

(* The list in an entry, and the first of its items, may be carried.         *)
LEMMA CarriedLists ==
  ASSUME NEW e \in Entries
  PROVE  /\ ListOf(e) \in Carried
         /\ \A n \in Int : SubSeq(ListOf(e), 1, n) \in Carried
  BY DEF Carried

(* What a request is made of, before and after its last segment.             *)
LEMMA RequestFields ==
  ASSUME NEW r \in Requests
  PROVE  /\ r.who \in Connections \cup {"other"} /\ r.list \in Lists /\ r.body \in {"part", "whole"}
         /\ [r EXCEPT !.body = "whole"] \in Requests
         /\ [r EXCEPT !.body = "whole"].who = r.who
         /\ r # Nobody
  BY DEF Requests, Nobody

(* Each step keeps every variable in its type.                               *)
LEMMA TypesStep ==
  ASSUME Types, [Next]_vars
  PROVE  Types'
<1> USE DEF Types, web, tv, station, rest, Fault
<1>1. CASE ReadFlash
  BY <1>1 DEF ReadFlash
<1>2. CASE EraseFlash
  <2>1. /\ nvs' \in [paired : BOOLEAN, token : Tokens \cup {NoToken}, shortcuts : Entries]
        /\ kept' \in [paired : BOOLEAN, token : Tokens \cup {NoToken}]
    BY <1>2, NoneIsEntry DEF EraseFlash, Empty, Forgot
  <2>2. reply' \in [Connections -> Replies] /\ stale' = TRUE
    BY <1>2, OlderReplies DEF EraseFlash
  <2>3. UNCHANGED << boot, paired, station, tv, worker, shown, loading, tripped >>
    BY <1>2 DEF EraseFlash
  <2> QED
    BY <2>1, <2>2, <2>3
<1>3. CASE StartServices
  <2>1. boot' = "done" /\ uri' \in (Tokens \ LongTokens) \cup {NoToken}
    BY <1>3, TokenAssumption DEF StartServices, FitToken
  <2>2. UNCHANGED << nvs, paired, station, ws, grant, trusted, web, kept >>
    BY <1>3 DEF StartServices
  <2> QED
    BY <2>1, <2>2
<1>4. CASE Restart
  <2>1. /\ boot' = "flash" /\ wifi' = "off" /\ paired' = FALSE
        /\ uri' = NoToken /\ ws' \in {"none", "off"} /\ grant' = NoToken /\ worker' = Nobody
    BY <1>4 DEF Restart, SessionOver
  <2>2. UNCHANGED << nvs, ap, trusted, shown, loading, reply, stale, tripped, kept >>
    BY <1>4 DEF Restart
  <2> QED
    BY <2>1, <2>2
<1>5. CASE GotIp
  BY <1>5 DEF GotIp
<1>6. CASE NotFound
  BY <1>6 DEF NotFound
<1>7. CASE ApDrops
  <2>1. UNCHANGED << nvs, boot, paired, uri, trusted, web, kept >>
    BY <1>7 DEF ApDrops
  <2>2. /\ ap' \in BOOLEAN /\ wifi' \in {"off", "connecting", "up", "lost"}
        /\ ws' \in {"none", "off", "prompt", "granted", "paired"} /\ grant' \in Tokens \cup {NoToken}
    BY <1>7 DEF ApDrops, SessionOver
  <2> QED
    BY <2>1, <2>2
<1>8. CASE ApReturns
  BY <1>8 DEF ApReturns
<1>9. CASE StaDisconnected
  BY <1>9 DEF StaDisconnected
<1>10. CASE PairingDone
  BY <1>10 DEF PairingDone, Online
<1>11. CASE WsConnects
  BY <1>11 DEF WsConnects, Online
<1>12. CASE UserApproves
  BY <1>12 DEF UserApproves
<1>13. CASE UserRefuses
  BY <1>13 DEF UserRefuses
<1>14. CASE SaveToken
  BY <1>14 DEF SaveToken
<1>15. CASE TokenNotSaved
  BY <1>15 DEF TokenNotSaved
<1>16. CASE WsDrops
  BY <1>16 DEF WsDrops
<1>17. CASE PageOpens
  <2>1. reply' \in [Connections -> Replies]
    <3>1. reply' = [k \in Connections |-> NoReply]
      BY <1>17 DEF PageOpens
    <3>2. [k \in Connections |-> NoReply] \in [Connections -> Replies]
      BY NoReplyType, Zenon
    <3> QED
      BY <3>1, <3>2, Zenon
  <2>2. UNCHANGED << nvs, rest, worker >>
    BY <1>17 DEF PageOpens
  <2>3. loading' \in BOOLEAN /\ stale' \in BOOLEAN /\ tripped' \in BOOLEAN
    BY <1>17 DEF PageOpens
  <2> QED
    BY <2>1, <2>2, <2>3
<1>18. CASE LoadFails
  <2>1. UNCHANGED << nvs, rest, worker, reply, tripped >>
    BY <1>18 DEF LoadFails
  <2>2. loading' \in BOOLEAN /\ stale' \in BOOLEAN
    BY <1>18 DEF LoadFails
  <2> QED
    BY <2>1, <2>2
<1>19. CASE OtherSave
  <2>1. PICK list \in Lists : Request("other", list)
    BY <1>19 DEF OtherSave
  <2>2. worker' \in Requests
    BY <2>1, RequestType DEF Request
  <2> QED
    BY <1>19, <2>2 DEF OtherSave
<1>20. CASE ReceiveSegment
  BY <1>20, RequestFields DEF ReceiveSegment
<1>21. CASE ReceiveFails
  BY <1>21 DEF ReceiveFails, Refuse
<1>22. CASE RefuseList
  BY <1>22 DEF RefuseList, Refuse
<1>23. CASE SaveShortcuts
  <2>1. /\ worker.list \in Lists /\ Storable(worker.list)
        /\ worker.who \in Connections \cup {"other"}
    BY <1>23, RequestFields DEF SaveShortcuts
  <2>2. EntryOf(worker.list) \in Entries
    BY <2>1, SavedIsEntry
  <2>3. nvs' \in [paired : BOOLEAN, token : Tokens \cup {NoToken}, shortcuts : Entries]
    BY <1>23, <2>2 DEF SaveShortcuts
  <2>4. PICK r : r = [to |-> "save", list |-> worker.list, fresh |-> TRUE]
    OBVIOUS
  <2>5. r \in Replies
    <3>1. worker.list \in Carried
      BY <2>1 DEF Carried
    <3> QED
      BY <2>4, <3>1, ReplyType
  <2>6. reply' \in [Connections -> Replies]
    <3>1. reply' \in {Older(reply), [Older(reply) EXCEPT ![worker.who] = r]}
      BY <1>23, <2>4 DEF SaveShortcuts, Acknowledge
    <3>2. Older(reply) \in [Connections -> Replies]
      BY OlderReplies
    <3>3. [Older(reply) EXCEPT ![worker.who] = r] \in [Connections -> Replies]
      BY <2>5, <3>2
    <3> QED
      BY <3>1, <3>2, <3>3
  <2>7. stale' \in BOOLEAN /\ worker' = Nobody
    BY <1>23 DEF SaveShortcuts, Acknowledge
  <2>8. UNCHANGED << rest, shown, loading, tripped >>
    BY <1>23 DEF SaveShortcuts, Acknowledge
  <2> QED
    BY <2>3, <2>6, <2>7, <2>8
<1>24. CASE SaveFails
  <2>1. worker.list \in Lists /\ Storable(worker.list)
    BY <1>24, RequestFields DEF SaveFails
  <2>2. EntryOf(worker.list) \in Entries
    BY <2>1, SavedIsEntry
  <2>3. nvs' \in [paired : BOOLEAN, token : Tokens \cup {NoToken}, shortcuts : Entries]
    BY <1>24, <2>2 DEF SaveFails
  <2>4. reply' \in [Connections -> Replies]
    BY <1>24, OlderReplies DEF SaveFails
  <2>5. stale' \in BOOLEAN /\ worker' = Nobody
    BY <1>24 DEF SaveFails, Refuse
  <2>6. UNCHANGED << rest, shown, loading, tripped >>
    BY <1>24 DEF SaveFails, Refuse
  <2> QED
    BY <2>3, <2>4, <2>5, <2>6
<1>25. CASE \E k \in Connections : ServeLoad(k)
  <2>1. PICK k \in Connections : ServeLoad(k)
    BY <1>25
  <2>2. PICK r : r = [to |-> "load", list |-> Stored, fresh |-> TRUE]
    OBVIOUS
  <2>3. Stored \in Carried
    BY CarriedLists DEF Stored
  <2>4. r \in Replies
    BY <2>2, <2>3, ReplyType
  <2>5. reply' \in [Connections -> Replies]
    BY <2>1, <2>2, <2>4 DEF ServeLoad
  <2>6. UNCHANGED << nvs, rest, worker, stale, tripped >>
    BY <2>1 DEF ServeLoad
  <2>7. loading' \in BOOLEAN
    BY <2>1 DEF ServeLoad
  <2> QED
    BY <2>5, <2>6, <2>7
<1>26. CASE \E k \in Connections : ServeSome(k)
  <2>1. PICK k \in Connections : ServeSome(k)
    BY <1>26
  <2>2. PICK n \in 0 .. Len(Stored) :
          reply' = [reply EXCEPT ![k] =
                      [to |-> "load", list |-> SubSeq(Stored, 1, n), fresh |-> FALSE]]
    BY <2>1 DEF ServeSome
  <2>3. PICK r : r = [to |-> "load", list |-> SubSeq(Stored, 1, n), fresh |-> FALSE]
    OBVIOUS
  <2>4. SubSeq(Stored, 1, n) \in Carried
    <3>1. n \in Int
      OBVIOUS
    <3> QED
      BY <3>1, CarriedLists DEF Stored
  <2>5. r \in Replies
    BY <2>3, <2>4, ReplyType
  <2>6. reply' \in [Connections -> Replies]
    BY <2>2, <2>3, <2>5
  <2>7. UNCHANGED << nvs, rest, worker, tripped >>
    BY <2>1 DEF ServeSome
  <2>8. loading' \in BOOLEAN /\ stale' \in BOOLEAN
    BY <2>1 DEF ServeSome
  <2> QED
    BY <2>6, <2>7, <2>8
<1>27. CASE \E k \in Connections : PageSave(k)
  <2>1. PICK k \in Connections : PageSave(k)
    BY <1>27
  <2>2. PICK list \in Lists : Request(k, list)
    BY <2>1 DEF PageSave
  <2>3. worker' \in Requests
    BY <2>2, RequestType DEF Request
  <2> QED
    BY <2>1, <2>3 DEF PageSave
<1>28. CASE \E k \in Connections : LoadArrives(k)
  <2>1. PICK k \in Connections : Arrives(k)
    BY <1>28 DEF LoadArrives
  <2>2. reply' \in [Connections -> Replies]
    BY <2>1, NoReplyType DEF Arrives
  <2>3. stale' \in BOOLEAN /\ tripped' \in BOOLEAN
    BY <2>1 DEF Arrives, Replies
  <2> QED
    BY <2>1, <2>2, <2>3 DEF Arrives
<1>29. CASE \E k \in Connections : SaveArrives(k)
  <2>1. PICK k \in Connections : Arrives(k)
    BY <1>29 DEF SaveArrives
  <2>2. reply' \in [Connections -> Replies]
    BY <2>1, NoReplyType DEF Arrives
  <2>3. stale' \in BOOLEAN /\ tripped' \in BOOLEAN
    BY <2>1 DEF Arrives, Replies
  <2> QED
    BY <2>1, <2>2, <2>3 DEF Arrives
<1>30. CASE \E k \in Connections : ReplyLost(k)
  <2>1. PICK k \in Connections : ReplyLost(k)
    BY <1>30
  <2>2. reply' \in [Connections -> Replies]
    BY <2>1, NoReplyType DEF ReplyLost
  <2>3. stale' \in BOOLEAN
    BY <2>1 DEF ReplyLost, Replies
  <2> QED
    BY <2>1, <2>2, <2>3 DEF ReplyLost
<1>32. CASE \E k \in Connections : SaveStumbles(k)
  <2>1. PICK k \in Connections : SaveStumbles(k)
    BY <1>32
  <2>2. reply' \in [Connections -> Replies]
    BY <2>1, NoReplyType DEF SaveStumbles
  <2>3. stale' \in BOOLEAN /\ tripped' \in BOOLEAN
    BY <2>1 DEF SaveStumbles, Replies
  <2>4. UNCHANGED << nvs, rest, worker, loading >>
    BY <2>1 DEF SaveStumbles
  <2> QED
    BY <2>2, <2>3, <2>4
<1>31. CASE UNCHANGED vars
  BY <1>31 DEF vars
<1> QED
  BY <1>1, <1>2, <1>3, <1>4, <1>5, <1>6, <1>7, <1>8, <1>9, <1>10, <1>11,
     <1>12, <1>13, <1>14, <1>15, <1>16, <1>17, <1>18, <1>19, <1>20, <1>21,
     <1>22, <1>23, <1>24, <1>25, <1>26, <1>27, <1>28, <1>29, <1>30, <1>31, <1>32 DEF
     Next

(* Each step keeps the flash in agreement with its histories.                *)
LEMMA FlashStep ==
  ASSUME Types, FlashInv, [Next]_vars
  PROVE  FlashInv'
<1> USE DEF Types, FlashInv, Stored, web, tv, station, rest, Fault
<1>1. CASE ReadFlash
  BY <1>1 DEF ReadFlash
<1>2. CASE EraseFlash
  BY <1>2, FlashAssumption DEF EraseFlash, Empty, Forgot
<1>3. CASE StartServices
  BY <1>3 DEF StartServices, FitToken
<1>4. CASE Restart
  BY <1>4 DEF Restart, SessionOver
<1>5. CASE GotIp
  BY <1>5 DEF GotIp
<1>6. CASE NotFound
  BY <1>6 DEF NotFound
<1>7. CASE ApDrops
  BY <1>7 DEF ApDrops, SessionOver
<1>8. CASE ApReturns
  BY <1>8 DEF ApReturns
<1>9. CASE StaDisconnected
  BY <1>9 DEF StaDisconnected
<1>10. CASE PairingDone
  BY <1>10 DEF PairingDone, Online
<1>11. CASE WsConnects
  BY <1>11 DEF WsConnects, Online
<1>12. CASE UserApproves
  BY <1>12 DEF UserApproves
<1>13. CASE UserRefuses
  BY <1>13 DEF UserRefuses
<1>14. CASE SaveToken
  BY <1>14 DEF SaveToken
<1>15. CASE TokenNotSaved
  BY <1>15 DEF TokenNotSaved
<1>16. CASE WsDrops
  BY <1>16 DEF WsDrops
<1>17. CASE PageOpens
  BY <1>17 DEF PageOpens
<1>18. CASE LoadFails
  BY <1>18 DEF LoadFails
<1>19. CASE OtherSave
  BY <1>19 DEF OtherSave, Request
<1>20. CASE ReceiveSegment
  BY <1>20 DEF ReceiveSegment
<1>21. CASE ReceiveFails
  BY <1>21 DEF ReceiveFails, Refuse
<1>22. CASE RefuseList
  BY <1>22 DEF RefuseList, Refuse
<1>23. CASE SaveShortcuts
  BY <1>23, RoundTripAssumption, RequestFields DEF SaveShortcuts, Acknowledge
<1>24. CASE SaveFails
  BY <1>24, RoundTripAssumption, RequestFields DEF SaveFails, Refuse
<1>25. CASE \E k \in Connections : ServeLoad(k)
  BY <1>25 DEF ServeLoad
<1>26. CASE \E k \in Connections : ServeSome(k)
  BY <1>26 DEF ServeSome
<1>27. CASE \E k \in Connections : PageSave(k)
  BY <1>27 DEF PageSave
<1>28. CASE \E k \in Connections : LoadArrives(k)
  BY <1>28 DEF LoadArrives, Arrives
<1>29. CASE \E k \in Connections : SaveArrives(k)
  BY <1>29 DEF SaveArrives, Arrives
<1>30. CASE \E k \in Connections : ReplyLost(k)
  BY <1>30 DEF ReplyLost
<1>32. CASE \E k \in Connections : SaveStumbles(k)
  BY <1>32 DEF SaveStumbles
<1>31. CASE UNCHANGED vars
  BY <1>31 DEF vars
<1> QED
  BY <1>1, <1>2, <1>3, <1>4, <1>5, <1>6, <1>7, <1>8, <1>9, <1>10, <1>11,
     <1>12, <1>13, <1>14, <1>15, <1>16, <1>17, <1>18, <1>19, <1>20, <1>21,
     <1>22, <1>23, <1>24, <1>25, <1>26, <1>27, <1>28, <1>29, <1>30, <1>31, <1>32 DEF
     Next

(* A reply that arrives leaves the page in agreement with the flash, or      *)
(* tells that an older one came last.                                        *)
LEMMA ArrivalKeepsPage ==
  ASSUME Types, PageInv, NEW k \in Connections, Arrives(k)
  PROVE  PageInv'
<1>1. reply'[k].fresh = FALSE /\ \A j \in Connections : j # k => reply'[j] = reply[j]
  BY NoReplyType DEF Arrives, Types
<1>2. UNCHANGED nvs /\ shown' = reply[k].list /\ tripped' = ~reply[k].fresh
  BY DEF Arrives
<1>3. Stored' = Stored
  BY <1>2 DEF Stored
<1> QED
  BY <1>1, <1>2, <1>3 DEF PageInv

(* Each step keeps the page in agreement with the flash.                     *)
LEMMA PageStep ==
  ASSUME Types, PageInv, [Next]_vars
  PROVE  PageInv'
<1> USE DEF Types, PageInv, Stored, web, tv, station, rest, Fault
<1>1. CASE ReadFlash
  BY <1>1 DEF ReadFlash
<1>2. CASE EraseFlash
  <2>1. stale' = TRUE /\ reply' = Older(reply)
    BY <1>2 DEF EraseFlash
  <2> QED
    BY <2>1, OlderReplies
<1>3. CASE StartServices
  BY <1>3 DEF StartServices, FitToken
<1>4. CASE Restart
  BY <1>4 DEF Restart, SessionOver
<1>5. CASE GotIp
  BY <1>5 DEF GotIp
<1>6. CASE NotFound
  BY <1>6 DEF NotFound
<1>7. CASE ApDrops
  BY <1>7 DEF ApDrops, SessionOver
<1>8. CASE ApReturns
  BY <1>8 DEF ApReturns
<1>9. CASE StaDisconnected
  BY <1>9 DEF StaDisconnected
<1>10. CASE PairingDone
  BY <1>10 DEF PairingDone, Online
<1>11. CASE WsConnects
  BY <1>11 DEF WsConnects, Online
<1>12. CASE UserApproves
  BY <1>12 DEF UserApproves
<1>13. CASE UserRefuses
  BY <1>13 DEF UserRefuses
<1>14. CASE SaveToken
  BY <1>14 DEF SaveToken
<1>15. CASE TokenNotSaved
  BY <1>15 DEF TokenNotSaved
<1>16. CASE WsDrops
  BY <1>16 DEF WsDrops
<1>17. CASE PageOpens
  BY <1>17, NoReplyType DEF PageOpens
<1>18. CASE LoadFails
  BY <1>18 DEF LoadFails
<1>19. CASE OtherSave
  BY <1>19 DEF OtherSave
<1>20. CASE ReceiveSegment
  BY <1>20 DEF ReceiveSegment
<1>21. CASE ReceiveFails
  BY <1>21 DEF ReceiveFails, Refuse
<1>22. CASE RefuseList
  BY <1>22 DEF RefuseList, Refuse
<1>23. CASE SaveShortcuts
  <2>1. /\ worker.list \in Lists /\ Storable(worker.list)
        /\ worker.who \in Connections \cup {"other"}
    BY <1>23, RequestFields DEF SaveShortcuts
  <2>2. ListOf(EntryOf(worker.list)) = worker.list
    BY <2>1, RoundTripAssumption
  <2>3. nvs'.shortcuts = EntryOf(worker.list)
    BY <1>23 DEF SaveShortcuts
  <2>4. Stored' = worker.list
    BY <2>2, <2>3
  <2>5. CASE worker.who \in Connections
    <3>1. PICK r : r = [to |-> "save", list |-> worker.list, fresh |-> TRUE]
      OBVIOUS
    <3>2. r.list = worker.list /\ r.fresh
      BY <3>1
    <3>3. reply' = [Older(reply) EXCEPT ![worker.who] = r]
      BY <1>23, <2>5, <3>1 DEF SaveShortcuts, Acknowledge
    <3>4. reply'[worker.who] = r
      BY <2>5, <3>3, OlderReplies
    <3>5. \A k \in Connections : k # worker.who => reply'[k].fresh = FALSE
      BY <3>3, OlderReplies
    <3> QED
      BY <2>4, <2>5, <3>2, <3>4, <3>5
  <2>6. CASE worker.who \notin Connections
    <3>1. stale' = TRUE /\ reply' = Older(reply)
      BY <1>23, <2>6 DEF SaveShortcuts, Acknowledge
    <3> QED
      BY <3>1, OlderReplies
  <2> QED
    BY <2>5, <2>6
<1>24. CASE SaveFails
  <2>1. stale' = TRUE /\ reply' = Older(reply)
    BY <1>24 DEF SaveFails
  <2> QED
    BY <2>1, OlderReplies
<1>25. CASE \E k \in Connections : ServeLoad(k)
  <2>1. PICK k \in Connections : ServeLoad(k)
    BY <1>25
  <2>2. PICK r : r = [to |-> "load", list |-> Stored, fresh |-> TRUE]
    OBVIOUS
  <2>3. r.list = Stored /\ r.fresh
    BY <2>2
  <2>4. reply' = [reply EXCEPT ![k] = r]
    BY <2>1, <2>2 DEF ServeLoad
  <2>5. UNCHANGED << nvs, shown, stale, tripped >>
    BY <2>1 DEF ServeLoad
  <2> QED
    BY <2>3, <2>4, <2>5
<1>26. CASE \E k \in Connections : ServeSome(k)
  <2>1. PICK k \in Connections : ServeSome(k)
    BY <1>26
  <2>2. PICK n \in 0 .. Len(Stored) :
          reply' = [reply EXCEPT ![k] =
                      [to |-> "load", list |-> SubSeq(Stored, 1, n), fresh |-> FALSE]]
    BY <2>1 DEF ServeSome
  <2>3. reply'[k].fresh = FALSE /\ \A j \in Connections : j # k => reply'[j] = reply[j]
    BY <2>2
  <2>4. UNCHANGED nvs /\ stale' = TRUE
    BY <2>1 DEF ServeSome
  <2> QED
    BY <2>3, <2>4
<1>27. CASE \E k \in Connections : PageSave(k)
  BY <1>27 DEF PageSave
<1>28. CASE \E k \in Connections : LoadArrives(k)
  <2>1. PICK k \in Connections : Arrives(k)
    BY <1>28 DEF LoadArrives
  <2> QED
    BY <2>1, ArrivalKeepsPage
<1>29. CASE \E k \in Connections : SaveArrives(k)
  <2>1. PICK k \in Connections : Arrives(k)
    BY <1>29 DEF SaveArrives
  <2> QED
    BY <2>1, ArrivalKeepsPage
<1>30. CASE \E k \in Connections : ReplyLost(k)
  <2>1. PICK k \in Connections : ReplyLost(k)
    BY <1>30
  <2>2. reply'[k].fresh = FALSE /\ \A j \in Connections : j # k => reply'[j] = reply[j]
    BY <2>1, NoReplyType DEF ReplyLost
  <2>3. UNCHANGED << nvs, tripped >>
    BY <2>1 DEF ReplyLost
  <2>4. CASE reply[k].to = "load" \/ reply[k].fresh
    <3>1. stale' = TRUE
      BY <2>1, <2>4 DEF ReplyLost
    <3> QED
      BY <2>2, <2>3, <3>1
  <2>5. CASE reply[k].to # "load" /\ ~reply[k].fresh
    <3>1. UNCHANGED shown /\ (~stale' => ~stale)
      BY <2>1, <2>5 DEF ReplyLost
    <3> QED
      BY <2>2, <2>3, <2>5, <3>1
  <2> QED
    BY <2>4, <2>5
<1>32. CASE \E k \in Connections : SaveStumbles(k)
  <2>1. PICK k \in Connections : SaveStumbles(k)
    BY <1>32
  <2>2. reply'[k].fresh = FALSE /\ \A j \in Connections : j # k => reply'[j] = reply[j]
    BY <2>1, NoReplyType DEF SaveStumbles
  <2>3. UNCHANGED nvs /\ tripped' = TRUE
    BY <2>1 DEF SaveStumbles
  <2> QED
    BY <2>2, <2>3
<1>31. CASE UNCHANGED vars
  BY <1>31 DEF vars
<1> QED
  BY <1>1, <1>2, <1>3, <1>4, <1>5, <1>6, <1>7, <1>8, <1>9, <1>10, <1>11,
     <1>12, <1>13, <1>14, <1>15, <1>16, <1>17, <1>18, <1>19, <1>20, <1>21,
     <1>22, <1>23, <1>24, <1>25, <1>26, <1>27, <1>28, <1>29, <1>30, <1>31, <1>32 DEF
     Next

(* Each step keeps the session of the Samsung TV in agreement with the flash. *)
LEMMA TokenStep ==
  ASSUME Types, FlashInv, TokenInv, [Next]_vars
  PROVE  TokenInv'
<1> USE DEF Types, TokenInv, web, tv, station, rest, Fault
<1>1. CASE ReadFlash
  BY <1>1 DEF ReadFlash
<1>2. CASE EraseFlash
  BY <1>2 DEF EraseFlash, Empty, Forgot
<1>3. CASE StartServices
  BY <1>3 DEF StartServices, FitToken
<1>4. CASE Restart
  BY <1>4 DEF Restart, SessionOver
<1>5. CASE GotIp
  BY <1>5 DEF GotIp
<1>6. CASE NotFound
  BY <1>6 DEF NotFound
<1>7. CASE ApDrops
  BY <1>7 DEF ApDrops, SessionOver
<1>8. CASE ApReturns
  BY <1>8 DEF ApReturns
<1>9. CASE StaDisconnected
  BY <1>9 DEF StaDisconnected
<1>10. CASE PairingDone
  BY <1>10 DEF PairingDone, Online
<1>11. CASE WsConnects
  BY <1>11 DEF WsConnects, Online
<1>12. CASE UserApproves
  BY <1>12 DEF UserApproves
<1>13. CASE UserRefuses
  BY <1>13 DEF UserRefuses
<1>14. CASE SaveToken
  BY <1>14 DEF SaveToken
<1>15. CASE TokenNotSaved
  BY <1>15 DEF TokenNotSaved
<1>16. CASE WsDrops
  BY <1>16 DEF WsDrops
<1>17. CASE PageOpens
  BY <1>17 DEF PageOpens
<1>18. CASE LoadFails
  BY <1>18 DEF LoadFails
<1>19. CASE OtherSave
  BY <1>19 DEF OtherSave, Request
<1>20. CASE ReceiveSegment
  BY <1>20 DEF ReceiveSegment
<1>21. CASE ReceiveFails
  BY <1>21 DEF ReceiveFails, Refuse
<1>22. CASE RefuseList
  BY <1>22 DEF RefuseList, Refuse
<1>23. CASE SaveShortcuts
  BY <1>23 DEF SaveShortcuts, Acknowledge
<1>24. CASE SaveFails
  BY <1>24 DEF SaveFails, Refuse
<1>25. CASE \E k \in Connections : ServeLoad(k)
  BY <1>25 DEF ServeLoad
<1>26. CASE \E k \in Connections : ServeSome(k)
  BY <1>26 DEF ServeSome
<1>27. CASE \E k \in Connections : PageSave(k)
  BY <1>27 DEF PageSave
<1>28. CASE \E k \in Connections : LoadArrives(k)
  BY <1>28 DEF LoadArrives, Arrives
<1>29. CASE \E k \in Connections : SaveArrives(k)
  BY <1>29 DEF SaveArrives, Arrives
<1>30. CASE \E k \in Connections : ReplyLost(k)
  BY <1>30 DEF ReplyLost
<1>32. CASE \E k \in Connections : SaveStumbles(k)
  BY <1>32 DEF SaveStumbles
<1>31. CASE UNCHANGED vars
  BY <1>31 DEF vars
<1> QED
  BY <1>1, <1>2, <1>3, <1>4, <1>5, <1>6, <1>7, <1>8, <1>9, <1>10, <1>11,
     <1>12, <1>13, <1>14, <1>15, <1>16, <1>17, <1>18, <1>19, <1>20, <1>21,
     <1>22, <1>23, <1>24, <1>25, <1>26, <1>27, <1>28, <1>29, <1>30, <1>31, <1>32 DEF
     Next

(* The invariant holds in every reachable state.                             *)
THEOREM Invariance == Spec => []IInv
<1>1. Init => IInv
  <2> SUFFICES ASSUME Init PROVE IInv
    OBVIOUS
  <2>1. PICK b \in FirstBlobs : nvs = [paired |-> FALSE, token |-> NoToken, shortcuts |-> b]
    BY DEF Init, Empty
  <2>2. nvs \in [paired : BOOLEAN, token : Tokens \cup {NoToken}, shortcuts : Entries]
    BY <2>1 DEF Entries
  <2>3. kept = [paired |-> FALSE, token |-> NoToken]
    BY DEF Init, Forgot
  <2>6. Types
    <3>1. /\ kept \in [paired : BOOLEAN, token : Tokens \cup {NoToken}]
          /\ trusted \subseteq Tokens /\ uri = NoToken /\ grant = NoToken
      BY <2>3 DEF Init
    <3>2. boot = "flash" /\ paired = FALSE /\ wifi = "off" /\ ap \in BOOLEAN /\ ws \in {"none", "off"}
      BY DEF Init
    <3>3. worker = Nobody /\ loading = FALSE /\ stale = TRUE /\ tripped = FALSE
      BY DEF Init
    <3>4. reply \in [Connections -> Replies]
      BY NoReplyType DEF Init
    <3> QED
      BY <2>2, <3>1, <3>2, <3>3, <3>4 DEF Types
  <2>7. FlashInv
    <3>1. boot = "flash" /\ Stored \in good
      BY DEF Init
    <3> QED
      BY <2>1, <2>3, <3>1 DEF FlashInv
  <2>4. PageInv
    BY NoReplyType DEF Init, PageInv
  <2>5. TokenInv
    BY <2>1, <2>3 DEF Init, TokenInv
  <2> QED
    BY <2>4, <2>5, <2>6, <2>7 DEF IInv
<1>2. IInv /\ [Next]_vars => IInv'
  BY TypesStep, FlashStep, PageStep, TokenStep DEF IInv
<1> QED
  BY <1>1, <1>2, PTL DEF Spec

(* Types, and every entry in flash fits, for lists and tokens of any kind    *)
(* (store.c, shortcuts.c).                                                   *)
THEOREM TypeCorrect == Spec => []TypeOK
<1>1. IInv => TypeOK
  <2> SUFFICES ASSUME Types PROVE TypeOK
    BY DEF IInv
  <2>1. Len(nvs.shortcuts) <= EntryMax
    <3>1. CASE nvs.shortcuts = << >>
      BY <3>1, FlashAssumption
    <3>2. CASE nvs.shortcuts \in FirstBlobs
      BY <3>2, FlashAssumption
    <3>3. CASE \E l \in Lists : Storable(l) /\ nvs.shortcuts = EntryOf(l)
      BY <3>3, RoundTripAssumption
    <3> QED
      BY <3>1, <3>2, <3>3 DEF Types, Entries
  <2> QED
    BY <2>1 DEF Types, TypeOK
<1> QED
  BY <1>1, Invariance, PTL

(* However many saves fail, requests break off and restarts come between:    *)
(* what a load finds is a list whose saving was acknowledged, or has failed  *)
(* since; a refused list is never found (shortcuts_save, shortcuts_load).    *)
THEOREM ListKept == Spec => []KeepsSavedList
<1>1. IInv => KeepsSavedList
  BY DEF IInv, FlashInv, KeepsSavedList
<1> QED
  BY <1>1, Invariance, PTL

(* An edit starts from the stored list, for any number of requests of the    *)
(* page at once, of lost replies and of other clients before it              *)
(* (loadShortcuts, editSave.onclick).                                        *)
THEOREM PageAgrees == Spec => []PageInStep
<1>1. IInv => PageInStep
  BY NoReplyType DEF IInv, PageInv, PageInStep, Settled
<1> QED
  BY <1>1, Invariance, PTL

(* Every boot finds a pairing that was stored and not erased (app_main).     *)
THEOREM PairingSurvives == Spec => []PairingKept
<1>1. IInv => PairingKept
  BY DEF IInv, FlashInv, PairingKept, Types
<1> QED
  BY <1>1, Invariance, PTL

(* A prompt has its reason, for any number of tokens given and given up,     *)
(* of restarts and of stores that fail (samsung_tv_init, handle_message).    *)
THEOREM PromptForCause == Spec => []NoPromptAgain
<1>1. IInv => NoPromptAgain
  BY DEF IInv, TokenInv, NoPromptAgain, FitToken
<1> QED
  BY <1>1, Invariance, PTL
================================================================================
