-------------------------- MODULE VolumeRoutingProofs --------------------------
(***************************************************************************)
(* For any number of pages, presses, queue slots and faults: once the      *)
(* Chromecast has reported on a connection, the routing of volume keys     *)
(* reads the range it has.  The argument is about the report on its way:   *)
(* on a connection that is up, it carries the range of the moment, however *)
(* often that changes, and the word takes it over as it is.                *)
(***************************************************************************)
EXTENDS VolumeRouting, TLAPS

RangeOK  == tvMax \in {0, Range_}
ReportOK == link = "up" /\ news # Nothing => news = tvMax

RangeInv == RangeOK /\ ReportOK /\ VolumeFollows

(***************************************************************************)
(* What the invariant is about, and the steps that leave it alone.         *)
(***************************************************************************)
rangeVars == << volMax, link, tvMax, news, told >>

LEMMA Untouched == RangeInv /\ UNCHANGED rangeVars => RangeInv'
BY DEF RangeInv, RangeOK, ReportOK, VolumeFollows, rangeVars

(* A connection that is not up has nothing to keep.                        *)
LEMMA NotUp == RangeInv /\ UNCHANGED tvMax /\ link' # "up" => RangeInv'
BY DEF RangeInv, RangeOK, ReportOK, VolumeFollows

LEMMA InitInv == Init => RangeInv
BY DEF Init, RangeInv, RangeOK, ReportOK, VolumeFollows

LEMMA PagesAndServer ==
  ASSUME RangeInv,
         \/ \E c \in Clients : PageStep(c) \/ AcceptKey(c) \/ AcceptPoll(c)
         \/ \E k \in late : AcceptLate(k)
         \/ Work
  PROVE  RangeInv'
<1>1. ASSUME NEW c \in Clients, PageStep(c) \/ AcceptKey(c) \/ AcceptPoll(c)
      PROVE  UNCHANGED rangeVars
  BY <1>1 DEF PageStep, PointerDown, HoldTimer, Release, SendKey, Answer, FetchFails, Poll,
              PollAnswered, Settled, AcceptKey, AcceptPoll, device, session, tvs, rangeVars
<1>2. ASSUME NEW k \in late, AcceptLate(k) PROVE UNCHANGED rangeVars
  BY <1>2 DEF AcceptLate, device, session, tvs, rangeVars
<1>3. ASSUME Work PROVE UNCHANGED rangeVars
  BY <1>3 DEF Work, ReadStatus, Report, ReadVolMax, ReadSamsung, NoOp, Click, ClickFails,
              ReadConnected, NotConnected, Enqueue, QueueFull, Goes, Respond, RefuseKey,
              device, session, tvs, rangeVars
<1> QED
  BY <1>1, <1>2, <1>3, Untouched

LEMMA NextKeepsInv == RangeInv /\ [Next]_vars => RangeInv'
<1> SUFFICES ASSUME RangeInv, [Next]_vars PROVE RangeInv'
  OBVIOUS
<1>1. CASE \/ \E c \in Clients : PageStep(c) \/ AcceptKey(c) \/ AcceptPoll(c)
           \/ \E k \in late : AcceptLate(k)
           \/ Work
  BY <1>1, PagesAndServer
<1>2. CASE Connect \/ PutBack \/ SessionEnds \/ LinkBreaks \/ Restart
  <2>1. UNCHANGED tvMax /\ link' # "up"
    BY <1>2 DEF Connect, PutBack, SessionEnds, LinkBreaks, Restart, device, tvs
  <2> QED
    BY <2>1, NotUp
<1>3. CASE RemoteStart
  <2>1. tvMax' = tvMax /\ news' = tvMax
    BY <1>3 DEF RemoteStart
  <2> QED
    BY <2>1 DEF RangeInv, RangeOK, ReportOK, VolumeFollows, Range_, Nothing
<1>4. CASE RemoteSetVolumeLevel
  <2>1. link = "up" /\ news # Nothing /\ volMax' = news /\ news' = Nothing /\ tvMax' = tvMax
    BY <1>4 DEF RemoteSetVolumeLevel
  <2> QED
    BY <2>1 DEF RangeInv, RangeOK, ReportOK, VolumeFollows
<1>5. CASE TvRangeChanges
  <2>1. /\ tvMax' = Range_ - tvMax /\ link' = link
        /\ news' = IF link = "up" THEN tvMax' ELSE news
    BY <1>5 DEF TvRangeChanges, session
  <2>2. tvMax' \in {0, Range_} /\ tvMax' # Nothing
    BY <2>1 DEF RangeInv, RangeOK, Range_, Nothing
  <2> QED
    BY <2>1, <2>2 DEF RangeInv, RangeOK, ReportOK, VolumeFollows
<1>6. CASE Take \/ Deliver \/ Vanish \/ ChannelConnect \/ WsDisconnected \/ WsBreaks
  <2>1. UNCHANGED rangeVars
    BY <1>6 DEF Take, Deliver, Vanish, ChannelConnect, WsDisconnected, WsBreaks,
                device, session, tvs, rangeVars
  <2> QED
    BY <2>1, Untouched
<1>7. CASE UNCHANGED vars
  <2>1. UNCHANGED rangeVars
    BY <1>7 DEF vars, device, session, tvs, rangeVars
  <2> QED
    BY <2>1, Untouched
<1> QED
  BY <1>1, <1>2, <1>3, <1>4, <1>5, <1>6, <1>7 DEF Next

(***************************************************************************)
(* The routing of volume keys uses the range of the session at hand        *)
(* (handle_msg, key_post_handler): VolumeFollows, for any instance.        *)
(***************************************************************************)
THEOREM AlwaysFollows == Spec => []VolumeFollows
<1>1. Init => RangeInv
  BY InitInv
<1>2. RangeInv /\ [Next]_vars => RangeInv'
  BY NextKeepsInv
<1>3. RangeInv => VolumeFollows
  BY DEF RangeInv
<1> QED
  BY <1>1, <1>2, <1>3, PTL DEF Spec
================================================================================
