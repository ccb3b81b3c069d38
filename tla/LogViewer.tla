------------------------------- MODULE LogViewer -------------------------------
(***************************************************************************)
(* The log viewer of the web page (index.html) over /api/logs: a chain of  *)
(* polls, each armed by the reply to the one before, asks for the bytes    *)
(* after the position of the last reply.  The viewer can be closed and     *)
(* opened while a poll is under way, replies can be late or lost, and the  *)
(* device can restart.                                                     *)
(***************************************************************************)
EXTENDS LogBuf, SequencesExt

CONSTANTS OutSize,     \* the size of raw in logs_get_handler
          MaxWritten,  \* bound: bytes logged
          MaxOpens     \* bound: how often the viewer is opened

ASSUME OutAssumption   == OutSize \in Nat \ {0}
ASSUME BoundAssumption == MaxWritten \in Nat /\ MaxOpens \in Nat

VARIABLES
  open,      \* logsOpen
  after,     \* logAfter
  armed,     \* the timer logPollTimer names is running
  others,    \* timers running that logPollTimer no longer names
  requests,  \* the requests under way: the positions they ask for
  replies,   \* the replies under way
  text,      \* the end of logText: the bytes shown, by their number, and
             \* the marks of a gap
  opens,     \* how often it has been opened
  mixed      \* history: it was opened while an earlier chain was alive

viewVars == << open, after, armed, others, requests, replies, text, opens, mixed >>
vars     == << bufVars, viewVars >>

Gap == Blank

ViewInit ==
  /\ open = FALSE /\ after = 0 /\ armed = FALSE /\ others = 0
  /\ requests = << >> /\ replies = << >> /\ text = << >> /\ opens = 0 /\ mixed = FALSE

-------------------------------------------------------------------------------
(* The device.                                                               *)

LogLine ==
  /\ \E len \in 1 .. LineCap + 1 : /\ written + Kept(len) <= MaxWritten
                                   /\ LogWrite(len)
  /\ UNCHANGED viewVars

(* What logs_get_handler sends: each byte with the number it was asked for   *)
(* under, and whether that is a position of the torn line.                   *)
Reply(a) ==
  LET r    == LogRead(a, OutSize)
      from == r.next - Len(r.text)
  IN [next |-> r.next, dropped |-> r.dropped,
      text |-> [i \in DOMAIN r.text |->
                  [pos |-> written - (total - from) + (i - 1), char |-> r.text[i],
                   torn |-> from + i - 1 < torn]]]

Serve == \E i \in DOMAIN requests :
  /\ requests' = RemoveAt(requests, i)
  /\ replies' = Append(replies, Reply(requests[i]))
  /\ UNCHANGED << bufVars, open, after, armed, others, text, opens, mixed >>

(* The device restarts, once.  A request under way fails, or is served after *)
(* the restart when its connection had not been made yet.                    *)
PowerCycle == origin = 0 /\ written > 0 /\ Restart /\ UNCHANGED viewVars

-------------------------------------------------------------------------------
(* The page.                                                                 *)

(* Mutant: the timer is left running.                                        *)
KeepTimer == UNCHANGED armed

ClearTimeout == armed' = FALSE

(* logsBtn.onclick, up to the request pollLogs sends.                        *)
OpenViewer ==
  /\ opens < MaxOpens
  /\ open' = TRUE /\ text' = << >> /\ after' = 0 /\ ClearTimeout
  /\ requests' = Append(requests, 0)
  /\ opens' = opens + 1
  /\ mixed' = (requests # << >> \/ replies # << >> \/ others > 0)
  /\ UNCHANGED << bufVars, others, replies >>

CloseViewer ==
  /\ open
  /\ open' = FALSE /\ ClearTimeout
  /\ UNCHANGED << bufVars, after, others, requests, replies, text, opens, mixed >>

(* A timer calls pollLogs, which does nothing when the viewer is closed.     *)
TimerFires ==
  /\ \/ armed /\ armed' = FALSE /\ UNCHANGED others
     \/ others > 0 /\ others' = others - 1 /\ UNCHANGED armed
  /\ requests' = IF open THEN Append(requests, after) ELSE requests
  /\ UNCHANGED << bufVars, replies, open, after, text, opens, mixed >>

(* setTimeout at the end of pollLogs.                                        *)
Rearm == armed' = TRUE /\ others' = others + IF armed THEN 1 ELSE 0

(* As much of the text as can still matter: the last reply, a mark and the   *)
(* byte before.  Nothing is claimed of what mixed chains show.               *)
End(s) == LET keep == IF mixed THEN 0 ELSE OutSize + 1
          IN SubSeq(s, Len(s) - AtMost(Len(s), keep) + 1, Len(s))

Places(r) == [i \in DOMAIN r.text |-> r.text[i].pos]

(* Mutant: the mark is forgotten.                                            *)
ShownUnmarked(r) == End(text \o Places(r))

Shown(r) == End(text \o (IF r.dropped /\ text # << >> THEN << Gap >> ELSE << >>) \o Places(r))

(* The reply arrives, whether the viewer is still open or not.               *)
Arrive == \E i \in DOMAIN replies :
  /\ text' = Shown(replies[i]) /\ after' = replies[i].next
  /\ replies' = RemoveAt(replies, i)
  /\ Rearm
  /\ UNCHANGED << bufVars, requests, open, opens, mixed >>

(* Mutant: the chain ends with a request that fails.                         *)
FetchFailsForGood == \E i \in DOMAIN replies :
  /\ replies' = RemoveAt(replies, i)
  /\ UNCHANGED << bufVars, requests, open, after, armed, others, text, opens, mixed >>

(* fetch throws: the request or its reply is lost.  Serving changes nothing  *)
(* on the device, so that it is enough to lose replies.                      *)
FetchFails == \E i \in DOMAIN replies :
  /\ replies' = RemoveAt(replies, i)
  /\ Rearm
  /\ UNCHANGED << bufVars, requests, open, after, text, opens, mixed >>

Init == BufInit /\ ViewInit

Next == \/ LogLine \/ Serve \/ PowerCycle
        \/ OpenViewer \/ CloseViewer \/ TimerFires \/ Arrive \/ FetchFails

(* Timers fire, the device serves its requests, a reply arrives or fails,    *)
(* and not every one of them fails.                                          *)
Spec == Init /\ [][Next]_vars
        /\ WF_vars(TimerFires) /\ WF_vars(Serve) /\ WF_vars(Arrive \/ FetchFails) /\ SF_vars(Arrive)

-------------------------------------------------------------------------------
(* Properties.                                                               *)

(* The requests, replies and timers that will go on polling.                 *)
Polls == Len(requests) + Len(replies) + others + (IF armed THEN 1 ELSE 0)

(* Every variable holds a value of its kind; positions stay below 2^32; each *)
(* opening has at most one poll (logbuf.c, index.html).                      *)
TypeOK ==
  /\ total \in 0 .. W - 1 /\ torn \in 0 .. W - 1
  /\ written \in 0 .. MaxWritten /\ origin \in 0 .. written /\ DOMAIN ring = 0 .. Cap - 1
  /\ open \in BOOLEAN /\ armed \in BOOLEAN /\ mixed \in BOOLEAN
  /\ others \in Nat /\ opens \in 0 .. MaxOpens /\ Polls <= opens
  /\ after \in 0 .. W - 1 /\ \A i \in DOMAIN requests : requests[i] \in 0 .. W - 1
  /\ \A i \in DOMAIN replies : replies[i].next < W /\ Len(replies[i].text) < OutSize

(* There is never more than one chain of polls, unless the viewer was opened *)
(* while a request of an earlier chain was under way (index.html's           *)
(* clearTimeout stops the timer but not the request).                        *)
OneChain == ~mixed => Polls <= 1

(* What is shown is what was logged at that place, the one line excepted     *)
(* that was being written when the count wrapped.                            *)
ShowsWhatWasLogged ==
  \A i \in DOMAIN replies : \A n \in DOMAIN replies[i].text :
    LET byte == replies[i].text[n] IN byte.torn \/ byte.char = byte.pos

(* While one chain polls, the text runs on without a line missing or shown   *)
(* twice, unless a mark says so or the device has restarted: the bytes shown *)
(* side by side are neighbours, or a multiple of 2^32 apart.                 *)
Follows(p, q) == q > p /\ ((q - p - 1) % W = 0 \/ p < origin)

NoSilentGap ==
  ~mixed => \A i \in 1 .. Len(text) - 1 :
              text[i] = Gap \/ text[i + 1] = Gap \/ Follows(text[i], text[i + 1])

(* A viewer that stays open catches up with the log, whatever it lost.       *)
CatchesUp == <>[]open => []<>(after = total)
================================================================================
