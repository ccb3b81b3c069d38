---------------------------- MODULE VolumeHoldProofs ----------------------------
(***************************************************************************)
(* For any number of pages, presses, queue slots and faults: a release     *)
(* never overtakes its press, and a key is only left pressed for one of    *)
(* the known reasons.  The argument follows one press on its way: page,    *)
(* chain, queue, hand, Chromecast.                                         *)
(***************************************************************************)
EXTENDS VolumeRouting, TLAPS

Presses == 1 .. MaxPresses
Timely  == Presses \ belated

Requests == [id : Presses, dir : Dir, who : Clients \cup {Gone},
             at : {"vol_max", "samsung", "click", "no_op", "connected", "enqueue"}]
Polls    == [id : {Nothing}, dir : {""}, who : Clients, at : {"status", "volume", "status_samsung"}]

Start(p) == Key("START_LONG", p)
End(p)   == Key("END_LONG", p)

Cmds(s) == {s[i] : i \in DOMAIN s}

(* No end of a hold before its start.                                        *)
Ordered(s, P) == \A p \in P : \A i, j \in DOMAIN s : s[i] = Start(p) /\ s[j] = End(p) => i < j

(***************************************************************************)
(* Sequences of commands.                                                  *)
(***************************************************************************)
LEMMA Different ==
  /\ \A p, q \in Presses : Start(p) # End(q) /\ (Start(p) = Start(q) => p = q) /\ (End(p) = End(q) => p = q)
  /\ \A p \in Presses : Start(p) \in Keys /\ End(p) \in Keys /\ Start(p) # Nobody /\ End(p) # Nobody
BY DEF Start, End, Key, Keys, Dir, Presses, Nobody

LEMMA Appended ==
  ASSUME NEW s \in Seq(Keys), NEW e \in Keys
  PROVE  /\ Append(s, e) \in Seq(Keys) /\ Append(s, e) # << >>
         /\ Cmds(Append(s, e)) = Cmds(s) \cup {e}
         /\ s # << >> => Cmds(Tail(Append(s, e))) = Cmds(Tail(s)) \cup {e}
         /\ s = << >> => Cmds(Tail(Append(s, e))) = {}
<1>1. Append(s, e) \in Seq(Keys) /\ Append(s, e) # << >>
  <2>1. Append(s, e) \in Seq(Keys) /\ Len(Append(s, e)) = Len(s) + 1 /\ Len(s) \in Nat
    OBVIOUS
  <2>2. Len(<< >>) = 0
    OBVIOUS
  <2> QED
    BY <2>1, <2>2
<1>2. ASSUME NEW t \in Seq(Keys) PROVE Cmds(Append(t, e)) = Cmds(t) \cup {e}
  <2>1. DOMAIN Append(t, e) = DOMAIN t \cup {Len(t) + 1}
    OBVIOUS
  <2>2. \A i \in DOMAIN t : Append(t, e)[i] = t[i]
    OBVIOUS
  <2>3. Append(t, e)[Len(t) + 1] = e
    OBVIOUS
  <2> QED
    BY <2>1, <2>2, <2>3 DEF Cmds
<1>3. CASE s # << >>
  <2>1. Tail(s) \in Seq(Keys) /\ Tail(Append(s, e)) = Append(Tail(s), e)
    BY <1>3
  <2> QED
    BY <1>1, <1>2, <1>3, <2>1
<1>4. CASE s = << >>
  <2>1. Tail(Append(s, e)) = << >>
    BY <1>4
  <2> QED
    BY <1>1, <1>2, <1>4, <2>1 DEF Cmds
<1> QED
  BY <1>3, <1>4

LEMMA Dropped ==
  ASSUME NEW s \in Seq(Keys), s # << >>
  PROVE  /\ Head(s) \in Keys /\ Tail(s) \in Seq(Keys)
         /\ Cmds(s) = {Head(s)} \cup Cmds(Tail(s))
<1>1. Head(s) \in Keys /\ Tail(s) \in Seq(Keys) /\ Head(s) = s[1] /\ 1 \in DOMAIN s
  OBVIOUS
<1>2. DOMAIN s = 1 .. Len(s) /\ DOMAIN Tail(s) = 1 .. Len(s) - 1 /\ Len(s) \in Nat
  OBVIOUS
<1>3. \A i \in 1 .. Len(s) - 1 : Tail(s)[i] = s[i + 1]
  OBVIOUS
<1>4. ASSUME NEW k \in Cmds(s) PROVE k \in {Head(s)} \cup Cmds(Tail(s))
  <2>1. PICK i \in 1 .. Len(s) : k = s[i]
    BY <1>2 DEF Cmds
  <2>2. CASE i = 1
    BY <1>1, <2>1, <2>2
  <2>3. CASE i # 1
    <3>1. i - 1 \in 1 .. Len(s) - 1 /\ Tail(s)[i - 1] = s[(i - 1) + 1] /\ (i - 1) + 1 = i
      BY <1>2, <1>3, <2>3
    <3> QED
      BY <1>2, <2>1, <3>1 DEF Cmds
  <2> QED
    BY <2>2, <2>3
<1>5. ASSUME NEW k \in Cmds(Tail(s)) PROVE k \in Cmds(s)
  <2>1. PICK i \in 1 .. Len(s) - 1 : k = Tail(s)[i]
    BY <1>2 DEF Cmds
  <2>2. i + 1 \in 1 .. Len(s) /\ k = s[i + 1]
    BY <1>2, <1>3, <2>1
  <2> QED
    BY <1>2, <2>2 DEF Cmds
<1>6. Head(s) \in Cmds(s)
  BY <1>1 DEF Cmds
<1> QED
  BY <1>1, <1>4, <1>5, <1>6

LEMMA Prepended ==
  ASSUME NEW s \in Seq(Keys), NEW e \in Keys
  PROVE  /\ << e >> \o s \in Seq(Keys) /\ << e >> \o s # << >>
         /\ Head(<< e >> \o s) = e /\ Tail(<< e >> \o s) = s
         /\ Cmds(<< e >> \o s) = {e} \cup Cmds(s)
<1>1. /\ << e >> \o s \in Seq(Keys) /\ << e >> \o s # << >>
      /\ Head(<< e >> \o s) = e /\ Tail(<< e >> \o s) = s
  OBVIOUS
<1> QED
  BY <1>1, Dropped

LEMMA OrderedAppend ==
  ASSUME NEW s \in Seq(Keys), NEW e \in Keys, NEW P \in SUBSET Presses, Ordered(s, P),
         \A p \in P : e = Start(p) => End(p) \notin Cmds(s)
  PROVE  Ordered(Append(s, e), P)
<1> SUFFICES ASSUME NEW p \in P, NEW i \in DOMAIN Append(s, e), NEW j \in DOMAIN Append(s, e),
                    Append(s, e)[i] = Start(p), Append(s, e)[j] = End(p)
             PROVE  i < j
  BY DEF Ordered
<1>1. /\ DOMAIN Append(s, e) = 1 .. Len(s) + 1 /\ DOMAIN s = 1 .. Len(s) /\ Len(s) \in Nat
      /\ \A n \in 1 .. Len(s) : Append(s, e)[n] = s[n]
      /\ Append(s, e)[Len(s) + 1] = e
  OBVIOUS
<1>2. Start(p) # End(p)
  BY Different
<1>3. CASE j = Len(s) + 1
  BY <1>1, <1>2, <1>3
<1>4. CASE j \in 1 .. Len(s) /\ i = Len(s) + 1
  <2>1. e = Start(p) /\ End(p) = s[j]
    BY <1>1, <1>4
  <2> QED
    BY <1>1, <1>4, <2>1 DEF Cmds
<1>5. CASE j \in 1 .. Len(s) /\ i \in 1 .. Len(s)
  BY <1>1, <1>5 DEF Ordered
<1> QED
  BY <1>1, <1>3, <1>4, <1>5

LEMMA OrderedTail ==
  ASSUME NEW s \in Seq(Keys), s # << >>, NEW P \in SUBSET Presses, Ordered(s, P)
  PROVE  /\ Ordered(Tail(s), P)
         /\ \A p \in P : /\ Head(s) = End(p) => Start(p) \notin Cmds(s)
                         /\ Start(p) \in Cmds(s) /\ End(p) \in Cmds(s) => End(p) \in Cmds(Tail(s))
<1>1. /\ DOMAIN s = 1 .. Len(s) /\ DOMAIN Tail(s) = 1 .. Len(s) - 1 /\ Len(s) \in Nat \ {0}
      /\ Head(s) = s[1]
  OBVIOUS
<1>2. \A n \in 1 .. Len(s) - 1 : Tail(s)[n] = s[n + 1]
  OBVIOUS
<1>3. Ordered(Tail(s), P)
  <2> SUFFICES ASSUME NEW p \in P, NEW i \in DOMAIN Tail(s), NEW j \in DOMAIN Tail(s),
                      Tail(s)[i] = Start(p), Tail(s)[j] = End(p)
               PROVE  i < j
    BY DEF Ordered
  <2>1. s[i + 1] = Start(p) /\ s[j + 1] = End(p) /\ i + 1 \in DOMAIN s /\ j + 1 \in DOMAIN s
    BY <1>1, <1>2
  <2>2. i + 1 < j + 1
    BY <2>1 DEF Ordered
  <2> QED
    BY <1>1, <2>2
<1>4. ASSUME NEW p \in P, Head(s) = End(p), Start(p) \in Cmds(s) PROVE FALSE
  <2>1. PICK i \in DOMAIN s : s[i] = Start(p)
    BY <1>4 DEF Cmds
  <2>2. 1 \in DOMAIN s /\ s[1] = End(p)
    BY <1>1, <1>4
  <2>3. i < 1
    BY <2>1, <2>2 DEF Ordered
  <2> QED
    BY <1>1, <2>3
<1>5. ASSUME NEW p \in P, Start(p) \in Cmds(s), End(p) \in Cmds(s)
      PROVE  End(p) \in Cmds(Tail(s))
  <2>1. Head(s) # End(p)
    BY <1>4, <1>5
  <2> QED
    BY <1>5, <2>1, Dropped
<1> QED
  BY <1>3, <1>4, <1>5

LEMMA OrderedCons ==
  ASSUME NEW s \in Seq(Keys), NEW e \in Keys, NEW P \in SUBSET Presses, Ordered(s, P),
         \A p \in P : e = End(p) => Start(p) \notin Cmds(s)
  PROVE  Ordered(<< e >> \o s, P)
<1> DEFINE t == << e >> \o s
<1> SUFFICES ASSUME NEW p \in P, NEW i \in DOMAIN t, NEW j \in DOMAIN t,
                    t[i] = Start(p), t[j] = End(p)
             PROVE  i < j
  BY DEF Ordered
<1>1. /\ DOMAIN t = 1 .. Len(s) + 1 /\ DOMAIN s = 1 .. Len(s) /\ Len(s) \in Nat
      /\ t[1] = e
  OBVIOUS
<1>2. \A n \in 2 .. Len(s) + 1 : t[n] = s[n - 1]
  OBVIOUS
<1>3. Start(p) # End(p)
  BY Different
<1> HIDE DEF t
<1>4. CASE i = 1
  BY <1>1, <1>3, <1>4
<1>5. CASE j = 1 /\ i # 1
  <2>1. i \in 2 .. Len(s) + 1 /\ e = End(p)
    BY <1>1, <1>5
  <2>2. s[i - 1] = Start(p) /\ i - 1 \in DOMAIN s
    BY <1>1, <1>2, <2>1
  <2> QED
    BY <2>1, <2>2 DEF Cmds
<1>6. CASE i # 1 /\ j # 1
  <2>1. i \in 2 .. Len(s) + 1 /\ j \in 2 .. Len(s) + 1
    BY <1>1, <1>6
  <2>2. s[i - 1] = Start(p) /\ s[j - 1] = End(p) /\ i - 1 \in DOMAIN s /\ j - 1 \in DOMAIN s
    BY <1>1, <1>2, <2>1
  <2>3. i - 1 < j - 1
    BY <2>2 DEF Ordered
  <2> QED
    BY <2>1, <2>3
<1> QED
  BY <1>4, <1>5, <1>6

(***************************************************************************)
(* The invariant.                                                          *)
(***************************************************************************)

(* What each variable of a press's way holds.                                *)
PageType == \A c \in Clients :
  /\ page[c] = Up \/ (page[c].at \in {"down", "long"} /\ page[c].id \in Presses)
  /\ fetch[c] # "idle" => chain[c] # << >>

Types ==
  /\ TypeOK /\ PageType
  /\ presses \in 0 .. MaxPresses /\ over \subseteq Presses
  /\ worker \in {Nobody} \cup Requests \cup Polls

(* The HTTP worker's key command is the head of its page's chain, if the     *)
(* page still waits for it.                                                  *)
WorkerOK ==
  worker \in Requests =>
    /\ worker.who \in Clients =>
         fetch[worker.who] = "sent" /\ Head(chain[worker.who]) = Key(worker.dir, worker.id)
    /\ worker.at = "click" => worker.dir # "END_LONG"

(* The commands past the server, that of the worker if its page has given it *)
(* up, and those of a page that the server has not had.                      *)
Far        == Cmds(queue) \cup {hand}
Slow       == IF worker \in Requests /\ worker.who = Gone THEN {Key(worker.dir, worker.id)} ELSE {}
Pending(c) == IF fetch[c] = "answered" THEN Cmds(Tail(chain[c])) ELSE Cmds(chain[c])

Started(p) == Start(p) \in Far \cup Slow \/ held = p
Ended(p)   == End(p) \in Far \cup Slow \cup late \/ p \in over

(* A press belongs to one page; numbers not yet given are nowhere.           *)
PressesOf(c) == {page[c].id} \cup {k.id : k \in Cmds(chain[c])}

Own == \A c, d \in Clients : c # d => PressesOf(c) \cap PressesOf(d) \subseteq {0}

Fresh == /\ \A c \in Clients : PressesOf(c) \subseteq 0 .. presses
         /\ \A k \in Far \cup Slow \cup late : k.id \in 0 .. presses
         /\ held \in 0 .. presses /\ over \subseteq 0 .. presses

(* A button that is down has not been released, and not been held before the *)
(* timer says so.                                                            *)
PageOK == \A c \in Clients : \A p \in Timely : page[c].id = p =>
  /\ ~Ended(p) /\ End(p) \notin Cmds(chain[c])
  /\ page[c].at = "down" => ~Started(p) /\ Start(p) \notin Cmds(chain[c])

InOrder == Ordered(queue, Timely) /\ \A c \in Clients : Ordered(chain[c], Timely)

(* Where an end is, the start of the hold is not behind it.                  *)
EndsLast == \A p \in Timely :
  /\ Ended(p) => \A c \in Clients : Start(p) \notin Cmds(chain[c])
  /\ hand = End(p) => Start(p) \notin Cmds(queue)
  /\ Start(p) \in Slow => End(p) \notin Far
  /\ p \in over => ~Started(p)

(* A hold that has begun is still going on, or its end is on its way, or is  *)
(* accounted for.                                                            *)
Excused(p) == End(p) \in Far \/ p \in failed \cup vanished \cup rerouted
GoesOn(c, p) == page[c].id = p \/ End(p) \in Pending(c)

HoldOK == /\ \A p \in Timely : Started(p) => Excused(p) \/ \E c \in Clients : GoesOn(c, p)
          /\ \A p \in Timely : Start(p) \in Far \/ held = p => p \in viaQueue
          /\ \A c \in Clients : \A p \in Timely :
               Start(p) \in Cmds(chain[c]) => page[c].id = p \/ End(p) \in Cmds(chain[c])

Core == Own /\ Fresh /\ PageOK /\ InOrder /\ EndsLast /\ HoldOK

far   == << queue, hand, held, over, belated >>
given == << late, Slow >>
flow  == << far, given, page, chain, fetch, presses, viaQueue, failed, vanished, rerouted >>

(***************************************************************************)
(* Steps of the pages.                                                     *)
(***************************************************************************)
LEMMA Chains ==
  ASSUME Types, NEW c \in Clients
  PROVE  /\ chain[c] \in Seq(Keys) /\ queue \in Seq(Keys)
         /\ page[c] = Up \/ (page[c].at \in {"down", "long"} /\ page[c].id \in Presses)
         /\ fetch[c] # "idle" => chain[c] # << >>
         /\ page[c].id \in 0 .. MaxPresses
         /\ \A k \in Cmds(chain[c]) : k \in Keys
BY DEF Types, TypeOK, PageType, Cmds, Up

LEMMA InTime == Timely \in SUBSET Presses
BY DEF Timely

LEMMA CoreUntouched == Core /\ UNCHANGED flow => Core'
<1> SUFFICES ASSUME Core, UNCHANGED flow PROVE Core'
  OBVIOUS
<1>1. /\ UNCHANGED << held, over, queue, hand, page, chain, presses, viaQueue >>
      /\ UNCHANGED << failed, vanished, rerouted, Far, Slow, late, Timely >>
      /\ \A c \in Clients : PressesOf(c)' = PressesOf(c) /\ Pending(c)' = Pending(c)
  BY DEF flow, far, given, Far, Timely, PressesOf, Pending
<1>2. Own' /\ Fresh'
  BY <1>1 DEF Core, Own, Fresh
<1>3. PageOK' /\ InOrder' /\ EndsLast'
  BY <1>1 DEF Core, PageOK, InOrder, EndsLast, Started, Ended
<1>4. HoldOK'
  BY <1>1 DEF Core, HoldOK, Started, Excused, GoesOn
<1> QED
  BY <1>2, <1>3, <1>4 DEF Core

(* No press changes its page, and nothing past the server does.              *)
LEMMA NoNewPress ==
  ASSUME Types, Own, Fresh, UNCHANGED << far, given, presses >>,
         \A c \in Clients : PressesOf(c)' \subseteq PressesOf(c) \cup {0}
  PROVE  Own' /\ Fresh'
<1>1. Own'
  BY DEF Own
<1>2. 0 \in 0 .. presses
  BY BoundAssumption DEF Types
<1>3. UNCHANGED << Far, Slow, late, held, over, presses >>
  BY DEF Far, far, given
<1>4. Fresh'
  BY <1>2, <1>3 DEF Fresh
<1> QED
  BY <1>1, <1>4

LEMMA PointerDownKeeps ==
  ASSUME Types, Core, NEW c \in Clients, PointerDown(c)
  PROVE  Core'
<1> DEFINE n == presses + 1
<1>1. /\ page[c] = Up /\ page' = [page EXCEPT ![c] = [at |-> "down", id |-> n]]
      /\ presses' = n /\ n \in Presses /\ presses \in Nat
      /\ UNCHANGED << far, given, chain, fetch, viaQueue, failed, vanished, rerouted >>
  BY BoundAssumption DEF PointerDown, Types, Presses, session, history, far, given, Slow
<1>2. /\ page'[c].id = n /\ page[c].id = 0
      /\ \A d \in Clients : d # c => page'[d] = page[d]
  BY <1>1 DEF Types, TypeOK, Up
<1>3. n > presses /\ presses \in Nat /\ n \in Nat /\ n \notin 0 .. presses
  BY <1>1
<1> HIDE DEF n
<1>4. \A d \in Clients : n \notin PressesOf(d)
  BY <1>3 DEF Core, Fresh
<1>5. Start(n) \notin Far \cup Slow /\ End(n) \notin Far \cup Slow \cup late /\ held # n /\ n \notin over
  <2>1. Start(n).id = n /\ End(n).id = n
    BY DEF Start, End, Key
  <2> QED
    BY <1>3, <2>1 DEF Core, Fresh
<1>6. \A d \in Clients : Start(n) \notin Cmds(chain[d]) /\ End(n) \notin Cmds(chain[d])
  <2>1. Start(n).id = n /\ End(n).id = n
    BY DEF Start, End, Key
  <2> QED
    BY <1>4, <2>1 DEF PressesOf
<1>7. /\ UNCHANGED << Far, Slow, late, Timely, held, over, queue, hand, chain, viaQueue, failed, vanished, rerouted >>
      /\ \A d \in Clients : Pending(d)' = Pending(d)
  BY <1>1 DEF Far, far, given, Timely, Pending
<1>8. /\ PressesOf(c)' \subseteq PressesOf(c) \cup {n}
      /\ \A d \in Clients : d # c => PressesOf(d)' = PressesOf(d)
  BY <1>1, <1>2 DEF PressesOf
<1>9. Own'
  BY <1>4, <1>8 DEF Core, Own
<1>10. Fresh'
  <2>1. 0 .. presses \subseteq 0 .. n /\ n \in 0 .. n
    BY <1>3
  <2> QED
    BY <1>1, <1>7, <1>8, <2>1 DEF Core, Fresh
<1>11. PageOK'
  BY <1>2, <1>5, <1>6, <1>7 DEF Core, PageOK, Started, Ended
<1>12. InOrder' /\ EndsLast'
  BY <1>7 DEF Core, InOrder, EndsLast, Started, Ended
<1>13. HoldOK'
  <2>1. \A d \in Clients : \A p \in Timely : page[d].id = p => page'[d].id = p
    BY <1>2 DEF Presses, Timely
  <2> QED
    BY <1>7, <2>1 DEF Core, HoldOK, Started, Excused, GoesOn
<1> QED
  BY <1>9, <1>10, <1>11, <1>12, <1>13 DEF Core

LEMMA HoldTimerKeeps ==
  ASSUME Types, Core, NEW c \in Clients, HoldTimer(c)
  PROVE  Core'
<1> DEFINE n == page[c].id
<1>1. /\ page[c].at = "down" /\ n \in Presses
      /\ page' = [page EXCEPT ![c].at = "long"]
      /\ chain' = [chain EXCEPT ![c] = Append(@, Start(n))]
      /\ UNCHANGED << far, given, fetch, presses, viaQueue, failed, vanished, rerouted >>
  BY Chains DEF HoldTimer, Post, session, history, far, given, Slow, Start, Up
<1>2. /\ page'[c].id = n /\ page'[c].at = "long"
      /\ \A d \in Clients : d # c => page'[d] = page[d] /\ chain'[d] = chain[d]
      /\ chain'[c] = Append(chain[c], Start(n))
  BY <1>1 DEF Types, TypeOK
<1> HIDE DEF n
<1>3. /\ chain[c] \in Seq(Keys) /\ Start(n) \in Keys
      /\ fetch[c] # "idle" => chain[c] # << >>
  BY <1>1, Chains, Different
<1>4. /\ Cmds(chain'[c]) = Cmds(chain[c]) \cup {Start(n)}
      /\ Pending(c) \subseteq Pending(c)'
      /\ \A d \in Clients : d # c => Pending(d)' = Pending(d)
  BY <1>1, <1>2, <1>3, Appended DEF Pending
<1>5. UNCHANGED << Far, Slow, late, Timely, held, over, queue, hand, viaQueue, failed, vanished, rerouted >>
  BY <1>1 DEF Far, far, given, Timely
<1>6. /\ page[c].id = n
      /\ n \in Timely => ~Ended(n) /\ End(n) \notin Cmds(chain[c])
  BY <1>1 DEF Core, PageOK, n
<1>7. \A d \in Clients : PressesOf(d)' = PressesOf(d)
  <2>1. Start(n).id = n
    BY DEF Start, Key
  <2> QED
    BY <1>2, <1>4, <1>6, <2>1 DEF PressesOf
<1>8. Own' /\ Fresh'
  BY <1>1, <1>7, NoNewPress DEF Core
<1>9. PageOK'
  BY <1>1, <1>2, <1>4, <1>5, <1>6, Different DEF Core, PageOK, Started, Ended
<1>10. InOrder'
  <2>1. Ordered(chain[c], Timely) /\ \A p \in Timely : Start(n) = Start(p) => End(p) \notin Cmds(chain[c])
    BY <1>1, <1>6, InTime, Different DEF Core, InOrder
  <2>2. Ordered(chain'[c], Timely)
    BY <1>2, <1>3, <2>1, InTime, OrderedAppend
  <2> QED
    BY <1>2, <1>5, <2>2 DEF Core, InOrder
<1>11. EndsLast'
  BY <1>1, <1>2, <1>4, <1>5, <1>6, InTime, Different DEF Core, EndsLast, Started, Ended
<1>12. HoldOK'
  <2>1. ASSUME NEW d \in Clients, NEW p \in Timely, Start(p) \in Cmds(chain'[d])
        PROVE  page'[d].id = p \/ End(p) \in Cmds(chain'[d])
    BY <1>1, <1>2, <1>4, <1>6, <2>1, InTime, Different DEF Core, HoldOK
  <2>2. \A d \in Clients : \A p \in Timely : GoesOn(d, p) => GoesOn(d, p)'
    BY <1>2, <1>4, <1>6 DEF GoesOn
  <2> QED
    BY <1>5, <2>1, <2>2 DEF Core, HoldOK, Started, Excused
<1> QED
  BY <1>8, <1>9, <1>10, <1>11, <1>12 DEF Core

LEMMA ReleaseKeeps ==
  ASSUME Types, Core, NEW c \in Clients, Release(c)
  PROVE  Core'
<1> DEFINE n == page[c].id
           e == Key(IF page[c].at = "long" THEN "END_LONG" ELSE "SHORT", n)
<1>1. /\ page[c].at \in {"down", "long"} /\ n \in Presses
      /\ page' = [page EXCEPT ![c] = Up]
      /\ chain' = [chain EXCEPT ![c] = Append(@, e)]
      /\ UNCHANGED << far, given, fetch, presses, viaQueue, failed, vanished, rerouted >>
  BY Chains DEF Release, Post, session, history, far, given, Slow
<1>2. /\ page'[c] = Up /\ page'[c].id = 0 /\ page'[c].at = "up"
      /\ \A d \in Clients : d # c => page'[d] = page[d] /\ chain'[d] = chain[d]
      /\ chain'[c] = Append(chain[c], e)
  BY <1>1 DEF Types, TypeOK, Up
<1>3. /\ e \in Keys /\ e.id = n /\ \A p \in Presses : e # Start(p)
      /\ \A p \in Presses : e = End(p) => p = n
      /\ page[c].at = "long" => e = End(n)
  BY <1>1 DEF Key, Keys, Presses, Dir, Start, End
<1> HIDE DEF n, e
<1>4. chain[c] \in Seq(Keys) /\ (fetch[c] = "answered" => chain[c] # << >>)
  BY Chains
<1>5. /\ Cmds(chain'[c]) = Cmds(chain[c]) \cup {e}
      /\ Pending(c)' = Pending(c) \cup {e}
      /\ \A d \in Clients : d # c => Pending(d)' = Pending(d)
  BY <1>1, <1>2, <1>3, <1>4, Appended DEF Pending
<1>6. UNCHANGED << Far, Slow, late, Timely, held, over, queue, hand, viaQueue, failed, vanished, rerouted >>
  BY <1>1 DEF Far, far, given, Timely
<1>7. /\ page[c].id = n
      /\ n \in Timely /\ page[c].at = "down" => ~Started(n) /\ Start(n) \notin Cmds(chain[c])
  BY <1>1 DEF Core, PageOK, n
<1>8. \A d \in Clients : PressesOf(d)' \subseteq PressesOf(d) \cup {0}
  BY <1>2, <1>3, <1>5, <1>7 DEF PressesOf
<1>9. Own' /\ Fresh'
  BY <1>1, <1>8, NoNewPress DEF Core
<1>10. PageOK'
  BY <1>2, <1>6, InTime DEF Core, PageOK, Started, Ended, Presses
<1>11. InOrder'
  <2>1. Ordered(chain'[c], Timely)
    BY <1>2, <1>3, <1>4, InTime, OrderedAppend DEF Core, InOrder
  <2> QED
    BY <1>2, <1>6, <2>1 DEF Core, InOrder
<1>12. EndsLast'
  BY <1>2, <1>3, <1>5, <1>6, InTime DEF Core, EndsLast, Started, Ended
<1>13. HoldOK'
  <2>1. ASSUME NEW p \in Timely, Started(p)
        PROVE  Excused(p)' \/ \E d \in Clients : GoesOn(d, p)'
    <3>1. Excused(p) \/ \E d \in Clients : GoesOn(d, p)
      BY <2>1 DEF Core, HoldOK
    <3>2. Excused(p) => Excused(p)'
      BY <1>6 DEF Excused
    <3>3. \A d \in Clients : d # c /\ GoesOn(d, p) => GoesOn(d, p)'
      BY <1>2, <1>5 DEF GoesOn
    <3>4. GoesOn(c, p) => GoesOn(c, p)'
      BY <1>1, <1>3, <1>5, <1>7, <2>1 DEF GoesOn
    <3> QED
      BY <3>1, <3>2, <3>3, <3>4
  <2>2. \A p \in Timely : Started(p)' => Started(p)
    BY <1>6 DEF Started
  <2>3. ASSUME NEW d \in Clients, NEW p \in Timely, Start(p) \in Cmds(chain'[d])
        PROVE  page'[d].id = p \/ End(p) \in Cmds(chain'[d])
    <3>1. Start(p) \in Cmds(chain[d]) /\ (page[d].id = p \/ End(p) \in Cmds(chain[d]))
      BY <1>2, <1>3, <1>5, <2>3, InTime DEF Core, HoldOK
    <3> QED
      BY <1>1, <1>2, <1>3, <1>5, <1>7, <3>1
  <2> QED
    BY <1>6, <2>1, <2>2, <2>3 DEF Core, HoldOK
<1> QED
  BY <1>9, <1>10, <1>11, <1>12, <1>13 DEF Core

(* The head of a chain goes when it has been answered, or is given up; the   *)
(* server may still have it, or get it.                                      *)
LEMMA SettledKeeps ==
  ASSUME Types, Core, NEW c \in Clients, fetch[c] # "idle",
         chain' = [chain EXCEPT ![c] = Tail(@)], fetch' = [fetch EXCEPT ![c] = "idle"],
         UNCHANGED << far, page, presses, viaQueue, vanished, rerouted >>,
         failed \subseteq failed',
         \A p \in Presses : fetch[c] = "sent" /\ Head(chain[c]) = End(p) => p \in failed',
         Slow' = Slow \/ (Slow = {} /\ Slow' = {Head(chain[c])}),
         late' \subseteq late \cup {Head(chain[c])}
  PROVE  Core'
<1> DEFINE e == Head(chain[c])
<1>1. chain[c] \in Seq(Keys) /\ chain[c] # << >> /\ fetch[c] \in {"sent", "answered"}
  BY Chains DEF Types, TypeOK
<1>2. /\ chain'[c] = Tail(chain[c]) /\ fetch'[c] = "idle"
      /\ \A d \in Clients : d # c => chain'[d] = chain[d] /\ fetch'[d] = fetch[d]
  BY DEF Types, TypeOK
<1>3. Cmds(chain[c]) = {e} \cup Cmds(chain'[c]) /\ e \in Keys
  BY <1>1, <1>2, Dropped
<1>4. /\ UNCHANGED << Far, Timely, held, over, queue, hand >>
      /\ Slow' \subseteq Slow \cup {e} /\ late' \subseteq late \cup {e}
      /\ \A d \in Clients : d # c => Pending(d)' = Pending(d)
  BY <1>2 DEF Far, far, Timely, Pending
<1> HIDE DEF e
<1>5. \A p \in Presses : End(p) \in Pending(c) => End(p) \in Pending(c)' \/ p \in failed'
  BY <1>1, <1>2, <1>3 DEF Pending, e
<1>6. \A p \in Timely : /\ Started(p)' => Started(p) \/ Start(p) = e
                        /\ Ended(p)' => Ended(p) \/ End(p) = e
  BY <1>4 DEF Started, Ended
<1>7. /\ \A d \in Clients : Cmds(chain'[d]) \subseteq Cmds(chain[d])
      /\ \A d \in Clients : Ordered(chain[d], Timely)
  BY <1>2, <1>3 DEF Core, InOrder
<1>8. \A p \in Timely : /\ End(p) = e => Start(p) \notin Cmds(chain[c])
                        /\ Start(p) \in Cmds(chain[c]) /\ End(p) \in Cmds(chain[c]) => End(p) \in Cmds(chain'[c])
  BY <1>1, <1>2, <1>7, InTime, OrderedTail DEF e
<1>9. ASSUME NEW d \in Clients, d # c, NEW p \in Presses, End(p) = e \/ Start(p) = e
      PROVE  page[d].id # p /\ Start(p) \notin Cmds(chain[d])
  <2>1. p \in PressesOf(c) /\ p # 0
    BY <1>3, <1>9 DEF PressesOf, End, Start, Key, Presses
  <2>2. p \notin PressesOf(d)
    BY <1>9, <2>1 DEF Core, Own
  <2>3. Start(p).id = p
    BY DEF Start, Key
  <2> QED
    BY <2>2, <2>3 DEF PressesOf
<1>10. Own' /\ Fresh'
  <2>1. \A d \in Clients : PressesOf(d)' \subseteq PressesOf(d)
    BY <1>2, <1>3 DEF PressesOf
  <2>2. e.id \in 0 .. presses
    BY <1>3 DEF Core, Fresh, PressesOf
  <2> QED
    BY <1>4, <2>1, <2>2 DEF Core, Own, Fresh
<1>11. PageOK'
  <2> SUFFICES ASSUME NEW d \in Clients, NEW p \in Timely, page[d].id = p
               PROVE  /\ ~Ended(p)' /\ End(p) \notin Cmds(chain'[d])
                      /\ page[d].at = "down" => ~Started(p)' /\ Start(p) \notin Cmds(chain'[d])
    BY <1>4 DEF PageOK
  <2>1. /\ ~Ended(p) /\ End(p) \notin Cmds(chain[d])
        /\ page[d].at = "down" => ~Started(p) /\ Start(p) \notin Cmds(chain[d])
    BY DEF Core, PageOK
  <2>2. End(p) = e \/ Start(p) = e => d = c
    BY <1>9, InTime
  <2>3. End(p) # e /\ (page[d].at = "down" => Start(p) # e)
    BY <1>3, <2>1, <2>2
  <2> QED
    BY <1>6, <1>7, <2>1, <2>3
<1>12. InOrder'
  <2>1. Ordered(chain'[c], Timely)
    BY <1>1, <1>2, <1>7, InTime, OrderedTail
  <2> QED
    BY <1>2, <1>4, <2>1 DEF Core, InOrder
<1>13. EndsLast'
  <2> SUFFICES ASSUME NEW p \in Timely
               PROVE  /\ Ended(p)' => \A d \in Clients : Start(p) \notin Cmds(chain'[d])
                      /\ hand = End(p) => Start(p) \notin Cmds(queue)
                      /\ Start(p) \in Slow' => End(p) \notin Far
                      /\ p \in over => ~Started(p)'
    BY <1>4 DEF EndsLast
  <2>1. Start(p) = e => ~Ended(p)
    BY <1>3 DEF Core, EndsLast
  <2>2. End(p) = e => \A d \in Clients : Start(p) \notin Cmds(chain[d])
    BY <1>8, <1>9, InTime
  <2> QED
    BY <1>4, <1>6, <1>7, <2>1, <2>2 DEF Core, EndsLast, Ended
<1>14. HoldOK'
  <2>1. ASSUME NEW p \in Timely, Started(p)'
        PROVE  Excused(p)' \/ \E d \in Clients : GoesOn(d, p)'
    <3>1. CASE Started(p)
      <4>1. Excused(p) \/ \E d \in Clients : GoesOn(d, p)
        BY <3>1 DEF Core, HoldOK
      <4>2. Excused(p) => Excused(p)'
        BY <1>4 DEF Excused
      <4>3. \A d \in Clients : d # c /\ GoesOn(d, p) => GoesOn(d, p)'
        BY <1>4 DEF GoesOn
      <4>4. GoesOn(c, p) => GoesOn(c, p)' \/ Excused(p)'
        BY <1>5, InTime DEF GoesOn, Excused
      <4> QED
        BY <4>1, <4>2, <4>3, <4>4
    <3>2. CASE Start(p) = e
      <4>1. page[c].id = p \/ End(p) \in Cmds(chain'[c])
        BY <1>3, <1>8, <3>2 DEF Core, HoldOK
      <4> QED
        BY <1>2, <4>1 DEF GoesOn, Pending
    <3> QED
      BY <1>6, <2>1, <3>1, <3>2
  <2>2. ASSUME NEW d \in Clients, NEW p \in Timely, Start(p) \in Cmds(chain'[d])
        PROVE  page[d].id = p \/ End(p) \in Cmds(chain'[d])
    <3>1. Start(p) \in Cmds(chain[d]) /\ (page[d].id = p \/ End(p) \in Cmds(chain[d]))
      BY <1>7, <2>2 DEF Core, HoldOK
    <3> QED
      BY <1>2, <1>8, <3>1
  <2> QED
    BY <1>4, <2>1, <2>2 DEF Core, HoldOK
<1> QED
  BY <1>10, <1>11, <1>12, <1>13, <1>14 DEF Core

LEMMA Ending ==
  ASSUME NEW keys, NEW e \in keys, e # Nobody, e.dir = "END_LONG"
  PROVE  e.id \in Ends(keys)
BY DEF Ends

LEMMA PageKeeps ==
  ASSUME Types, WorkerOK, Core, NEW c \in Clients, PageStep(c)
  PROVE  Core'
<1>1. CASE PointerDown(c) \/ HoldTimer(c) \/ Release(c)
  BY <1>1, PointerDownKeeps, HoldTimerKeeps, ReleaseKeeps
<1>2. CASE SendKey(c)
  <2>1. /\ fetch[c] = "idle" /\ fetch' = [fetch EXCEPT ![c] = "sent"]
        /\ UNCHANGED << far, given, page, chain, presses, viaQueue, failed, vanished, rerouted >>
    BY <1>2 DEF SendKey, session, history, far, given, Slow
  <2>2. \A d \in Clients : Pending(d)' = Pending(d) /\ PressesOf(d)' = PressesOf(d)
    BY <2>1 DEF Pending, PressesOf, Types, TypeOK
  <2>3. UNCHANGED << Far, Slow, late, Timely, held, over, queue, hand >>
    BY <2>1 DEF Far, far, given, Timely
  <2>4. Own' /\ Fresh'
    BY <2>1, <2>2, <2>3 DEF Core, Own, Fresh
  <2>5. PageOK' /\ InOrder' /\ EndsLast'
    BY <2>1, <2>3 DEF Core, PageOK, InOrder, EndsLast, Started, Ended
  <2>6. HoldOK'
    BY <2>1, <2>2, <2>3 DEF Core, HoldOK, Started, Excused, GoesOn
  <2> QED
    BY <2>4, <2>5, <2>6 DEF Core
<1>3. CASE Answer(c)
  <2>1. /\ fetch[c] = "answered" /\ chain' = [chain EXCEPT ![c] = Tail(@)]
        /\ fetch' = [fetch EXCEPT ![c] = "idle"]
        /\ UNCHANGED << far, given, page, presses, viaQueue, vanished, rerouted, failed >>
    BY <1>3 DEF Answer, Settled, session, history, far, given, Slow
  <2> QED
    BY <2>1, SettledKeeps DEF given
<1>4. CASE FetchFails(c)
  <2>1. /\ fetch[c] = "sent" /\ chain' = [chain EXCEPT ![c] = Tail(@)]
        /\ fetch' = [fetch EXCEPT ![c] = "idle"]
        /\ UNCHANGED << far, page, presses, viaQueue, vanished, rerouted >>
        /\ failed' = failed \cup Ends({Head(chain[c])})
    BY <1>4 DEF FetchFails, Settled, session, far
  <2>2. ASSUME NEW p \in Presses, Head(chain[c]) = End(p) PROVE p \in failed'
    <3>1. End(p).id = p /\ End(p).dir = "END_LONG"
      BY DEF End, Key
    <3> QED
      BY <2>1, <2>2, <3>1, Ending, Different
  <2>3. CASE Serving(c)
    <3>1. worker' = [worker EXCEPT !.who = Gone] /\ UNCHANGED late
      BY <1>4, <2>3 DEF FetchFails
    <3>2. worker \in Requests /\ worker.who = c /\ c # Gone
      BY <2>3, ClientAssumption DEF Serving, Types, Polls
    <3>3. Head(chain[c]) = Key(worker.dir, worker.id)
      BY <3>2 DEF WorkerOK
    <3>4. worker' \in Requests /\ worker'.who = Gone /\ worker'.dir = worker.dir /\ worker'.id = worker.id
      BY <3>1, <3>2 DEF Requests
    <3>5. Slow = {} /\ Slow' = {Head(chain[c])}
      BY <3>2, <3>3, <3>4 DEF Slow
    <3> QED
      BY <2>1, <2>2, <3>1, <3>5, SettledKeeps
  <2>4. CASE ~Serving(c)
    <3>1. late' = late \cup {Head(chain[c])} /\ UNCHANGED worker
      BY <1>4, <2>4 DEF FetchFails
    <3>2. Slow' = Slow
      BY <3>1 DEF Slow
    <3> QED
      BY <2>1, <2>2, <3>1, <3>2, SettledKeeps
  <2> QED
    BY <2>3, <2>4
<1>5. CASE Poll(c) \/ PollAnswered(c)
  <2>1. UNCHANGED flow
    BY <1>5 DEF Poll, PollAnswered, session, history, flow, far, given, Slow
  <2> QED
    BY <2>1, CoreUntouched
<1> QED
  BY <1>1, <1>2, <1>3, <1>4, <1>5 DEF PageStep

(***************************************************************************)
(* Steps behind the pages.                                                 *)
(***************************************************************************)

(* Commands move on, end up or are lost, and none is added.                  *)
LEMMA OnwardsKeeps ==
  ASSUME Core, UNCHANGED << page, chain, presses, belated >>, viaQueue \subseteq viaQueue',
         \A k \in Far' \cup Slow' \cup late' : k.id \in 0 .. presses,
         held' \in 0 .. presses, over' \subseteq 0 .. presses,
         \A p \in Timely : /\ Started(p)' => Started(p)
                           /\ Ended(p)' => Ended(p)
                           /\ hand' = End(p) => Start(p) \notin Cmds(queue')
                           /\ Start(p) \in Slow' => End(p) \notin Far'
                           /\ p \in over' => ~Started(p)'
                           /\ Start(p) \in Far' \/ held' = p => p \in viaQueue',
         Ordered(queue', Timely),
         \A p \in Timely : Started(p)' => /\ Excused(p) => Excused(p)'
                                          /\ \A c \in Clients : GoesOn(c, p) => GoesOn(c, p)' \/ Excused(p)'
  PROVE  Core'
<1>0. Timely' = Timely
  BY DEF Timely
<1>1. Own' /\ Fresh'
  BY DEF Core, Own, Fresh, PressesOf
<1>2. PageOK' /\ InOrder' /\ EndsLast'
  BY <1>0 DEF Core, PageOK, InOrder, EndsLast
<1>3. HoldOK'
  BY <1>0 DEF Core, HoldOK
<1> QED
  BY <1>1, <1>2, <1>3 DEF Core

LEMMA Requested ==
  ASSUME Types, WorkerOK, worker # Nobody, worker.at \notin {"status", "volume", "status_samsung"}
  PROVE  /\ worker \in Requests /\ worker.id \in Presses /\ worker.dir \in Dir
         /\ worker.who \in Clients \/ (worker.who = Gone /\ worker.who \notin Clients)
         /\ worker.who \in Clients =>
              /\ fetch[worker.who] = "sent" /\ Head(chain[worker.who]) = Key(worker.dir, worker.id)
              /\ chain[worker.who] \in Seq(Keys) /\ chain[worker.who] # << >>
<1>1. worker \in Requests
  BY DEF Types, Polls
<1>2. /\ worker.who \in Clients \/ (worker.who = Gone /\ worker.who \notin Clients)
      /\ worker.id \in Presses /\ worker.dir \in Dir
  BY <1>1, ClientAssumption DEF Requests
<1> QED
  BY <1>1, <1>2, Chains DEF WorkerOK

(* What the worker has, if its page still waits for it or not.               *)
LEMMA Whose ==
  ASSUME Types, WorkerOK, worker # Nobody, worker.at \notin {"status", "volume", "status_samsung"}
  PROVE  /\ worker.who \in Clients => Slow = {} /\ Heard = [fetch EXCEPT ![worker.who] = "answered"]
         /\ worker.who \notin Clients => Slow = {Key(worker.dir, worker.id)} /\ Heard = fetch
BY Requested, ClientAssumption DEF Slow, Heard

(* A request is answered, and its command has not been queued.               *)
LEMMA AnsweredKeeps ==
  ASSUME Types, WorkerOK, Core, worker # Nobody, worker.at \notin {"status", "volume", "status_samsung"},
         fetch' = Heard, worker' = Nobody,
         UNCHANGED << far, late, page, chain, presses, viaQueue, vanished >>,
         failed \subseteq failed', rerouted \subseteq rerouted',
         worker.dir = "END_LONG" /\ worker.id \in Timely /\ (Start(worker.id) \in Far \/ held = worker.id)
           => worker.id \in failed' \cup rerouted'
  PROVE  Core'
<1>1. Slow' = {}
  BY DEF Slow, Requests, Nobody
<1>2. UNCHANGED << Far, Timely, held, over, queue, hand, late, belated >>
  BY DEF Far, far, Timely
<1>3. ASSUME NEW p \in Timely, Started(p)', NEW c \in Clients, GoesOn(c, p)
      PROVE  GoesOn(c, p)' \/ Excused(p)'
  <2>1. CASE worker.who \notin Clients
    BY <1>3, <2>1, Whose DEF GoesOn, Pending
  <2>2. CASE worker.who \in Clients
    <3>1. PICK w \in Clients : w = worker.who
      BY <2>2
    <3>2. /\ fetch[w] = "sent" /\ Head(chain[w]) = Key(worker.dir, worker.id)
          /\ chain[w] \in Seq(Keys) /\ chain[w] # << >>
      BY <3>1, Requested
    <3>3. Cmds(chain[w]) = {Head(chain[w])} \cup Cmds(Tail(chain[w]))
      BY <3>2, Dropped
    <3>4. /\ Pending(w) = Cmds(chain[w]) /\ Pending(w)' = Cmds(Tail(chain[w]))
          /\ \A d \in Clients : d # w => Pending(d)' = Pending(d)
      BY <3>1, <3>2, Whose DEF Pending, Types, TypeOK
    <3>5. CASE c # w
      BY <1>3, <3>4, <3>5 DEF GoesOn
    <3>6. CASE c = w /\ End(p) = Head(chain[w])
      <4>1. worker.id = p /\ worker.dir = "END_LONG"
        BY <3>2, <3>6 DEF End, Key
      <4>2. Start(p) \in Far \/ held = p
        BY <1>1, <1>2, <1>3 DEF Started
      <4> QED
        BY <4>1, <4>2 DEF Excused
    <3>7. CASE c = w /\ End(p) # Head(chain[w])
      BY <1>3, <3>3, <3>4, <3>7 DEF GoesOn
    <3> QED
      BY <3>5, <3>6, <3>7
  <2> QED
    BY <2>1, <2>2
<1>4. \A p \in Timely : Excused(p) => Excused(p)'
  BY <1>2 DEF Excused
<1>5. /\ \A k \in Far' \cup Slow' \cup late' : k.id \in 0 .. presses
      /\ held' \in 0 .. presses /\ over' \subseteq 0 .. presses /\ Ordered(queue', Timely)
  BY <1>1, <1>2 DEF Core, Fresh, InOrder
<1>6. \A p \in Timely : /\ Started(p)' => Started(p)
                        /\ Ended(p)' => Ended(p)
                        /\ hand' = End(p) => Start(p) \notin Cmds(queue')
                        /\ Start(p) \in Slow' => End(p) \notin Far'
                        /\ p \in over' => ~Started(p)'
                        /\ Start(p) \in Far' \/ held' = p => p \in viaQueue'
  BY <1>1, <1>2 DEF Core, EndsLast, HoldOK, Started, Ended
<1> QED
  BY <1>2, <1>3, <1>4, <1>5, <1>6, OnwardsKeeps

(* The command of a page that still waits joins the queue.                   *)
LEMMA EnqueueOwnKeeps ==
  ASSUME Types, WorkerOK, Core, Enqueue, worker.who \in Clients
  PROVE  Core'
<1>0. PICK w \in Clients, e \in Keys : w = worker.who /\ e = Key(worker.dir, worker.id)
  BY Requested DEF Enqueue, At, Key, Keys, Presses
<1>1. /\ worker.id \in Presses /\ worker.dir \in Dir
      /\ fetch[w] = "sent" /\ Head(chain[w]) = e
      /\ chain[w] \in Seq(Keys) /\ chain[w] # << >>
  BY <1>0, Requested DEF Enqueue, At
<1>r. Slow = {} /\ Slow' = {} /\ Heard = [fetch EXCEPT ![w] = "answered"]
  BY <1>0, Whose DEF Enqueue, At, Slow, Requests, Nobody
<1>2. /\ queue' = Append(queue, e) /\ fetch' = [fetch EXCEPT ![w] = "answered"]
      /\ viaQueue \subseteq viaQueue' /\ \A p \in Presses : e = Start(p) => p \in viaQueue'
      /\ UNCHANGED << hand, held, over, late, Timely, page, chain, presses, failed, vanished, rerouted >>
  BY <1>0, <1>r DEF Enqueue, Start, Key, Timely
<1>3. e \in Keys /\ e.id \in Presses
  BY DEF Keys, Presses
<1>4. /\ Cmds(queue') = Cmds(queue) \cup {e} /\ Far' = Far \cup {e} /\ queue \in Seq(Keys)
  BY <1>1, <1>2, <1>3, Appended, Chains DEF Far
<1>5. Cmds(chain[w]) = {e} \cup Cmds(Tail(chain[w])) /\ e.id \in PressesOf(w)
  BY <1>1, Dropped DEF PressesOf
<1>6. /\ Pending(w) = Cmds(chain[w]) /\ Pending(w)' = Cmds(Tail(chain[w]))
      /\ \A c \in Clients : c # w => Pending(c)' = Pending(c)
  BY <1>1, <1>2 DEF Pending, Types, TypeOK
<1>7. \A c \in Clients : c # w => e.id \notin PressesOf(c)
  BY <1>1, <1>3, <1>5 DEF Core, Own, Presses
<1>8. \A p \in Presses : (e = Start(p) \/ e = End(p)) => e.id = p
  BY DEF Start, End, Key
<1>9. \A p \in Presses : (e = Start(p) => Start(p) \in Cmds(chain[w])) /\ (e = End(p) => End(p) \in Cmds(chain[w]))
  BY <1>5
<1>10. Own'
  BY <1>2 DEF Core, Own, PressesOf
<1>11. Fresh'
  BY <1>1, <1>r, <1>2, <1>4, <1>5 DEF Core, Fresh, PressesOf
<1>12. \A p \in Timely : /\ Started(p)' <=> Started(p) \/ e = Start(p)
                         /\ Ended(p)' <=> Ended(p) \/ e = End(p)
  BY <1>r, <1>2, <1>4 DEF Started, Ended
<1>13. PageOK'
  <2> SUFFICES ASSUME NEW c \in Clients, NEW p \in Timely, page[c].id = p
               PROVE  /\ ~Ended(p)' /\ End(p) \notin Cmds(chain[c])
                      /\ page[c].at = "down" => ~Started(p)' /\ Start(p) \notin Cmds(chain[c])
    BY <1>2 DEF PageOK
  <2>1. /\ ~Ended(p) /\ End(p) \notin Cmds(chain[c])
        /\ page[c].at = "down" => ~Started(p) /\ Start(p) \notin Cmds(chain[c])
    BY DEF Core, PageOK
  <2>2. e = Start(p) \/ e = End(p) => c = w
    BY <1>7, <1>8, InTime DEF PressesOf
  <2> QED
    BY <1>9, <1>12, <2>1, <2>2, InTime
<1>14. InOrder'
  <2>1. \A p \in Timely : e = Start(p) => End(p) \notin Cmds(queue)
    BY <1>1, <1>9, InTime DEF Core, EndsLast, Ended, Far
  <2>2. Ordered(queue', Timely)
    BY <1>2, <1>3, <1>4, <2>1, InTime, OrderedAppend DEF Core, InOrder
  <2> QED
    BY <1>2, <2>2 DEF Core, InOrder
<1>15. ASSUME NEW p \in Timely, Ended(p)', NEW c \in Clients PROVE Start(p) \notin Cmds(chain[c])
  <2>1. CASE Ended(p)
    BY <2>1 DEF Core, EndsLast
  <2>2. CASE e = End(p) /\ c = w
    BY <1>1, <2>2, InTime, OrderedTail DEF Core, InOrder
  <2>3. CASE e = End(p) /\ c # w
    <3>1. p \notin PressesOf(c) /\ Start(p).id = p
      BY <1>7, <1>8, <2>3, InTime DEF Start, Key
    <3> QED
      BY <3>1 DEF PressesOf
  <2> QED
    BY <1>12, <1>15, <2>1, <2>2, <2>3
<1>16. EndsLast'
  <2>1. \A p \in Timely : hand = End(p) \/ p \in over => e # Start(p)
    BY <1>1, <1>9, InTime DEF Core, EndsLast, Ended, Far
  <2> QED
    BY <1>r, <1>2, <1>4, <1>12, <1>15, <2>1 DEF Core, EndsLast
<1>17. ASSUME NEW p \in Timely, Started(p)'
       PROVE  Excused(p)' \/ \E c \in Clients : GoesOn(c, p)'
  <2>1. CASE e = Start(p)
    <3>1. page[w].id = p \/ End(p) \in Cmds(chain[w])
      BY <1>1, <1>9, <2>1, InTime DEF Core, HoldOK
    <3>2. End(p) \in Cmds(chain[w]) => End(p) \in Pending(w)'
      BY <1>1, <1>6, <1>9, <2>1, InTime, OrderedTail DEF Core, InOrder
    <3> QED
      BY <1>1, <1>2, <2>1, <3>1, <3>2 DEF GoesOn
  <2>2. CASE Started(p)
    <3>1. Excused(p) \/ \E c \in Clients : GoesOn(c, p)
      BY <2>2 DEF Core, HoldOK
    <3>2. Excused(p) => Excused(p)'
      BY <1>2, <1>4 DEF Excused
    <3>3. \A c \in Clients : c # w /\ GoesOn(c, p) => GoesOn(c, p)'
      BY <1>2, <1>6 DEF GoesOn
    <3>4. GoesOn(w, p) => GoesOn(w, p)' \/ Excused(p)'
      BY <1>2, <1>4, <1>5, <1>6 DEF GoesOn, Excused
    <3> QED
      BY <3>1, <3>2, <3>3, <3>4
  <2> QED
    BY <1>12, <1>17, <2>1, <2>2
<1>18. HoldOK'
  <2>1. \A p \in Timely : Start(p) \in Far' \/ held' = p => p \in viaQueue'
    BY <1>2, <1>4, InTime DEF Core, HoldOK
  <2> QED
    BY <1>2, <1>17, <2>1 DEF Core, HoldOK
<1> QED
  BY <1>10, <1>11, <1>13, <1>14, <1>16, <1>18 DEF Core

(* One that its page has given up joins the queue.                           *)
LEMMA EnqueueLateKeeps ==
  ASSUME Types, WorkerOK, Core, Enqueue, worker.who \notin Clients
  PROVE  Core'
<1>0. PICK e \in Keys : e = Key(worker.dir, worker.id)
  BY Requested DEF Enqueue, At, Key, Keys, Presses
<1>1. Slow = {e} /\ Slow' = {} /\ Heard = fetch
  BY <1>0, Whose DEF Enqueue, At, Slow, Requests, Nobody
<1>2. /\ queue' = Append(queue, e) /\ fetch' = fetch
      /\ viaQueue \subseteq viaQueue' /\ \A p \in Presses : e = Start(p) => p \in viaQueue'
      /\ UNCHANGED << hand, held, over, late, belated, Timely, page, chain, presses, failed, vanished, rerouted >>
  BY <1>0, <1>1 DEF Enqueue, Start, Key, Timely
<1>3. /\ Cmds(queue') = Cmds(queue) \cup {e} /\ Far' = Far \cup {e} /\ queue \in Seq(Keys)
  BY <1>2, Appended DEF Far, Types, TypeOK
<1>4. \A p \in Timely : /\ Started(p)' => Started(p)
                        /\ Ended(p)' => Ended(p)
                        /\ Excused(p) => Excused(p)'
  BY <1>1, <1>2, <1>3 DEF Started, Ended, Excused
<1>5. \A p \in Timely : e = Start(p) => End(p) \notin Far
  BY <1>1 DEF Core, EndsLast
<1>6. \A p \in Timely : /\ hand' = End(p) => Start(p) \notin Cmds(queue')
                        /\ Start(p) \in Slow' => End(p) \notin Far'
                        /\ p \in over' => ~Started(p)'
                        /\ Start(p) \in Far' \/ held' = p => p \in viaQueue'
  BY <1>1, <1>2, <1>3, <1>4, <1>5, InTime DEF Core, EndsLast, HoldOK, Far
<1>7. Ordered(queue', Timely)
  BY <1>2, <1>3, <1>5, InTime, OrderedAppend DEF Core, InOrder, Far
<1>8. /\ \A k \in Far' \cup Slow' \cup late' : k.id \in 0 .. presses
      /\ held' \in 0 .. presses /\ over' \subseteq 0 .. presses
  BY <1>1, <1>2, <1>3 DEF Core, Fresh
<1>9. \A c \in Clients : \A p \in Timely : GoesOn(c, p) => GoesOn(c, p)'
  BY <1>2 DEF GoesOn, Pending
<1> QED
  BY <1>2, <1>4, <1>6, <1>7, <1>8, <1>9, OnwardsKeeps

LEMMA NotARequest == Nobody \notin Requests /\ \A q : q \in Requests => q.id \notin {0, Nothing}
BY DEF Requests, Presses, Nothing, Nobody

(* The steps of the worker before the last leave the request as it is.       *)
LEMMA WalkedOn ==
  ASSUME Types, WorkerOK, ReadStatus \/ Report \/ ReadVolMax \/ ReadSamsung \/ ReadConnected
  PROVE  Slow' = Slow
<1>1. CASE ReadStatus \/ Report
  <2>1. worker \in Polls
    BY <1>1 DEF ReadStatus, Report, At, Types, Requests
  <2>2. worker' = Nobody \/ worker'.id = Nothing
    BY <1>1, <2>1 DEF ReadStatus, Report, Polls
  <2>3. worker.id = Nothing
    BY <2>1 DEF Polls
  <2>4. worker \notin Requests
    BY <2>3, NotARequest
  <2>5. worker' \notin Requests
    BY <2>2, NotARequest
  <2> QED
    BY <2>4, <2>5 DEF Slow
<1>2. CASE ReadVolMax \/ ReadSamsung \/ ReadConnected
  <2>1. PICK step \in {"samsung", "click", "no_op", "connected", "enqueue"} : worker' = [worker EXCEPT !.at = step]
    BY <1>2 DEF ReadVolMax, ReadSamsung, ReadConnected, Goes, Goto
  <2>2. worker \in Requests
    BY <1>2, Requested DEF ReadVolMax, ReadSamsung, ReadConnected, At
  <2>3. /\ worker' \in Requests /\ worker'.who = worker.who
        /\ worker'.dir = worker.dir /\ worker'.id = worker.id
    BY <2>1, <2>2 DEF Requests
  <2> QED
    BY <2>2, <2>3 DEF Slow
<1> QED
  BY <1>1, <1>2

LEMMA WorkKeeps ==
  ASSUME Types, WorkerOK, Core, Work
  PROVE  Core'
<1>1. CASE ReadStatus \/ Report \/ ReadVolMax \/ ReadSamsung \/ ReadConnected
  <2>1. UNCHANGED flow
    <3>1. UNCHANGED << far, late, page, chain, fetch, presses, viaQueue, failed, vanished, rerouted >>
      BY <1>1 DEF ReadStatus, Report, ReadVolMax, ReadSamsung, ReadConnected, Goes, session, pages, history, far
    <3>2. Slow' = Slow
      BY <1>1, WalkedOn
    <3> QED
      BY <3>1, <3>2 DEF flow, given
  <2> QED
    BY <2>1, CoreUntouched
<1>2. CASE Enqueue
  BY <1>2, EnqueueOwnKeeps, EnqueueLateKeeps
<1>3. CASE NoOp
  <2>1. /\ worker # Nobody /\ worker.at \notin {"status", "volume", "status_samsung"}
        /\ fetch' = Heard /\ worker' = Nobody
        /\ UNCHANGED << far, late, page, chain, presses, viaQueue, vanished, failed >>
        /\ rerouted' = rerouted \cup ({worker.id} \cap viaQueue)
    BY <1>3 DEF NoOp, At, Respond, session, far
  <2>2. worker.id \in Timely /\ (Start(worker.id) \in Far \/ held = worker.id) => worker.id \in viaQueue
    BY DEF Core, HoldOK
  <2> QED
    BY <2>1, <2>2, AnsweredKeeps
<1>4. CASE Click
  <2>1. /\ worker # Nobody /\ worker.at \notin {"status", "volume", "status_samsung"}
        /\ fetch' = Heard /\ worker' = Nobody
        /\ UNCHANGED << far, late, page, chain, presses, viaQueue, vanished, failed, rerouted >>
        /\ worker.at = "click"
    BY <1>4 DEF Click, At, Respond, session, far, history
  <2>2. worker.dir # "END_LONG"
    BY <2>1, Requested DEF WorkerOK
  <2> QED
    BY <2>1, <2>2, AnsweredKeeps
<1>5. CASE ClickFails \/ NotConnected \/ QueueFull
  <2>1. /\ worker # Nobody /\ worker.at \notin {"status", "volume", "status_samsung"}
        /\ fetch' = Heard /\ worker' = Nobody
        /\ UNCHANGED << far, late, page, chain, presses, viaQueue, vanished, rerouted >>
        /\ failed' = failed \cup Ends({worker})
    BY <1>5 DEF ClickFails, NotConnected, QueueFull, RefuseKey, At, Respond, session, far
  <2>2. worker.dir = "END_LONG" => worker.id \in failed'
    BY <2>1, Ending
  <2> QED
    BY <2>1, <2>2, AnsweredKeeps
<1> QED
  BY <1>1, <1>2, <1>3, <1>4, <1>5 DEF Work

(***************************************************************************)
(* The queue, the session and the Chromecast.                              *)
(***************************************************************************)

(* What the pages and the worker keep, a step of the session keeps.          *)
LEMMA Elsewhere ==
  ASSUME UNCHANGED << page, chain, fetch, failed, rerouted >>, NEW c \in Clients, NEW p
  PROVE  GoesOn(c, p)' = GoesOn(c, p)
BY DEF GoesOn, Pending

LEMMA Lost ==
  ASSUME NEW keys, NEW p \in Presses, End(p) \in keys
  PROVE  p \in Ends(keys)
<1>1. End(p).id = p /\ End(p).dir = "END_LONG" /\ End(p) # Nobody
  BY Different DEF End, Key
<1> QED
  BY <1>1, Ending

LEMMA TakeKeeps ==
  ASSUME Types, Core, Take
  PROVE  Core'
<1>1. /\ queue \in Seq(Keys) /\ queue # << >> /\ hand = Nobody
      /\ hand' = Head(queue) /\ queue' = Tail(queue)
      /\ UNCHANGED << held, over, belated, late, Slow, Timely, page, chain, fetch, presses, viaQueue >>
      /\ UNCHANGED << failed, vanished, rerouted >>
  BY DEF Take, Types, TypeOK, pages, history, Slow, Timely
<1>2. Cmds(queue) = {hand'} \cup Cmds(queue')
  BY <1>1, Dropped
<1>3. Far' \subseteq Far /\ Far \subseteq Far' \cup {Nobody}
  BY <1>1, <1>2 DEF Far
<1>4. \A p \in Timely : /\ Started(p)' <=> Started(p)
                        /\ Ended(p)' <=> Ended(p)
                        /\ Excused(p)' <=> Excused(p)
                        /\ Start(p) \in Far' => Start(p) \in Far
                        /\ End(p) \in Far' => End(p) \in Far
  BY <1>1, <1>3, InTime, Different DEF Started, Ended, Excused
<1>5. /\ Ordered(queue', Timely)
      /\ \A p \in Timely : hand' = End(p) => Start(p) \notin Cmds(queue')
  BY <1>1, <1>2, InTime, OrderedTail DEF Core, InOrder
<1>6. /\ \A k \in Far' \cup Slow' \cup late' : k.id \in 0 .. presses
      /\ held' \in 0 .. presses /\ over' \subseteq 0 .. presses
      /\ \A p \in Timely : /\ p \in over' => ~Started(p)
                           /\ Start(p) \in Slow' => End(p) \notin Far'
                           /\ Start(p) \in Far' \/ held' = p => p \in viaQueue'
  BY <1>1, <1>3, <1>4 DEF Core, Fresh, EndsLast, HoldOK
<1> QED
  BY <1>1, <1>4, <1>5, <1>6, OnwardsKeeps, Elsewhere

(* The command in hand is gone, and its end, if it is one, is accounted for. *)
LEMMA LostKeeps ==
  ASSUME Types, Core, hand' = Nobody,
         UNCHANGED << queue, held, over, belated, late, Slow, page, chain, fetch, presses, viaQueue, failed, rerouted >>,
         vanished' = vanished \cup Ends({hand})
  PROVE  Core'
<1>1. Far' \subseteq Far \cup {Nobody} /\ Far \subseteq Far' \cup {hand}
  BY DEF Far
<1>2. \A p \in Presses : hand = End(p) => p \in vanished'
  BY Lost
<1>3. \A p \in Timely : /\ Started(p)' => Started(p)
                        /\ Ended(p)' => Ended(p)
                        /\ Excused(p) => Excused(p)'
                        /\ hand' # End(p)
                        /\ Start(p) \in Far' => Start(p) \in Far
                        /\ End(p) \in Far' => End(p) \in Far
  BY <1>1, <1>2, InTime, Different DEF Started, Ended, Excused
<1>4. /\ \A k \in Far' \cup Slow' \cup late' : k.id \in 0 .. presses
      /\ held' \in 0 .. presses /\ over' \subseteq 0 .. presses
      /\ \A p \in Timely : /\ p \in over' => ~Started(p)
                           /\ Start(p) \in Slow' => End(p) \notin Far'
                           /\ Start(p) \in Far' \/ held' = p => p \in viaQueue'
      /\ Ordered(queue', Timely)
  BY <1>1, <1>3, BoundAssumption DEF Core, Fresh, EndsLast, HoldOK, InOrder, Nobody, Types
<1> QED
  BY <1>3, <1>4, OnwardsKeeps, Elsewhere

LEMMA PutBackKeeps ==
  ASSUME Types, Core, PutBack
  PROVE  Core'
<1>1. /\ queue \in Seq(Keys) /\ hand \in Keys /\ hand' = Nobody
      /\ UNCHANGED << held, over, belated, late, Slow, Timely, page, chain, fetch, presses, viaQueue, failed, rerouted >>
  BY DEF PutBack, Types, TypeOK, pages, Slow, Timely
<1>2. CASE Len(queue) < KeyCap
  <2>1. queue' = << hand >> \o queue /\ UNCHANGED vanished
    BY <1>2 DEF PutBack
  <2>2. Cmds(queue') = {hand} \cup Cmds(queue)
    BY <1>1, <2>1, Prepended
  <2>3. Far' = Far \cup {Nobody}
    BY <1>1, <2>2 DEF Far
  <2>4. \A p \in Timely : /\ Started(p)' <=> Started(p)
                          /\ Ended(p)' <=> Ended(p)
                          /\ Excused(p)' <=> Excused(p)
                          /\ hand' # End(p)
                          /\ Start(p) \in Far' => Start(p) \in Far
                          /\ End(p) \in Far' => End(p) \in Far
    BY <1>1, <2>1, <2>3, InTime, Different DEF Started, Ended, Excused
  <2>5. Ordered(queue', Timely)
    BY <1>1, <2>1, InTime, OrderedCons DEF Core, InOrder, EndsLast
  <2>6. /\ \A k \in Far' \cup Slow' \cup late' : k.id \in 0 .. presses
        /\ held' \in 0 .. presses /\ over' \subseteq 0 .. presses
        /\ \A p \in Timely : /\ p \in over' => ~Started(p)
                             /\ Start(p) \in Slow' => End(p) \notin Far'
                             /\ Start(p) \in Far' \/ held' = p => p \in viaQueue'
    BY <1>1, <2>3, <2>4, BoundAssumption DEF Core, Fresh, EndsLast, HoldOK, Nobody, Types
  <2> QED
    BY <1>1, <2>4, <2>5, <2>6, OnwardsKeeps, Elsewhere
<1>3. CASE ~(Len(queue) < KeyCap)
  <2>1. vanished' = vanished \cup Ends({hand}) /\ UNCHANGED queue
    BY <1>3 DEF PutBack
  <2> QED
    BY <1>1, <2>1, LostKeeps
<1> QED
  BY <1>2, <1>3

LEMMA DeliverKeeps ==
  ASSUME Types, Core, Deliver
  PROVE  Core'
<1>1. /\ hand \in Keys /\ hand' = Nobody
      /\ held' = CASE hand.dir = "START_LONG" -> hand.id
                   [] hand.dir = "END_LONG"   -> 0
                   [] OTHER                   -> held
      /\ over' = IF hand.dir = "END_LONG" THEN over \cup {hand.id} ELSE over
      /\ UNCHANGED << queue, belated, late, Slow, Timely, page, chain, fetch, presses, viaQueue, failed, vanished, rerouted >>
  BY DEF Deliver, Types, TypeOK, pages, Slow, Timely
<1>2. /\ hand.dir = "START_LONG" => hand = Start(hand.id)
      /\ hand.dir = "END_LONG" => hand = End(hand.id)
      /\ hand.id \in Presses /\ hand.dir \in Dir
  BY <1>1 DEF Keys, Start, End, Key, Presses
<1>3. Far' \subseteq Far \cup {Nobody} /\ Far \subseteq Far' \cup {hand} /\ hand \in Far
  BY <1>1 DEF Far
<1>4. hand.id \in 0 .. presses /\ held \in 0 .. presses /\ over \subseteq 0 .. presses /\ 0 \in 0 .. presses
  BY <1>3, BoundAssumption DEF Core, Fresh, Types
<1>5. /\ \A k \in Far' \cup Slow' \cup late' : k.id \in 0 .. presses
      /\ held' \in 0 .. presses /\ over' \subseteq 0 .. presses
  <2>1. \A k \in Far' \cup Slow' \cup late' : k.id \in 0 .. presses
    BY <1>1, <1>3, <1>4 DEF Core, Fresh, Nobody
  <2>2. CASE hand.dir = "START_LONG"
    BY <1>1, <1>4, <2>1, <2>2
  <2>3. CASE hand.dir = "END_LONG"
    BY <1>1, <1>4, <2>1, <2>3
  <2>4. CASE hand.dir = "SHORT"
    BY <1>1, <1>4, <2>1, <2>4
  <2> QED
    BY <1>2, <2>2, <2>3, <2>4 DEF Dir
<1>6. ASSUME NEW p \in Timely
      PROVE  /\ Started(p)' => Started(p)
             /\ Ended(p)' => Ended(p)
             /\ p \in over' => ~Started(p)'
             /\ Started(p)' /\ Excused(p) => Excused(p)'
  <2>1. /\ Start(p) \in Far' => Start(p) \in Far
        /\ End(p) \in Far' => End(p) \in Far
        /\ End(p) \in Far /\ hand # End(p) => End(p) \in Far'
    BY <1>3, InTime, Different
  <2>2. p # 0 /\ p \in Presses
    BY InTime DEF Presses
  <2>3. CASE hand.dir = "START_LONG"
    <3>1. held' = hand.id /\ over' = over /\ hand = Start(hand.id) /\ hand # End(p)
      BY <1>1, <1>2, <2>2, <2>3, Different
    <3>2. held' = p => hand = Start(p)
      BY <3>1
    <3>3. Started(p)' => Started(p)
      BY <1>1, <1>3, <2>1, <3>2 DEF Started
    <3> QED
      BY <1>1, <2>1, <3>1, <3>3 DEF Ended, Excused, Core, EndsLast
  <2>4. CASE hand.dir = "END_LONG"
    <3>1. held' = 0 /\ over' = over \cup {hand.id} /\ hand = End(hand.id)
      BY <1>1, <1>2, <2>4
    <3>2. Started(p)' => Start(p) \in Cmds(queue) \cup Slow
      BY <1>1, <2>2, <3>1, Different DEF Started, Far
    <3>3. Started(p)' => Started(p) /\ hand # End(p)
      BY <3>2 DEF Started, Far, Core, EndsLast
    <3>4. p \in over' => p \in over \/ hand = End(p)
      BY <3>1
    <3>5. Ended(p)' => Ended(p)
      BY <1>1, <1>3, <2>1, <3>4 DEF Ended
    <3>6. p \in over' => ~Started(p)'
      BY <3>3, <3>4 DEF Core, EndsLast
    <3> QED
      BY <1>1, <2>1, <3>3, <3>5, <3>6 DEF Excused
  <2>5. CASE hand.dir = "SHORT"
    <3>1. held' = held /\ over' = over /\ hand # End(p)
      BY <1>1, <2>5 DEF End, Key
    <3>2. (Started(p)' => Started(p)) /\ (Ended(p)' => Ended(p))
      BY <1>1, <2>1, <3>1 DEF Started, Ended
    <3> QED
      BY <1>1, <2>1, <3>1, <3>2 DEF Excused, Core, EndsLast
  <2> QED
    BY <1>2, <2>3, <2>4, <2>5 DEF Dir
<1>7. Ordered(queue', Timely) /\ \A p \in Timely : hand' # End(p)
  BY <1>1, InTime, Different DEF Core, InOrder
<1>8. ASSUME NEW p \in Timely
      PROVE  /\ Start(p) \in Slow' => End(p) \notin Far'
             /\ Start(p) \in Far' \/ held' = p => p \in viaQueue'
  <2>1. /\ Start(p) \in Far' => Start(p) \in Far
        /\ End(p) \in Far' => End(p) \in Far
    BY <1>3, InTime, Different
  <2>2. held' = p => held = p \/ hand = Start(p)
    <3>1. CASE hand.dir = "START_LONG"
      BY <1>1, <1>2, <3>1
    <3>2. CASE hand.dir = "END_LONG"
      BY <1>1, <3>2, InTime DEF Presses
    <3>3. CASE hand.dir = "SHORT"
      BY <1>1, <3>3
    <3> QED
      BY <1>2, <3>1, <3>2, <3>3 DEF Dir
  <2> QED
    BY <1>1, <1>3, <2>1, <2>2 DEF Core, EndsLast, HoldOK
<1> QED
  BY <1>1, <1>5, <1>6, <1>7, <1>8, OnwardsKeeps, Elsewhere

LEMMA RestartKeeps ==
  ASSUME Types, WorkerOK, Core, Restart
  PROVE  Core'
<1>1. /\ queue' = << >> /\ hand' = Nobody /\ worker' = Nobody /\ late' = {}
      /\ vanished' = vanished \cup Ends(Far)
      /\ failed' = failed \cup Ends({worker})
      /\ fetch' = IF worker # Nobody /\ worker.id # Nothing THEN Heard ELSE fetch
      /\ UNCHANGED << held, over, belated, Timely, page, chain, presses, viaQueue, rerouted >>
  BY DEF Restart, Far, Cmds, Timely
<1>2. Cmds(queue') = {} /\ Far' = {Nobody} /\ Ordered(queue', Timely) /\ Slow' = {}
  BY <1>1 DEF Cmds, Far, Ordered, Slow, Requests, Nobody
<1>3. \A p \in Presses : End(p) \in Far => p \in vanished'
  BY <1>1, Lost
<1>4. \A p \in Timely : /\ Started(p)' => held = p
                        /\ Ended(p)' => Ended(p)
                        /\ Excused(p) => Excused(p)'
                        /\ hand' # End(p) /\ Start(p) \notin Far'
  BY <1>1, <1>2, <1>3, InTime, Different DEF Started, Ended, Excused
<1>5. ASSUME NEW c \in Clients, NEW p \in Timely, GoesOn(c, p)
      PROVE  GoesOn(c, p)' \/ Excused(p)'
  <2>1. CASE fetch'[c] = fetch[c]
    BY <1>1, <1>5, <2>1 DEF GoesOn, Pending
  <2>2. CASE fetch'[c] # fetch[c]
    <3>1. worker # Nobody /\ worker.id # Nothing /\ fetch' = Heard
      BY <1>1, <2>2
    <3>2. worker \in Requests
      BY <3>1 DEF Types, Polls
    <3>3. worker.at \notin {"status", "volume", "status_samsung"}
      BY <3>2 DEF Requests
    <3>4. worker.who = c /\ fetch'[c] = "answered"
      BY <2>2, <3>1 DEF Heard, Types, TypeOK
    <3>5. /\ fetch[c] = "sent" /\ Head(chain[c]) = Key(worker.dir, worker.id)
          /\ Cmds(chain[c]) = {Head(chain[c])} \cup Cmds(Tail(chain[c]))
      BY <3>1, <3>3, <3>4, Requested, Dropped
    <3>6. End(p) = Head(chain[c]) => p \in failed'
      <4>1. End(p) = Head(chain[c]) => worker.dir = "END_LONG" /\ worker.id = p
        BY <3>5 DEF End, Key
      <4> QED
        BY <1>1, <3>1, <4>1, Ending
    <3> QED
      BY <1>1, <1>5, <3>4, <3>5, <3>6 DEF GoesOn, Pending, Excused
  <2> QED
    BY <2>1, <2>2
<1>6. /\ \A k \in Far' \cup Slow' \cup late' : k.id \in 0 .. presses
      /\ held' \in 0 .. presses /\ over' \subseteq 0 .. presses
      /\ \A p \in Timely : /\ p \in over' => ~Started(p)
                           /\ held = p => Started(p) /\ p \in viaQueue
  BY <1>1, <1>2, BoundAssumption DEF Core, Fresh, EndsLast, HoldOK, Started, Nobody, Types
<1>7. \A p \in Timely : /\ Started(p)' => Started(p)
                        /\ Ended(p)' => Ended(p)
                        /\ hand' = End(p) => Start(p) \notin Cmds(queue')
                        /\ Start(p) \in Slow' => End(p) \notin Far'
                        /\ p \in over' => ~Started(p)'
                        /\ Start(p) \in Far' \/ held' = p => p \in viaQueue'
  BY <1>1, <1>2, <1>4, <1>6
<1> QED
  BY <1>1, <1>2, <1>4, <1>5, <1>6, <1>7, OnwardsKeeps

(* A request that its page has given up is taken up: an end is where it was, *)
(* for all that is told of it; a start is told of no more.                   *)
LEMMA AcceptLateKeeps ==
  ASSUME Types, Core, NEW k \in late, AcceptLate(k)
  PROVE  Core'
<1>1. /\ worker = Nobody /\ k \in Keys
      /\ worker' = [id |-> k.id, dir |-> k.dir, who |-> Gone, at |-> "vol_max"]
      /\ late' = late \ {k}
      /\ belated' = IF k.dir = "START_LONG" THEN belated \cup {k.id} ELSE belated
      /\ UNCHANGED << queue, hand, held, over, page, chain, fetch, presses, viaQueue, failed, vanished, rerouted >>
  BY DEF AcceptLate, Types, TypeOK, session
<1>2. Slow = {} /\ Slow' = {k}
  <2>1. worker' \in Requests /\ Key(k.dir, k.id) = k
    BY <1>1 DEF Keys, Requests, Presses, Key
  <2> QED
    BY <1>1, <2>1 DEF Slow, Requests, Nobody
<1>3. Timely' \subseteq Timely /\ \A p \in Timely' : k # Start(p)
  <2>1. \A p \in Presses : k = Start(p) => k.dir = "START_LONG" /\ k.id = p
    BY DEF Start, Key
  <2> QED
    BY <1>1, <2>1 DEF Timely
<1>4. /\ UNCHANGED << Far, page, chain >>
      /\ \A c \in Clients : PressesOf(c)' = PressesOf(c) /\ Pending(c)' = Pending(c)
  BY <1>1 DEF Far, PressesOf, Pending
<1>5. \A p \in Timely' : /\ Started(p)' => Started(p)
                         /\ Ended(p)' => Ended(p)
                         /\ Excused(p) => Excused(p)'
                         /\ Start(p) \notin Slow'
  BY <1>1, <1>2, <1>3, <1>4 DEF Started, Ended, Excused
<1>6. Own' /\ Fresh'
  BY <1>1, <1>2, <1>4 DEF Core, Own, Fresh
<1>7. PageOK' /\ EndsLast'
  BY <1>1, <1>3, <1>4, <1>5 DEF Core, PageOK, EndsLast
<1>8. InOrder'
  BY <1>1, <1>3 DEF Core, InOrder, Ordered
<1>9. HoldOK'
  <2>1. \A c \in Clients : \A p \in Timely' : GoesOn(c, p) => GoesOn(c, p)'
    BY <1>1, <1>4 DEF GoesOn
  <2> QED
    BY <1>1, <1>3, <1>4, <1>5, <2>1 DEF Core, HoldOK
<1> QED
  BY <1>6, <1>7, <1>8, <1>9 DEF Core

LEMMA CoreKept ==
  ASSUME Types, WorkerOK, Core, [Next]_vars
  PROVE  Core'
<1>1. CASE \E c \in Clients : PageStep(c)
  BY <1>1, PageKeeps
<1>2. CASE Work
  BY <1>2, WorkKeeps
<1>3. CASE Take
  BY <1>3, TakeKeeps
<1>4. CASE Deliver
  BY <1>4, DeliverKeeps
<1>5. CASE Vanish
  <2>1. /\ hand' = Nobody /\ vanished' = vanished \cup Ends({hand})
        /\ UNCHANGED << queue, held, over, belated, late, Slow, page, chain, fetch, presses, viaQueue, failed, rerouted >>
    BY <1>5 DEF Vanish, pages, Slow
  <2> QED
    BY <2>1, LostKeeps
<1>6. CASE PutBack
  BY <1>6, PutBackKeeps
<1>7. CASE Restart
  BY <1>7, RestartKeeps
<1>8. CASE \E k \in late : AcceptLate(k)
  BY <1>8, AcceptLateKeeps
<1>9. CASE \/ \E c \in Clients : AcceptKey(c) \/ AcceptPoll(c)
           \/ Connect \/ RemoteStart \/ RemoteSetVolumeLevel \/ SessionEnds
           \/ ChannelConnect \/ WsDisconnected \/ TvRangeChanges \/ LinkBreaks \/ WsBreaks
           \/ UNCHANGED vars
  <2>1. UNCHANGED << far, late, page, chain, fetch, presses, viaQueue, failed, vanished, rerouted >>
    BY <1>9 DEF AcceptKey, AcceptPoll, Connect, RemoteStart, RemoteSetVolumeLevel, SessionEnds,
      ChannelConnect, WsDisconnected, TvRangeChanges, LinkBreaks, WsBreaks, vars, session, pages, history, far
  <2>2. Slow' = Slow
    <3>1. CASE UNCHANGED worker
      BY <3>1 DEF Slow
    <3>2. ASSUME NEW c \in Clients, AcceptKey(c) \/ AcceptPoll(c) PROVE Slow' = Slow
      <4>1. worker = Nobody /\ c # Gone
        BY <3>2, ClientAssumption DEF AcceptKey, AcceptPoll
      <4>2. AcceptKey(c) => worker'.who = c
        BY DEF AcceptKey
      <4>3. AcceptPoll(c) => worker'.who = c
        <5>1. \A d : [id |-> Nothing, dir |-> d, who |-> c, at |-> "status"].who = c
          OBVIOUS
        <5> QED
          BY <5>1, Zenon DEF AcceptPoll
      <4>4. worker'.who # Gone
        BY <3>2, <4>1, <4>2, <4>3
      <4>5. Slow = {}
        BY <4>1, NotARequest DEF Slow
      <4>6. Slow' = {}
        BY <4>4 DEF Slow
      <4> QED
        BY <4>5, <4>6
    <3> QED
      BY <1>9, <3>1, <3>2 DEF Connect, RemoteStart, RemoteSetVolumeLevel, SessionEnds,
        ChannelConnect, WsDisconnected, TvRangeChanges, LinkBreaks, WsBreaks, vars
  <2> QED
    BY <2>1, <2>2, CoreUntouched DEF flow, given
<1> QED
  BY <1>1, <1>2, <1>3, <1>4, <1>5, <1>6, <1>7, <1>8, <1>9 DEF Next

(***************************************************************************)
(* Types, and the request the HTTP worker has.                             *)
(***************************************************************************)
TypesOfPages ==
  /\ page \in [Clients -> [at : {"up", "down", "long"}, id : 0 .. MaxPresses]]
  /\ chain \in [Clients -> Seq(Keys)] /\ fetch \in [Clients -> {"idle", "sent", "answered"}]
  /\ volOk \in [Clients -> BOOLEAN] /\ poll \in [Clients -> {"idle", "sent", "volume", "no_volume"}]
  /\ presses \in 0 .. MaxPresses /\ late \subseteq Keys
  /\ PageType

TypesBehind ==
  /\ volMax \in {0, Range_} /\ connected \in BOOLEAN /\ samsung \in BOOLEAN
  /\ queue \in Seq(Keys) /\ Len(queue) <= KeyCap /\ hand \in Keys \cup {Nobody}
  /\ link \in {"none", "greeting", "up", "broken", "closed"}
  /\ tvMax \in {0, Range_} /\ news \in {0, Range_, Nothing} /\ told \in BOOLEAN
  /\ ws \in {"off", "paired", "broken"}
  /\ held \in 0 .. MaxPresses /\ over \subseteq Presses

TypesOfWorker == worker \in {Nobody} \cup Requests \cup Polls

LEMMA TypesParts == /\ Types <=> TypesOfPages /\ TypesBehind /\ TypesOfWorker
                    /\ Types' <=> TypesOfPages' /\ TypesBehind' /\ TypesOfWorker'
BY DEF Types, TypeOK, TypesOfPages, TypesBehind, TypesOfWorker

LEMMA PageTypesKept ==
  ASSUME Types, NEW c \in Clients, PageStep(c)
  PROVE  TypesOfPages'
<1> USE DEF TypesOfPages, PageType
<1>1. TypesOfPages
  BY TypesParts
<1>2. \A d \in Clients : chain[d] \in Seq(Keys)
  BY <1>1
<1>3. CASE PointerDown(c)
  <2>1. presses + 1 \in Presses /\ presses + 1 \in 0 .. MaxPresses
    BY <1>1, <1>3, BoundAssumption DEF PointerDown, Presses
  <2> QED
    BY <1>1, <1>3, <2>1 DEF PointerDown
<1>4. CASE HoldTimer(c) \/ Release(c)
  <2>1. PICK e : chain' = [chain EXCEPT ![c] = Append(@, e)] /\ e \in Keys
    <3>1. page[c].id \in Presses
      BY <1>1, <1>4 DEF HoldTimer, Release, Up
    <3> QED
      BY <1>4, <3>1 DEF HoldTimer, Release, Post, Key, Keys, Dir, Presses
  <2>2. /\ Append(chain[c], e) \in Seq(Keys) /\ Append(chain[c], e) # << >>
        /\ chain'[c] = Append(chain[c], e)
        /\ \A d \in Clients : d # c => chain'[d] = chain[d]
    <3>1. Append(chain[c], e) \in Seq(Keys) /\ Append(chain[c], e) # << >>
      BY <1>2, <2>1, Appended
    <3>2. chain'[c] = Append(chain[c], e) /\ \A d \in Clients : d # c => chain'[d] = chain[d]
      BY <1>1, <2>1
    <3> QED
      BY <3>1, <3>2
  <2>3. chain' \in [Clients -> Seq(Keys)] /\ \A d \in Clients : fetch[d] # "idle" => chain'[d] # << >>
    <3>1. PICK t \in Seq(Keys) : t = Append(chain[c], e) /\ chain' = [chain EXCEPT ![c] = t]
      BY <1>1, <2>1, <2>2
    <3>2. chain' \in [Clients -> Seq(Keys)]
      BY <1>1, <3>1
    <3> QED
      BY <1>1, <2>2, <3>2
  <2>4. /\ page' \in [Clients -> [at : {"up", "down", "long"}, id : 0 .. MaxPresses]]
        /\ \A d \in Clients : page'[d] = Up \/ (page'[d].at \in {"down", "long"} /\ page'[d].id \in Presses)
    <3>1. CASE HoldTimer(c)
      <4>1. page' = [page EXCEPT ![c].at = "long"] /\ page[c].id \in Presses
        BY <1>1, <3>1 DEF HoldTimer, Up
      <4>2. /\ page'[c].at = "long" /\ page'[c].id = page[c].id
            /\ \A d \in Clients : d # c => page'[d] = page[d]
        BY <1>1, <4>1
      <4>3. page' \in [Clients -> [at : {"up", "down", "long"}, id : 0 .. MaxPresses]]
        <5>1. PICK r \in [at : {"up", "down", "long"}, id : 0 .. MaxPresses] : r = [page[c] EXCEPT !.at = "long"]
          BY <1>1
        <5> QED
          BY <1>1, <4>1, <5>1
      <4> QED
        BY <1>1, <4>1, <4>2, <4>3
    <3>2. CASE Release(c)
      BY <1>1, <3>2, BoundAssumption DEF Release, Up
    <3> QED
      BY <1>4, <3>1, <3>2
  <2>5. UNCHANGED << fetch, volOk, poll, presses, late >>
    BY <1>4 DEF HoldTimer, Release
  <2> QED
    BY <1>1, <2>3, <2>4, <2>5
<1>5. CASE SendKey(c)
  BY <1>1, <1>5 DEF SendKey
<1>6. CASE Answer(c) \/ FetchFails(c)
  <2>1. /\ chain' = [chain EXCEPT ![c] = Tail(@)] /\ fetch' = [fetch EXCEPT ![c] = "idle"]
        /\ fetch[c] # "idle" /\ UNCHANGED << page, volOk, poll, presses >>
    BY <1>6 DEF Answer, FetchFails, Settled
  <2>2. Tail(chain[c]) \in Seq(Keys) /\ Head(chain[c]) \in Keys
    BY <1>1, <1>2, <2>1, Dropped
  <2>3. late' \subseteq late \cup {Head(chain[c])}
    BY <1>6 DEF Answer, FetchFails
  <2> QED
    BY <1>1, <2>1, <2>2, <2>3
<1>7. CASE Poll(c) \/ PollAnswered(c)
  BY <1>1, <1>7 DEF Poll, PollAnswered
<1> QED
  BY <1>3, <1>4, <1>5, <1>6, <1>7 DEF PageStep

(* A page's request is answered.                                             *)
LEMMA AnsweredTypes ==
  ASSUME Types, WorkerOK, worker # Nobody, worker.at \notin {"status", "volume", "status_samsung"},
         fetch' = Heard,
         UNCHANGED << page, chain, volOk, late, poll, presses >>
  PROVE  TypesOfPages'
<1>1. TypesOfPages
  BY TypesParts
<1>2. CASE worker.who \in Clients
  <2>1. chain[worker.who] # << >> /\ fetch' = [fetch EXCEPT ![worker.who] = "answered"]
    BY <1>2, Requested DEF Heard
  <2> QED
    BY <1>1, <1>2, <2>1 DEF TypesOfPages, PageType
<1>3. CASE worker.who \notin Clients
  <2>1. fetch' = fetch
    BY <1>3 DEF Heard
  <2> QED
    BY <1>1, <2>1 DEF TypesOfPages, PageType
<1> QED
  BY <1>2, <1>3

LEMMA GotoTypes ==
  ASSUME NEW step, worker # Nobody, TypesOfWorker, Goto(step),
         \/ worker \in Requests /\ step \in {"vol_max", "samsung", "click", "no_op", "connected", "enqueue"}
         \/ worker \in Polls /\ step \in {"status", "volume", "status_samsung"}
  PROVE  TypesOfWorker'
<1>1. CASE worker \in Requests
  BY <1>1 DEF TypesOfWorker, Goto, Requests, Polls
<1>2. CASE worker \in Polls
  BY <1>2 DEF TypesOfWorker, Goto, Requests, Polls
<1> QED
  BY <1>1, <1>2

LEMMA WorkTypesKept ==
  ASSUME Types, WorkerOK, Work
  PROVE  Types'
<1>0. TypesOfPages /\ TypesBehind /\ TypesOfWorker
  BY TypesParts
<1>1. CASE ReadStatus
  <2>1. /\ worker # Nobody /\ worker.at = "status" /\ Goto(IF volMax > 0 THEN "volume" ELSE "status_samsung")
        /\ UNCHANGED << device, session, tvs, pages, history >>
    BY <1>1 DEF ReadStatus, At, Goto
  <2>2. worker \in Polls
    BY <1>0, <2>1 DEF TypesOfWorker, Requests
  <2>3. TypesOfWorker'
    BY <1>0, <2>1, <2>2, GotoTypes
  <2>4. TypesOfPages' /\ TypesBehind'
    BY <1>0, <2>1 DEF TypesOfPages, PageType, TypesBehind, device, session, tvs, pages, history
  <2> QED
    BY <2>3, <2>4, TypesParts
<1>2. CASE Report
  <2>1. TypesOfPages'
    BY <1>0, <1>2 DEF Report, TypesOfPages, PageType
  <2>2. TypesBehind' /\ TypesOfWorker'
    BY <1>0, <1>2 DEF Report, TypesBehind, TypesOfWorker, device, session, tvs, history
  <2> QED
    BY <2>1, <2>2, TypesParts
<1>3. CASE ReadVolMax \/ ReadSamsung \/ ReadConnected
  <2>1. PICK step \in {"samsung", "click", "no_op", "connected", "enqueue"} : Goes(step)
    BY <1>3 DEF ReadVolMax, ReadSamsung, ReadConnected
  <2>2. worker # Nobody /\ worker \in Requests
    BY <1>3, Requested DEF ReadVolMax, ReadSamsung, ReadConnected, At
  <2>3. TypesOfWorker'
    BY <1>0, <2>1, <2>2, GotoTypes DEF Goes
  <2>4. TypesOfPages' /\ TypesBehind'
    BY <1>0, <2>1 DEF Goes, TypesOfPages, PageType, TypesBehind, device, session, tvs, pages, history
  <2> QED
    BY <2>3, <2>4, TypesParts
<1>4. CASE NoOp \/ Click \/ ClickFails \/ NotConnected \/ QueueFull
  <2>1. /\ worker # Nobody /\ worker.at \notin {"status", "volume", "status_samsung"}
        /\ Respond /\ UNCHANGED << held, over >>
    BY <1>4 DEF NoOp, Click, ClickFails, NotConnected, QueueFull, RefuseKey, At, history
  <2>2. TypesOfPages'
    BY <2>1, AnsweredTypes DEF Respond
  <2>3. TypesBehind' /\ TypesOfWorker'
    BY <1>0, <2>1 DEF Respond, TypesBehind, TypesOfWorker, device, session, tvs
  <2> QED
    BY <2>2, <2>3, TypesParts
<1>5. CASE Enqueue
  <2>1. /\ worker # Nobody /\ worker.at \notin {"status", "volume", "status_samsung"}
        /\ fetch' = Heard /\ worker' = Nobody
        /\ UNCHANGED << page, chain, volOk, late, poll, presses >>
    BY <1>5 DEF Enqueue, At
  <2>2. TypesOfPages' /\ TypesOfWorker'
    BY <2>1, AnsweredTypes DEF TypesOfWorker
  <2>3. queue' \in Seq(Keys) /\ Len(queue') <= KeyCap
    <3>1. PICK e \in Keys : queue' = Append(queue, e)
      BY <1>5, <2>1, Requested DEF Enqueue, Key, Keys, Presses
    <3>2. queue \in Seq(Keys) /\ Len(queue) < KeyCap
      BY <1>0, <1>5 DEF Enqueue, TypesBehind
    <3> QED
      BY <3>1, <3>2, BoundAssumption
  <2>4. TypesBehind'
    BY <1>0, <1>5, <2>3 DEF Enqueue, TypesBehind, device, tvs
  <2> QED
    BY <2>2, <2>4, TypesParts
<1> QED
  BY <1>1, <1>2, <1>3, <1>4, <1>5 DEF Work

LEMMA TypesKept ==
  ASSUME Types, WorkerOK, [Next]_vars
  PROVE  Types'
<1>0. TypesOfPages /\ TypesBehind /\ TypesOfWorker
  BY TypesParts
<1>1. CASE \E c \in Clients : PageStep(c)
  <2>1. TypesBehind'
    BY <1>0, <1>1 DEF PageStep, PointerDown, HoldTimer, Release, SendKey, Answer, FetchFails, Settled, Poll,
      PollAnswered, TypesBehind, device, session, tvs, history
  <2>2. TypesOfWorker'
    <3>1. CASE UNCHANGED worker
      BY <1>0, <3>1 DEF TypesOfWorker
    <3>2. ASSUME NEW c \in Clients, FetchFails(c), worker' # worker PROVE TypesOfWorker'
      <4>1. Serving(c) /\ worker' = [worker EXCEPT !.who = Gone]
        BY <3>2 DEF FetchFails
      <4>2. worker \in Requests
        BY <1>0, <4>1 DEF Serving, TypesOfWorker, Polls
      <4> QED
        BY <4>1, <4>2 DEF TypesOfWorker, Requests
    <3> QED
      BY <1>1, <3>1, <3>2 DEF PageStep, PointerDown, HoldTimer, Release, SendKey, Answer, Poll, PollAnswered
  <2> QED
    BY <1>1, <2>1, <2>2, PageTypesKept, TypesParts
<1>2. CASE Work
  BY <1>2, WorkTypesKept
<1>3. CASE \E c \in Clients : AcceptKey(c) \/ AcceptPoll(c)
  <2>1. TypesOfPages' /\ TypesBehind'
    <3>1. UNCHANGED << device, session, tvs, pages, history >>
      BY <1>3 DEF AcceptKey, AcceptPoll
    <3> QED
      BY <1>0, <3>1 DEF TypesOfPages, PageType, TypesBehind, device, session, tvs, pages, history
  <2>2. TypesOfWorker'
    <3>1. ASSUME NEW c \in Clients, AcceptPoll(c) PROVE TypesOfWorker'
      <4>1. worker' = [id |-> Nothing, dir |-> "", who |-> c, at |-> "status"]
        BY <3>1 DEF AcceptPoll
      <4> QED
        BY <4>1 DEF TypesOfWorker, Polls
    <3>2. ASSUME NEW c \in Clients, AcceptKey(c) PROVE TypesOfWorker'
      <4>1. Head(chain[c]) \in Keys
        BY <3>2, Chains, Dropped DEF AcceptKey
      <4>2. /\ Head(chain[c]).id \in Presses /\ Head(chain[c]).dir \in Dir
            /\ worker' = [id |-> Head(chain[c]).id, dir |-> Head(chain[c]).dir, who |-> c, at |-> "vol_max"]
        BY <3>2, <4>1 DEF AcceptKey, Keys, Presses
      <4> QED
        BY <4>2 DEF TypesOfWorker, Requests
    <3> QED
      BY <1>3, <3>1, <3>2
  <2> QED
    BY <2>1, <2>2, TypesParts
<1>4. CASE \/ Connect \/ RemoteStart \/ RemoteSetVolumeLevel \/ SessionEnds \/ Deliver \/ Vanish
           \/ ChannelConnect \/ WsDisconnected \/ TvRangeChanges \/ LinkBreaks \/ WsBreaks \/ UNCHANGED vars
  <2>1. TypesOfPages' /\ TypesOfWorker'
    BY <1>0, <1>4 DEF Connect, RemoteStart, RemoteSetVolumeLevel, SessionEnds, Deliver, Vanish,
      ChannelConnect, WsDisconnected, TvRangeChanges, LinkBreaks, WsBreaks, vars,
      TypesOfPages, PageType, TypesOfWorker, pages
  <2>2. CASE Connect \/ RemoteStart \/ RemoteSetVolumeLevel \/ SessionEnds \/ Vanish
             \/ ChannelConnect \/ WsDisconnected \/ LinkBreaks \/ WsBreaks \/ UNCHANGED vars
    BY <1>0, <2>1, <2>2, TypesParts DEF Connect, RemoteStart, RemoteSetVolumeLevel, SessionEnds, Vanish, vars,
      ChannelConnect, WsDisconnected, LinkBreaks, WsBreaks, TypesBehind, device, session, tvs, history
  <2>3. CASE TvRangeChanges
    <3>1. tvMax' \in {0, Range_}
      BY <1>0, <2>3 DEF TvRangeChanges, TypesBehind, Range_
    <3> QED
      BY <1>0, <2>1, <2>3, <3>1, TypesParts DEF TvRangeChanges, TypesBehind, device, session, history
  <2>4. CASE Deliver
    <3>1. hand \in Keys
      BY <1>0, <2>4 DEF Deliver, TypesBehind
    <3>2. held' \in 0 .. MaxPresses /\ over' \subseteq Presses
      BY <1>0, <2>4, <3>1, BoundAssumption DEF Deliver, TypesBehind, Keys, Presses
    <3> QED
      BY <1>0, <2>1, <2>4, <3>2, TypesParts DEF Deliver, TypesBehind, device, tvs
  <2> QED
    BY <1>4, <2>1, <2>2, <2>3, <2>4, TypesParts
<1>5. CASE Take \/ PutBack
  <2>1. TypesOfPages' /\ TypesOfWorker'
    BY <1>0, <1>5 DEF Take, PutBack, TypesOfPages, PageType, TypesOfWorker, pages
  <2>2. /\ queue' \in Seq(Keys) /\ Len(queue') <= KeyCap /\ hand' \in Keys \cup {Nobody}
    <3>1. CASE Take
      <4>1. /\ queue \in Seq(Keys) /\ queue # << >> /\ Len(queue) <= KeyCap
            /\ hand' = Head(queue) /\ queue' = Tail(queue)
        BY <1>0, <3>1 DEF Take, TypesBehind
      <4>2. Len(Tail(queue)) = Len(queue) - 1 /\ Len(queue) \in Nat
        BY <4>1
      <4> QED
        BY <4>1, <4>2, Dropped, BoundAssumption
    <3>2. CASE PutBack
      <4>1. queue \in Seq(Keys) /\ hand \in Keys /\ Len(queue) <= KeyCap /\ hand' = Nobody
        BY <1>0, <3>2 DEF PutBack, TypesBehind
      <4>2. /\ << hand >> \o queue \in Seq(Keys) /\ Len(<< hand >> \o queue) = Len(queue) + 1
            /\ Len(queue) \in Nat
        BY <4>1
      <4>3. CASE Len(queue) < KeyCap
        BY <3>2, <4>1, <4>2, <4>3, BoundAssumption DEF PutBack
      <4>4. CASE ~(Len(queue) < KeyCap)
        BY <3>2, <4>1, <4>4 DEF PutBack
      <4> QED
        BY <4>3, <4>4
    <3> QED
      BY <1>5, <3>1, <3>2
  <2>3. TypesBehind'
    BY <1>0, <1>5, <2>2 DEF Take, PutBack, TypesBehind, device, tvs, history
  <2> QED
    BY <2>1, <2>3, TypesParts
<1>6. CASE Restart
  <2>1. TypesOfPages'
    <3>1. /\ poll' \in [Clients -> {"idle", "sent", "volume", "no_volume"}]
          /\ late' = {} /\ UNCHANGED << page, chain, volOk, presses >>
      BY <1>0, <1>6 DEF Restart, TypesOfPages
    <3>2. CASE fetch' = fetch
      BY <1>0, <3>1, <3>2 DEF TypesOfPages, PageType
    <3>3. CASE fetch' # fetch
      <4>1. /\ worker # Nobody /\ worker.id # Nothing /\ worker.who \in Clients
            /\ fetch' = [fetch EXCEPT ![worker.who] = "answered"]
        BY <1>6, <3>3 DEF Restart, Heard
      <4>2. chain[worker.who] # << >>
        <5>1. worker.at \notin {"status", "volume", "status_samsung"}
          BY <1>0, <4>1 DEF TypesOfWorker, Polls, Requests
        <5> QED
          BY <4>1, <5>1, Requested
      <4> QED
        BY <1>0, <3>1, <4>1, <4>2 DEF TypesOfPages, PageType
    <3> QED
      BY <3>2, <3>3
  <2>2. TypesBehind' /\ TypesOfWorker'
    <3>1. /\ volMax' = 0 /\ connected' = FALSE /\ samsung' = FALSE
          /\ queue' = << >> /\ hand' = Nobody /\ link' = "none" /\ news' = Nothing /\ ws' = "off"
          /\ worker' = Nobody /\ UNCHANGED << tvMax, told, held, over >>
      BY <1>6 DEF Restart
    <3>2. << >> \in Seq(Keys) /\ Len(<< >>) <= KeyCap
      BY BoundAssumption
    <3> QED
      BY <1>0, <3>1, <3>2 DEF TypesBehind, TypesOfWorker
  <2> QED
    BY <2>1, <2>2, TypesParts
<1>7. ASSUME NEW k \in late, AcceptLate(k) PROVE Types'
  <2>1. /\ k \in Keys /\ late' \subseteq late
        /\ worker' = [id |-> k.id, dir |-> k.dir, who |-> Gone, at |-> "vol_max"]
    BY <1>0, <1>7 DEF AcceptLate, TypesOfPages
  <2>2. TypesOfWorker'
    BY <2>1 DEF TypesOfWorker, Requests, Keys, Presses
  <2>3. TypesOfPages' /\ TypesBehind'
    BY <1>0, <1>7, <2>1 DEF AcceptLate, TypesOfPages, PageType, TypesBehind, device, session, tvs
  <2> QED
    BY <2>2, <2>3, TypesParts
<1> QED
  BY <1>1, <1>2, <1>3, <1>4, <1>5, <1>6, <1>7 DEF Next

LEMMA HeadKept ==
  ASSUME NEW s \in Seq(Keys), s # << >>, NEW e \in Keys
  PROVE  Head(Append(s, e)) = Head(s)
OBVIOUS

LEMMA WorkerPageKept ==
  ASSUME Types, WorkerOK, NEW c \in Clients, PageStep(c)
  PROVE  WorkerOK'
<1>1. CASE UNCHANGED worker
  <2> SUFFICES ASSUME worker \in Requests, worker.who \in Clients
               PROVE  /\ fetch'[worker.who] = "sent"
                      /\ Head(chain'[worker.who]) = Head(chain[worker.who])
    BY <1>1 DEF WorkerOK
  <2>2. /\ worker # Nobody /\ worker.id # Nothing /\ worker.at \notin {"status", "volume", "status_samsung"}
    BY DEF Requests, Presses, Nothing, Nobody
  <2>3. PICK w \in Clients : w = worker.who
    OBVIOUS
  <2>4. /\ fetch[w] = "sent" /\ Head(chain[w]) = Key(worker.dir, worker.id)
        /\ chain[w] \in Seq(Keys) /\ chain[w] # << >>
    BY <2>2, <2>3, Requested
  <2>5. CASE PointerDown(c) \/ Poll(c) \/ PollAnswered(c)
    BY <2>3, <2>4, <2>5 DEF PointerDown, Poll, PollAnswered
  <2>6. CASE HoldTimer(c) \/ Release(c)
    <3>1. PICK e \in Keys : chain' = [chain EXCEPT ![c] = Append(@, e)] /\ fetch' = fetch
      <4>1. page[c].id \in Presses
        BY <2>6 DEF HoldTimer, Release, Types, PageType, Up
      <4> QED
        BY <2>6, <4>1 DEF HoldTimer, Release, Post, Key, Keys, Dir, Presses
    <3>2. chain'[w] = IF w = c THEN Append(chain[w], e) ELSE chain[w]
      BY <3>1 DEF Types, TypeOK
    <3> QED
      BY <2>3, <2>4, <3>1, <3>2, HeadKept
  <2>7. CASE SendKey(c)
    BY <2>3, <2>4, <2>7 DEF SendKey, Types, TypeOK
  <2>8. CASE Answer(c) \/ FetchFails(c)
    <3>1. c # w
      <4>1. Answer(c) => c # w
        BY <2>4 DEF Answer
      <4>2. FetchFails(c) => ~Serving(c)
        <5>1. worker.who # Gone
          BY ClientAssumption
        <5>2. Serving(c) => [worker EXCEPT !.who = Gone] # worker
          BY <5>1 DEF Requests
        <5> QED
          BY <1>1, <5>2 DEF FetchFails
      <4> QED
        BY <2>2, <2>3, <2>8, <4>1, <4>2 DEF Serving
    <3>2. fetch'[w] = fetch[w] /\ chain'[w] = chain[w]
      BY <2>8, <3>1 DEF Answer, FetchFails, Settled, Types, TypeOK
    <3> QED
      BY <2>3, <2>4, <3>2
  <2> QED
    BY <2>5, <2>6, <2>7, <2>8 DEF PageStep
<1>2. CASE FetchFails(c) /\ Serving(c)
  <2>1. worker' = [worker EXCEPT !.who = Gone] /\ worker \in Requests
    BY <1>2 DEF FetchFails, Serving, Types, Polls
  <2>2. worker'.who \notin Clients /\ worker'.at = worker.at /\ worker'.dir = worker.dir
    BY <2>1, ClientAssumption DEF Requests
  <2> QED
    BY <2>1, <2>2 DEF WorkerOK
<1> QED
  BY <1>1, <1>2 DEF PageStep, PointerDown, HoldTimer, Release, SendKey, Answer, FetchFails, Poll, PollAnswered

LEMMA WorkerKept ==
  ASSUME Types, WorkerOK, [Next]_vars
  PROVE  WorkerOK'
<1>1. CASE \E c \in Clients : PageStep(c)
  BY <1>1, WorkerPageKept
<1>2. CASE \/ Report \/ NoOp \/ Click \/ ClickFails \/ NotConnected \/ QueueFull \/ Enqueue \/ Restart
  <2>1. worker' = Nobody
    BY <1>2 DEF Report, NoOp, Click, ClickFails, NotConnected, QueueFull, RefuseKey, Respond, Enqueue, Restart
  <2> QED
    BY <2>1 DEF WorkerOK, Requests, Nobody
<1>3. CASE ReadStatus
  <2>1. worker # Nobody /\ worker.at = "status" /\ worker \in Polls
    BY <1>3 DEF ReadStatus, At, Types, Requests
  <2>2. worker'.id = Nothing
    BY <1>3, <2>1 DEF ReadStatus, Polls
  <2>3. worker' \notin Requests
    BY <2>2 DEF Requests, Presses, Nothing
  <2> QED
    BY <2>3 DEF WorkerOK
<1>4. CASE ReadVolMax \/ ReadSamsung \/ ReadConnected
  <2>1. worker # Nobody /\ worker.at \notin {"status", "volume", "status_samsung"}
    BY <1>4 DEF ReadVolMax, ReadSamsung, ReadConnected, At
  <2>2. PICK step : /\ worker' = [worker EXCEPT !.at = step]
                    /\ step = "click" => worker.dir # "END_LONG"
                    /\ UNCHANGED << chain, fetch >>
    BY <1>4 DEF ReadVolMax, ReadSamsung, ReadConnected, Goes, Goto, pages
  <2>3. worker \in Requests
    BY <2>1, Requested
  <2>4. /\ worker'.who = worker.who /\ worker'.dir = worker.dir /\ worker'.id = worker.id
        /\ worker'.at = step
    BY <2>2, <2>3 DEF Requests
  <2> QED
    BY <2>2, <2>3, <2>4 DEF WorkerOK
<1>5. ASSUME NEW c \in Clients, AcceptKey(c) PROVE WorkerOK'
  <2>1. /\ fetch[c] = "sent" /\ UNCHANGED << chain, fetch >>
        /\ worker' = [id |-> Head(chain[c]).id, dir |-> Head(chain[c]).dir, who |-> c, at |-> "vol_max"]
    BY <1>5 DEF AcceptKey, pages
  <2>2. Head(chain[c]) \in Keys
    BY <2>1, Chains, Dropped
  <2>3. Head(chain[c]) = Key(Head(chain[c]).dir, Head(chain[c]).id)
    BY <2>2 DEF Keys, Key
  <2> QED
    BY <2>1, <2>3 DEF WorkerOK
<1>8. ASSUME NEW k \in late, AcceptLate(k) PROVE WorkerOK'
  <2>1. worker'.who = Gone /\ worker'.at = "vol_max"
    BY <1>8 DEF AcceptLate
  <2> QED
    BY <2>1, ClientAssumption DEF WorkerOK
<1>6. ASSUME NEW c \in Clients, AcceptPoll(c) PROVE WorkerOK'
  <2>1. worker'.id = Nothing
    BY <1>6 DEF AcceptPoll
  <2>2. worker' \notin Requests
    BY <2>1 DEF Requests, Presses, Nothing
  <2> QED
    BY <2>2 DEF WorkerOK
<1>7. CASE \/ Connect \/ RemoteStart \/ RemoteSetVolumeLevel \/ Take \/ Deliver \/ Vanish \/ PutBack
           \/ SessionEnds \/ ChannelConnect \/ WsDisconnected \/ TvRangeChanges \/ LinkBreaks \/ WsBreaks
           \/ UNCHANGED vars
  <2>1. UNCHANGED << worker, chain, fetch >>
    BY <1>7 DEF Connect, RemoteStart, RemoteSetVolumeLevel, Take, Deliver, Vanish, PutBack, SessionEnds,
      ChannelConnect, WsDisconnected, TvRangeChanges, LinkBreaks, WsBreaks, vars, pages
  <2> QED
    BY <2>1 DEF WorkerOK
<1> QED
  BY <1>1, <1>2, <1>3, <1>4, <1>5, <1>6, <1>7, <1>8 DEF Next, Work

(***************************************************************************)
(* The theorems.                                                           *)
(***************************************************************************)
IInv == Types /\ WorkerOK /\ Core

LEMMA Begins == Init => IInv
<1> SUFFICES ASSUME Init PROVE IInv
  OBVIOUS
<1> DEFINE Tap == Key("SHORT", 1)
<1>0. Tap \in Keys /\ Tap.id = 1 /\ Tap # Nobody /\ 1 \in Presses
      /\ \A p \in Presses : Tap # Start(p) /\ Tap # End(p)
  BY BoundAssumption DEF Key, Keys, Dir, Nobody, Start, End, Presses
<1>1. << >> \in Seq(Keys) /\ Len(<< >>) = 0 /\ Cmds(<< >>) = {} /\ Ordered(<< >>, Timely)
  BY DEF Cmds, Ordered
<1>2. queue \in Seq(Keys) /\ Len(queue) <= 1 /\ Cmds(queue) \subseteq {Tap} /\ Ordered(queue, Timely)
  <2> HIDE DEF Tap
  <2>1. << Tap >> \in Seq(Keys) /\ Len(<< Tap >>) = 1 /\ Cmds(<< Tap >>) = {Tap}
    BY <1>0 DEF Cmds
  <2>2. \A i \in DOMAIN << Tap >> : << Tap >>[i] = Tap
    OBVIOUS
  <2>3. Timely \subseteq Presses
    BY DEF Timely
  <2>4. Ordered(<< Tap >>, Timely)
    BY <1>0, <2>2, <2>3 DEF Ordered
  <2>5. queue = << >> \/ queue = << Tap >>
    BY DEF Init, Tap
  <2>6. CASE queue = << >>
    BY <1>1, <2>6
  <2>7. CASE queue = << Tap >>
    BY <2>1, <2>4, <2>7
  <2> QED
    BY <2>5, <2>6, <2>7
<1> HIDE DEF Tap
<1>3. Types
  <2>1. TypesOfPages
    BY <1>1, BoundAssumption DEF Init, TypesOfPages, PageType, Up
  <2>2. TypesBehind /\ TypesOfWorker
    <3>1. queue \in Seq(Keys) /\ Len(queue) <= KeyCap
      BY <1>2, BoundAssumption
    <3>2. held \in 0 .. MaxPresses /\ over \subseteq Presses
      BY BoundAssumption DEF Init
    <3> QED
      BY <3>1, <3>2 DEF Init, TypesBehind, TypesOfWorker
  <2> QED
    BY <2>1, <2>2, TypesParts
<1>4. WorkerOK
  BY DEF Init, WorkerOK, Requests, Nobody
<1>5. /\ Far \subseteq {Nobody, Tap} /\ Slow = {} /\ late = {} /\ Timely = Presses
      /\ \A c \in Clients : Cmds(chain[c]) = {} /\ PressesOf(c) = {0} /\ page[c].id = 0
      /\ held = 0 /\ over = {} /\ presses = 1 /\ hand = Nobody
  BY <1>1, <1>2, NotARequest DEF Init, Far, Slow, Timely, PressesOf, Up
<1>6. \A p \in Presses : /\ ~Started(p) /\ ~Ended(p) /\ hand # End(p) /\ p # 0
                         /\ Start(p) \notin Far \cup Slow /\ held # p
  BY <1>0, <1>5, Different DEF Started, Ended, Presses
<1>7. Own /\ Fresh
  BY <1>0, <1>5 DEF Own, Fresh, Nobody
<1>8. PageOK /\ InOrder /\ EndsLast /\ HoldOK
  <2>1. InOrder
    BY <1>1, <1>2, <1>5 DEF Init, InOrder
  <2> QED
    BY <1>5, <1>6, <2>1 DEF PageOK, EndsLast, HoldOK
<1> QED
  BY <1>3, <1>4, <1>7, <1>8 DEF IInv, Core

LEMMA Invariant == Spec => []IInv
<1>1. IInv /\ [Next]_vars => IInv'
  BY TypesKept, WorkerKept, CoreKept DEF IInv
<1> QED
  BY <1>1, Begins, PTL DEF Spec

(* For all constants: every variable of the volume path keeps its type, and  *)
(* the key queue its bound.                                                  *)
THEOREM TypeCorrect == Spec => []TypeOK
<1>1. IInv => TypeOK
  BY DEF IInv, Types
<1> QED
  BY <1>1, Invariant, PTL

(* For all constants: a key the Chromecast takes to be held and no user      *)
(* holds is still to be released, or its release is accounted for.           *)
THEOREM StuckOnlyForCause == Spec => []StuckForCause
<1>1. IInv => StuckForCause
  <2> SUFFICES ASSUME IInv, held # 0
               PROVE  \/ \E c \in Clients : page[c].id = held
                      \/ EndUnderWay(held)
                      \/ held \in failed \cup vanished \cup rerouted \cup belated
    BY DEF StuckForCause
  <2> SUFFICES ASSUME held \notin belated
               PROVE  \/ \E c \in Clients : page[c].id = held
                      \/ EndUnderWay(held)
                      \/ held \in failed \cup vanished \cup rerouted
    OBVIOUS
  <2>1. held \in Timely /\ Started(held)
    BY DEF IInv, Types, TypeOK, Presses, Timely, Started
  <2>2. Excused(held) \/ \E c \in Clients : GoesOn(c, held)
    BY <2>1 DEF IInv, Core, HoldOK
  <2>3. CASE Excused(held)
    BY <2>3 DEF Excused, Far, Cmds, End, EndUnderWay
  <2>4. ASSUME NEW c \in Clients, GoesOn(c, held), page[c].id # held PROVE EndUnderWay(held)
    <3>1. End(held) \in Cmds(chain[c])
      BY <2>4, Chains, Dropped DEF IInv, GoesOn, Pending
    <3> QED
      BY <3>1 DEF Cmds, End, EndUnderWay
  <2> QED
    BY <2>2, <2>3, <2>4
<1> QED
  BY <1>1, Invariant, PTL

(* For all constants: the Chromecast is never told of the start of a hold    *)
(* after its end.                                                            *)
THEOREM ReleaseNeverOvertakes == Spec => NeverOvertaken
<1>1. IInv /\ IInv' /\ [Next]_vars => [\A p \in over \ belated : held # p => held' # p]_vars
  <2> SUFFICES ASSUME IInv, IInv', [Next]_vars, NEW p \in over \ belated, held # p PROVE held' # p
    OBVIOUS
  <2>1. over \subseteq over'
    BY DEF Next, vars, history, PageStep, PointerDown, HoldTimer, Release, SendKey, Answer, FetchFails, Poll,
      PollAnswered, AcceptKey, AcceptPoll, AcceptLate, Work, ReadStatus, Report, ReadVolMax, ReadSamsung, Goes, NoOp, Click,
      ClickFails, ReadConnected, NotConnected, RefuseKey, Enqueue, QueueFull, Connect, RemoteStart,
      RemoteSetVolumeLevel, Take, Deliver, Vanish, PutBack, SessionEnds, ChannelConnect, WsDisconnected,
      TvRangeChanges, LinkBreaks, WsBreaks, Restart
  <2>2. p \in Presses /\ p \in over'
    BY <2>1 DEF IInv, Types
  <2>3. CASE p \notin belated'
    BY <2>2, <2>3 DEF IInv, Core, EndsLast, Started, Timely
  <2>4. CASE p \in belated'
    <3>1. held' = held
      <4>1. \E k \in late : AcceptLate(k)
        BY <2>4 DEF Next, vars, history, PageStep, PointerDown, HoldTimer, Release, SendKey, Answer, FetchFails, Poll,
          PollAnswered, AcceptKey, AcceptPoll, Work, ReadStatus, Report, ReadVolMax, ReadSamsung, Goes, NoOp, Click,
          ClickFails, ReadConnected, NotConnected, RefuseKey, Enqueue, QueueFull, Connect, RemoteStart,
          RemoteSetVolumeLevel, Take, Deliver, Vanish, PutBack, SessionEnds, ChannelConnect, WsDisconnected,
          TvRangeChanges, LinkBreaks, WsBreaks, Restart
      <4> QED
        BY <4>1 DEF AcceptLate
    <3> QED
      BY <3>1
  <2> QED
    BY <2>3, <2>4
<1> QED
  BY <1>1, Invariant, PTL DEF Spec, NeverOvertaken
================================================================================
