----------------------------- MODULE PairingProofs -----------------------------
(***************************************************************************)
(* Proofs about Pairing, for any number of faults and mistakes: types,     *)
(* that the device only believes itself paired with a TV that trusts it,   *)
(* the refinement of PairingAgreement, and that "ok" goes to the request   *)
(* whose code paired.                                                      *)
(***************************************************************************)
EXTENDS Pairing, SequenceTheorems, TLAPS

\* Each step keeps every variable in its type.
LEMMA TypeStep ==
    ASSUME TypeOK, [Next]_vars
    PROVE  TypeOK'
<1> USE DEF TypeOK, shared, handler, network, screen, verdict, bounds
<1>1. CASE Boot
  BY <1>1 DEF Boot, PC, State
<1>2. CASE ConnectFail
  BY <1>2 DEF ConnectFail, State
<1>3. CASE ConnectOk
  BY <1>3 DEF ConnectOk, PC
<1>4. CASE SendRequest
  BY <1>4 DEF SendRequest, Send, PC, State, Request
<1>5. CASE OnRequestAck \/ OnOptions
  BY <1>5 DEF OnRequestAck, OnOptions, Receive, Send, PC, Request
<1>6. CASE OnConfigurationAck
  BY <1>6 DEF OnConfigurationAck, Receive, PC, State
<1>7. CASE OnSecretAck \/ OnOther \/ OnError
  BY <1>7 DEF OnSecretAck, OnOther, OnError, Receive, PC
<1>8. CASE ReceiveFails
  BY <1>8 DEF ReceiveFails, PC
<1>9. CASE TakeCode
  BY <1>9 DEF TakeCode, PC, State
<1>10. CASE RejectCode
  BY <1>10 DEF RejectCode, PC, Code
<1>11. CASE SendSecret
  BY <1>11 DEF SendSecret, Send, PC, Request
<1>12. CASE StorePaired
  BY <1>12 DEF StorePaired, PC
<1>13. CASE PublishPaired
  BY <1>13 DEF PublishPaired, PC, State
<1>14. CASE AnnounceOk
  BY <1>14 DEF AnnounceOk, PC
<1>15. CASE AnnounceFail
  BY <1>15 DEF AnnounceFail, PC, State
<1>16. CASE ControlLoop
  BY <1>16 DEF ControlLoop, State
<1>17. CASE ClearBits
  BY <1>17 DEF ClearBits
<1>18. CASE SubmitCode
  BY <1>18 DEF SubmitCode
<1>19. CASE Reply
  <2>1. told' \in Seq({"ok", "failed", "none"})
    BY <1>19, AppendProperties DEF Reply
  <2> QED
    BY <1>19, <2>1 DEF Reply
<1>20. CASE ReplyTimeout
  BY <1>20 DEF ReplyTimeout
<1>21. ASSUME NEW right \in BOOLEAN, PostCode(right) PROVE TypeOK'
  BY <1>21 DEF PostCode, Code
<1>22. CASE TvAnswers
  BY <1>22 DEF TvAnswers, Message, Request, Code
<1>23. CASE ReceiveTimeout
  BY <1>23 DEF ReceiveTimeout, Fault, PC
<1>24. CASE CodeTimeout
  BY <1>24 DEF CodeTimeout, Fault, PC
<1>25. CASE BreakLink
  BY <1>25 DEF BreakLink, Fault
<1>26. CASE Restart
  <2>1. code' \in Code /\ wcode' \in Code /\ codeQ' \in Seq(Code)
    BY <1>26 DEF Restart, NoCode, Code
  <2>2. told' \in Seq({"ok", "failed", "none"})
    BY <1>26, AppendProperties DEF Restart
  <2>3. faults' \in Nat /\ mistakes' \in Nat /\ Len(codeQ') <= 1
    BY <1>26 DEF Restart, Fault
  <2> QED
    BY <1>26, <2>1, <2>2, <2>3 DEF Restart, PC, State
<1>27. ASSUME NEW m \in {"error", "other"}, TvInterjects(m) PROVE TypeOK'
  BY <1>27 DEF TvInterjects, Fault, Message
<1>28. CASE UNCHANGED vars
  BY <1>28 DEF vars
<1> QED
  BY <1>1, <1>2, <1>3, <1>4, <1>5, <1>6, <1>7, <1>8, <1>9, <1>10, <1>11,
     <1>12, <1>13, <1>14, <1>15, <1>16, <1>17, <1>18, <1>19, <1>20, <1>21,
     <1>22, <1>23, <1>24, <1>25, <1>26, <1>27, <1>28
  DEF Next, TvSession, Exchange, HttpWorker, Faulty

-----------------------------------------------------------------------------
(* Who committed when.                                                     *)

Confirmed == \E r \in 1 .. Len(told) : told[r] = "ok"

\* Each later party has the earlier ones behind it: the message that ends the
\* exchange and the steps of the task that follow it come after the TV's
\* trust, and the bit and the answer after the write to flash.
TrustInv == /\ nvs => trusts
            /\ inbox = "secret_ack" \/ pc = "done" => trusts
            /\ pc \in {"stored", "announce", "control"} => nvs
            /\ paired => nvs
            /\ okBit => nvs
            /\ Confirmed => nvs

\* An answer other than "ok" confirms nothing new.
LEMMA ConfirmedAppend ==
    ASSUME TypeOK, NEW a \in {"ok", "failed", "none"}
    PROVE  (\E r \in 1 .. Len(Append(told, a)) : Append(told, a)[r] = "ok")
               <=> Confirmed \/ a = "ok"
<1>1. told \in Seq({"ok", "failed", "none"})
  BY DEF TypeOK
<1>2. /\ Len(Append(told, a)) = Len(told) + 1 /\ Len(told) \in Nat
      /\ \A r \in 1 .. Len(told) : Append(told, a)[r] = told[r]
      /\ Append(told, a)[Len(told) + 1] = a
  BY <1>1, AppendProperties
<1>3. 1 .. Len(told) + 1 = (1 .. Len(told)) \cup {Len(told) + 1}
  BY <1>2
<1> QED
  BY <1>2, <1>3 DEF Confirmed

\* Each step keeps the parties in order.
LEMMA TrustStep ==
    ASSUME TypeOK, TrustInv, [Next]_vars
    PROVE  TrustInv'
<1> USE DEF TrustInv, shared, handler, network, screen, verdict, bounds
<1>q. told' = told => Confirmed' = Confirmed
  BY DEF Confirmed
<1>1. CASE Boot
  BY <1>1, <1>q DEF Boot
<1>2. CASE ConnectFail \/ ConnectOk
  BY <1>2, <1>q DEF ConnectFail, ConnectOk
<1>3. CASE SendRequest
  BY <1>3, <1>q DEF SendRequest, Send
<1>4. CASE OnRequestAck \/ OnOptions
  BY <1>4, <1>q DEF OnRequestAck, OnOptions, Receive, Send
<1>5. CASE OnConfigurationAck
  BY <1>5, <1>q DEF OnConfigurationAck, Receive
<1>6. CASE OnSecretAck \/ OnOther \/ OnError
  BY <1>6, <1>q DEF OnSecretAck, OnOther, OnError, Receive
<1>7. CASE ReceiveFails \/ ReceiveTimeout \/ CodeTimeout
  BY <1>7, <1>q DEF ReceiveFails, ReceiveTimeout, CodeTimeout
<1>8. CASE TakeCode \/ RejectCode
  BY <1>8, <1>q DEF TakeCode, RejectCode
<1>9. CASE SendSecret
  BY <1>9, <1>q DEF SendSecret, Send
<1>10. CASE StorePaired
  BY <1>10, <1>q DEF StorePaired
<1>11. CASE PublishPaired
  BY <1>11, <1>q DEF PublishPaired
<1>12. CASE AnnounceOk
  BY <1>12, <1>q DEF AnnounceOk
<1>13. CASE AnnounceFail
  BY <1>13, <1>q DEF AnnounceFail
<1>14. CASE ControlLoop
  BY <1>14, <1>q DEF ControlLoop
<1>15. CASE ClearBits \/ SubmitCode
  BY <1>15, <1>q DEF ClearBits, SubmitCode
<1>16. CASE Reply
  <2>1. Confirmed' => Confirmed \/ okBit
    BY <1>16, ConfirmedAppend DEF Reply, Confirmed
  <2> QED
    BY <1>16, <2>1 DEF Reply
<1>17. CASE ReplyTimeout
  <2>1. Confirmed' => Confirmed
    BY <1>17, ConfirmedAppend DEF ReplyTimeout, Confirmed
  <2> QED
    BY <1>17, <2>1 DEF ReplyTimeout
<1>18. ASSUME NEW right \in BOOLEAN, PostCode(right) PROVE TrustInv'
  BY <1>18, <1>q DEF PostCode
<1>19. CASE TvAnswers
  <2>1. inbox' = "secret_ack" => tv = "good_secret"
    BY <1>19 DEF TvAnswers, TypeOK, Request
  <2>2. trusts' <=> trusts \/ tv = "good_secret"
    BY <1>19 DEF TvAnswers
  <2>3. UNCHANGED <<nvs, pc, paired, okBit, told>>
    BY <1>19 DEF TvAnswers
  <2> QED
    BY <2>1, <2>2, <2>3, <1>q
<1>20. CASE BreakLink
  BY <1>20, <1>q DEF BreakLink
<1>21. CASE Restart
  <2>1. Confirmed' => Confirmed
    BY <1>21, ConfirmedAppend DEF Restart, Confirmed
  <2> QED
    BY <1>21, <2>1 DEF Restart
<1>22. ASSUME NEW m \in {"error", "other"}, TvInterjects(m) PROVE TrustInv'
  BY <1>22, <1>q DEF TvInterjects
<1>23. CASE UNCHANGED vars
  BY <1>23, <1>q DEF vars
<1> QED
  BY <1>1, <1>2, <1>3, <1>4, <1>5, <1>6, <1>7, <1>8, <1>9, <1>10, <1>11,
     <1>12, <1>13, <1>14, <1>15, <1>16, <1>17, <1>18, <1>19, <1>20, <1>21,
     <1>22, <1>23
  DEF Next, TvSession, Exchange, HttpWorker, Faulty

-----------------------------------------------------------------------------
(* The theorems.                                                           *)

\* Types and the order of the parties are invariant.
THEOREM Invariance == Spec => [](TypeOK /\ TrustInv)
<1>1. Init => TypeOK /\ TrustInv
  <2> SUFFICES ASSUME Init PROVE TypeOK /\ TrustInv
    OBVIOUS
  <2>1. NoCode \in Code
    BY DEF NoCode, Code
  <2>2. codeQ \in Seq(Code) /\ Len(codeQ) <= 1 /\ Len(told) = 0
    BY DEF Init
  <2>3. TypeOK
    <3>1. exch \in Nat /\ accepted \in Nat /\ faults \in Nat /\ mistakes \in Nat
      BY DEF Init
    <3>2. told \in Seq({"ok", "failed", "none"}) /\ rejected \in SUBSET Nat
      BY DEF Init
    <3> QED
      BY <2>1, <2>2, <3>1, <3>2 DEF Init, TypeOK, PC, State
  <2>4. TrustInv
    BY <2>2 DEF Init, TrustInv, Confirmed
  <2> QED
    BY <2>3, <2>4
<1>2. TypeOK /\ TrustInv /\ [Next]_vars => (TypeOK /\ TrustInv)'
  BY TypeStep, TrustStep
<1> QED
  BY <1>1, <1>2, PTL DEF Spec

\* The type invariant.
THEOREM TypeCorrect == Spec => []TypeOK
  BY Invariance, PTL

\* The device only believes itself paired with a TV that trusts it.
THEOREM Trusted == Spec => []PairedMeansTrusted
<1>1. TrustInv => PairedMeansTrusted
  BY DEF TrustInv, PairedMeansTrusted
<1> QED
  BY <1>1, Invariance, PTL

\* Each step is a step of the agreement or leaves the three parties as they
\* are.
LEMMA AgreementStep ==
    ASSUME TypeOK, TrustInv, [Next]_vars
    PROVE  [Agreement!Next]_(Agreement!vars)
<1> USE DEF shared, handler, network, screen, verdict, bounds
<1>1. CASE StorePaired
  BY <1>1 DEF StorePaired, TrustInv, Agreement!Next, Agreement!Record
<1>2. CASE TvAnswers
  <2>1. UNCHANGED <<nvs, told>>
    BY <1>2 DEF TvAnswers
  <2>2. trusts' = TRUE \/ trusts' = trusts
    <3>1. trusts' = (trusts \/ tv = "good_secret")
      BY <1>2 DEF TvAnswers
    <3> QED
      BY <3>1 DEF TypeOK
  <2> QED
    BY <2>1, <2>2 DEF Agreement!Next, Agreement!Accept, Agreement!vars
<1>3. ASSUME NEW a \in {"ok", "failed", "none"}, told' = Append(told, a),
             UNCHANGED <<nvs, trusts>>, a = "ok" => nvs
      PROVE  [Agreement!Next]_(Agreement!vars)
  <2>1. Confirmed' <=> Confirmed \/ a = "ok"
    BY <1>3, ConfirmedAppend DEF Confirmed
  <2> QED
    BY <1>3, <2>1
    DEF Confirmed, Agreement!Next, Agreement!Confirm, Agreement!vars
<1>4. CASE Reply
  BY <1>3, <1>4 DEF Reply, TrustInv
<1>5. CASE ReplyTimeout
  BY <1>3, <1>5 DEF ReplyTimeout
<1>6. CASE Restart
  BY <1>3, <1>6 DEF Restart, Agreement!vars
<1>7. CASE UNCHANGED <<nvs, trusts, told>>
  BY <1>7 DEF Agreement!vars
<1>8. UNCHANGED <<nvs, trusts, told>> \/ StorePaired \/ TvAnswers \/ Reply
          \/ ReplyTimeout \/ Restart
  BY DEF Next, TvSession, Exchange, HttpWorker, Faulty, vars, Boot,
         ConnectFail, ConnectOk, SendRequest, OnRequestAck, OnOptions,
         OnConfigurationAck, OnSecretAck, OnOther, OnError, ReceiveFails,
         TakeCode, RejectCode, SendSecret, PublishPaired, AnnounceOk,
         AnnounceFail, ControlLoop, ClearBits, SubmitCode, PostCode,
         ReceiveTimeout, CodeTimeout, BreakLink, TvInterjects
<1> QED
  BY <1>1, <1>2, <1>4, <1>5, <1>6, <1>7, <1>8

\* TV, flash and user commit in order and for good, whatever fails.
THEOREM Implementation == Spec => KeepsAgreement
<1>1. Init => Agreement!Init
  BY DEF Init, Agreement!Init
<1>2. TypeOK /\ TrustInv /\ [Next]_vars
          => [Agreement!Next]_(Agreement!vars)
  BY AgreementStep
<1> QED
  BY <1>1, <1>2, Invariance, PTL DEF Spec, KeepsAgreement, Agreement!Spec

-----------------------------------------------------------------------------
(* Whose code paired.                                                      *)

Answer == Message \ {"error", "other"}

\* A message waits at one side of the connection only, and at neither while
\* the task is busy with something else.
TurnInv == /\ inbox \in Answer => tv = "quiet"
           /\ pc \in {"hello", "wait_code", "compute"} => tv = "quiet" /\ inbox \notin Answer
           /\ state = "wait_code" =>
                  pc \in {"wait_code", "failed"} /\ tv = "quiet" /\ inbox \notin Answer
           /\ nvs => pc \in {"boot", "stored", "announce", "control"}
           /\ pc \in {"boot", "stored", "announce", "control"} => link = "none"

\* No code is of a screen yet to come, and when a new screen is up there is
\* none of it yet.
ScreenInv == /\ codeQ # <<>> => Head(codeQ).exch <= exch
             /\ wcode.exch <= exch
             /\ inbox = "configuration_ack" =>
                    wcode.exch < exch /\ (codeQ # <<>> => Head(codeQ).exch < exch)

\* While the task waits for a code, the code of the present screen can only
\* have come with the request that is being handled, and no bit answers it.
WaitInv == pc = "wait_code" =>
             /\ worker = "cleared" /\ wcode.exch = exch => ~okBit /\ ~failBit
             /\ codeQ # <<>> /\ Head(codeQ).exch = exch =>
                    worker = "waiting" /\ Head(codeQ) = wcode /\ ~okBit /\ ~failBit

\* The handler, if it still waits, waits for the code the task has taken.
Mine == worker = "idle" \/ (worker = "waiting" /\ wcode = code)

\* From the moment the task has taken a right code to the bit for "ok".
CodeInv == /\ pc = "compute" /\ code.exch = exch => Mine
           /\ pc = "recv" /\ (tv = "good_secret" \/ inbox = "secret_ack") => Mine
           /\ pc \in {"done", "stored", "announce"} => Mine
           /\ inbox = "secret_ack" \/ pc \in {"done", "stored", "announce"} => accepted = code.req
           /\ okBit => /\ pc = "control" /\ worker \in {"idle", "waiting"}
                       /\ worker = "waiting" => accepted = wcode.req

ToldInv == /\ worker # "idle" => wcode.req = Len(told) + 1
           /\ OkMeansThisCode

CoreInv == TurnInv /\ ScreenInv /\ WaitInv /\ CodeInv /\ ToldInv

\* A step that has no part in an answer, or adds one other than "ok".
LEMMA ToldKept ==
    ASSUME TypeOK, ToldInv, accepted' = accepted, NEW a \in {"ok", "failed", "none"},
           told' = told \/ (told' = Append(told, a) /\ (a = "ok" => accepted = Len(told) + 1))
    PROVE  OkMeansThisCode'
<1>1. CASE told' = told
  BY <1>1 DEF ToldInv, OkMeansThisCode
<1>2. CASE told' = Append(told, a) /\ (a = "ok" => accepted = Len(told) + 1)
  <2>1. told \in Seq({"ok", "failed", "none"})
    BY DEF TypeOK
  <2>2. /\ Len(Append(told, a)) = Len(told) + 1 /\ Len(told) \in Nat
        /\ \A r \in 1 .. Len(told) : Append(told, a)[r] = told[r]
        /\ Append(told, a)[Len(told) + 1] = a
    BY <2>1, AppendProperties
  <2>3. 1 .. Len(told) + 1 = (1 .. Len(told)) \cup {Len(told) + 1}
    BY <2>2
  <2> QED
    BY <1>2, <2>2, <2>3 DEF ToldInv, OkMeansThisCode
<1> QED
  BY <1>1, <1>2

\* Each step keeps codes, screens, bits and answers together.
LEMMA CoreStep ==
    ASSUME TypeOK, TrustInv, CoreInv, [Next]_vars
    PROVE  CoreInv'
<1> USE DEF CoreInv, TurnInv, ScreenInv, WaitInv, CodeInv, ToldInv, Mine, Answer,
            shared, handler, network, screen, verdict, bounds
<1>q. told' = told /\ accepted' = accepted => OkMeansThisCode'
  BY ToldKept
<1>t. /\ exch \in Nat /\ wcode.exch \in Int /\ wcode.req \in Nat
      /\ codeQ # <<>> => Head(codeQ).exch \in Int
  <2>1. codeQ # <<>> => Head(codeQ) \in Code
    BY DEF TypeOK
  <2> QED
    BY <2>1 DEF TypeOK, Code
<1>1. CASE Boot
  BY <1>1, <1>q, <1>t DEF Boot
<1>2. CASE ConnectFail
  BY <1>2, <1>q, <1>t DEF ConnectFail
<1>3. CASE ConnectOk
  BY <1>3, <1>q, <1>t DEF ConnectOk, Message
<1>4. CASE SendRequest
  BY <1>4, <1>q, <1>t DEF SendRequest, Send, Message
<1>5. CASE OnRequestAck \/ OnOptions
  BY <1>5, <1>q, <1>t DEF OnRequestAck, OnOptions, Receive, Send, Message
<1>6. CASE OnConfigurationAck
  BY <1>6, <1>q, <1>t DEF OnConfigurationAck, Receive, Message
<1>7. CASE OnSecretAck
  BY <1>7, <1>q, <1>t DEF OnSecretAck, Receive, Message
<1>8. CASE OnOther \/ OnError
  BY <1>8, <1>q, <1>t DEF OnOther, OnError, Receive, Message
<1>9. CASE ReceiveFails \/ ReceiveTimeout \/ CodeTimeout
  BY <1>9, <1>q, <1>t DEF ReceiveFails, ReceiveTimeout, CodeTimeout
<1>10. CASE TakeCode
  BY <1>10, <1>q, <1>t DEF TakeCode, Message
<1>11. CASE RejectCode
  BY <1>11, <1>q, <1>t DEF RejectCode
<1>12. CASE SendSecret
  BY <1>12, <1>q, <1>t DEF SendSecret, Send, Message
<1>13. CASE StorePaired
  BY <1>13, <1>q, <1>t DEF StorePaired, Message
<1>14. CASE PublishPaired
  BY <1>14, <1>q, <1>t DEF PublishPaired
<1>15. CASE AnnounceOk
  BY <1>15, <1>q, <1>t DEF AnnounceOk
<1>16. CASE AnnounceFail
  BY <1>16, <1>q, <1>t DEF AnnounceFail, Message
<1>17. CASE ControlLoop
  BY <1>17, <1>q, <1>t DEF ControlLoop
<1>18. CASE ClearBits
  BY <1>18, <1>q, <1>t DEF ClearBits
<1>19. CASE SubmitCode
  BY <1>19, <1>q, <1>t DEF SubmitCode
<1>20. CASE Reply
  <2>1. okBit => accepted = Len(told) + 1
    BY <1>20 DEF Reply
  <2>2. OkMeansThisCode'
    BY <1>20, <2>1, ToldKept DEF Reply
  <2> QED
    BY <1>20, <1>t, <2>2 DEF Reply
<1>21. CASE ReplyTimeout
  <2>1. OkMeansThisCode'
    BY <1>21, ToldKept DEF ReplyTimeout
  <2> QED
    BY <1>21, <1>t, <2>1 DEF ReplyTimeout
<1>22. ASSUME NEW right \in BOOLEAN, PostCode(right) PROVE CoreInv'
  BY <1>22, <1>q, <1>t DEF PostCode, Message
<1>23. CASE TvAnswers
  <2>1. /\ link = "up" /\ inbox = "none" /\ tv # "quiet" /\ tv' = "quiet"
        /\ UNCHANGED <<shared, nvs, pc, code, handler, link, told>>
    BY <1>23 DEF TvAnswers
  <2>2. /\ inbox' = "configuration_ack" <=> tv = "configuration"
        /\ inbox' = "secret_ack" <=> tv = "good_secret"
    BY <1>23 DEF TvAnswers, TypeOK, Request
  <2>3. /\ exch' = IF tv = "configuration" THEN exch + 1 ELSE exch
        /\ accepted' = IF tv = "good_secret" THEN code.req ELSE accepted
    BY <1>23 DEF TvAnswers
  <2>4. ~nvs /\ ~Confirmed
    BY <2>1 DEF TrustInv
  <2>5. OkMeansThisCode'
    BY <2>1, <2>4 DEF Confirmed, OkMeansThisCode
  <2>6. pc \notin {"hello", "wait_code", "compute", "boot", "stored", "announce", "control"}
    BY <2>1
  <2>7. TurnInv' /\ WaitInv'
    BY <2>1, <2>4, <2>6
  <2>8. ScreenInv'
    BY <1>t, <2>1, <2>2, <2>3
  <2>9. CodeInv'
    BY <2>1, <2>2, <2>3, <2>6
  <2> QED
    BY <2>1, <2>5, <2>7, <2>8, <2>9
<1>24. CASE BreakLink
  BY <1>24, <1>q, <1>t DEF BreakLink
<1>25. CASE Restart
  <2>1. OkMeansThisCode'
    BY <1>25, ToldKept DEF Restart
  <2> QED
    BY <1>25, <1>t, <2>1 DEF Restart, NoCode, Message
<1>26. ASSUME NEW m \in {"error", "other"}, TvInterjects(m) PROVE CoreInv'
  BY <1>26, <1>q, <1>t DEF TvInterjects
<1>27. CASE UNCHANGED vars
  BY <1>27, <1>q, <1>t DEF vars
<1> QED
  BY <1>1, <1>2, <1>3, <1>4, <1>5, <1>6, <1>7, <1>8, <1>9, <1>10, <1>11,
     <1>12, <1>13, <1>14, <1>15, <1>16, <1>17, <1>18, <1>19, <1>20, <1>21,
     <1>22, <1>23, <1>24, <1>25, <1>26, <1>27
  DEF Next, TvSession, Exchange, HttpWorker, Faulty

\* {"ok":true} answers the very request whose code the TV accepted.
THEOREM OkForItsCode == Spec => []OkMeansThisCode
<1>1. Init => CoreInv
  BY DEF Init, NoCode, CoreInv, TurnInv, ScreenInv, WaitInv, CodeInv, ToldInv, Answer,
         Message, OkMeansThisCode
<1>2. TypeOK /\ TrustInv /\ CoreInv /\ [Next]_vars => CoreInv'
  BY CoreStep
<1>3. CoreInv => OkMeansThisCode
  BY DEF CoreInv, ToldInv
<1> QED
  BY <1>1, <1>2, <1>3, Invariance, PTL DEF Spec
=============================================================================
