-------------------------------- MODULE Pairing --------------------------------
(***************************************************************************)
(* Pairing: boot (app_main) and the pairing loop of tv_session_task        *)
(* (main.c), the exchange it runs with the TV (pairing.c), and the request *)
(* that brings the code the user typed, POST /api/pair (webserver.c).      *)
(*                                                                         *)
(* The two tasks meet in g_atv_status.state, in the queue of one code      *)
(* g_pair_code_queue and in the result bits g_pair_events; flash (NVS)     *)
(* keeps one flag over restarts.                                           *)
(*                                                                         *)
(* Exchanges are numbered by the code screens the TV puts up, and requests *)
(* in the order in which they pass the handler's test of the state.  A     *)
(* code is the request that brought it and the exchange it was read from,  *)
(* 0 if it was mistyped.                                                   *)
(*                                                                         *)
(* The TV answers each message of the device once and in order; apart from *)
(* that it may report an error, fall silent, or lose the connection.  All  *)
(* this, a user who lets the code screen expire and a restart of the       *)
(* device count as faults.                                                 *)
(***************************************************************************)
EXTENDS Integers, Sequences, FiniteSets

CONSTANTS MaxFaults,    \* bound: faults of every kind
          MaxMistakes   \* bound: mistyped codes

ASSUME BoundAssumption == MaxFaults \in Nat /\ MaxMistakes \in Nat

VARIABLES
    paired, state,   \* fields of g_atv_status
    nvs,             \* the paired flag in flash
    codeQ,           \* g_pair_code_queue
    okBit, failBit,  \* g_pair_events
    pc,              \* where tv_session_task is
    code,            \* the code pairing_run took last
    worker,          \* where the pair handler of the HTTP worker is
    wcode,           \* the code of the request it handles
    link,            \* the TLS connection: "none", "up" or "broken"
    inbox,           \* the message from the TV not yet read, or "none"
    tv,              \* the message the TV has yet to answer, or "quiet"
    exch,            \* the exchange whose code the TV showed last
    trusts,          \* the TV accepted the device's certificate
    accepted,        \* history: the request whose code the TV accepted, or 0
    rejected,        \* history: requests whose code was found wrong
    told,            \* history: told[r] is the answer to request r
    faults, mistakes \* bounded counters

shared  == <<paired, state, codeQ, okBit, failBit>>
handler == <<worker, wcode>>
network == <<link, inbox, tv>>
screen  == <<exch, trusts>>
verdict == <<accepted, rejected>>
bounds  == <<faults, mistakes>>
vars == <<shared, nvs, pc, code, handler, network, screen, verdict, told,
          bounds>>

PC == {"boot", "connect", "hello", "recv", "wait_code", "compute", "done",
       "stored", "announce", "failed", "control"}
State == {"boot", "pairing", "wait_code", "pair_failed", "paired", "connected"}
Request == {"request", "options", "configuration", "good_secret", "bad_secret"}
Message == {"request_ack", "options", "configuration_ack", "secret_ack",
            "error", "other"}
Code == [req : Nat, exch : Nat]
NoCode == [req |-> 0, exch |-> 0]

Init ==
    /\ paired = FALSE /\ state = "boot" /\ nvs = FALSE
    /\ codeQ = <<>> /\ okBit = FALSE /\ failBit = FALSE
    /\ pc = "boot" /\ code = NoCode
    /\ worker = "idle" /\ wcode = NoCode
    /\ link = "none" /\ inbox = "none" /\ tv = "quiet"
    /\ exch = 0 /\ trusts = FALSE
    /\ accepted = 0 /\ rejected = {} /\ told = <<>>
    /\ faults = 0 /\ mistakes = 0

Fault == faults < MaxFaults /\ faults' = faults + 1 /\ UNCHANGED mistakes

-----------------------------------------------------------------------------
(* Boot and the pairing loop of tv_session_task.                           *)

\* app_main: the flag is read from flash; a paired device skips the loop.
Boot ==
    /\ pc = "boot"
    /\ paired' = nvs
    /\ IF nvs THEN pc' = "control" /\ state' = "paired"
              ELSE pc' = "connect" /\ UNCHANGED state
    /\ UNCHANGED <<nvs, codeQ, okBit, failBit, code, handler, network, screen,
                   verdict, told, bounds>>

ConnectFail ==
    /\ pc = "connect"
    /\ state' = "pair_failed"
    /\ UNCHANGED <<paired, codeQ, okBit, failBit, nvs, pc, code, handler,
                   network, screen, verdict, told, bounds>>

ConnectOk ==
    /\ pc = "connect"
    /\ link' = "up" /\ inbox' = "none" /\ tv' = "quiet"
    /\ pc' = "hello"
    /\ UNCHANGED <<shared, nvs, code, handler, screen, verdict, told, bounds>>

\* Variants marked "Mutant" are plausible mistakes; a check shows that each
\* breaks a property.  Mutant: paired, but the flag never gets to flash.
ForgetPaired ==
    /\ pc = "done"
    /\ link' = "none" /\ inbox' = "none"
    /\ pc' = "stored"
    /\ UNCHANGED <<shared, nvs, code, handler, tv, screen, verdict, told,
                   bounds>>

\* store_set_paired: the flag is in flash once nvs_commit returns.
StorePaired ==
    /\ pc = "done"
    /\ link' = "none" /\ inbox' = "none"
    /\ nvs' = TRUE
    /\ pc' = "stored"
    /\ UNCHANGED <<shared, code, handler, tv, screen, verdict, told, bounds>>

PublishPaired ==
    /\ pc = "stored"
    /\ paired' = TRUE /\ state' = "paired"
    /\ pc' = "announce"
    /\ UNCHANGED <<nvs, codeQ, okBit, failBit, code, handler, network, screen,
                   verdict, told, bounds>>

AnnounceOk ==
    /\ pc = "announce"
    /\ okBit' = TRUE
    /\ pc' = "control"
    /\ UNCHANGED <<paired, state, codeQ, failBit, nvs, code, handler, network,
                   screen, verdict, told, bounds>>

\* Mutant: pairing is tried only once (if instead of while).
AnnounceFailOnce ==
    /\ pc = "failed"
    /\ link' = "none" /\ inbox' = "none"
    /\ state' = "pair_failed" /\ failBit' = TRUE
    /\ pc' = "control"
    /\ UNCHANGED <<paired, codeQ, okBit, nvs, code, handler, tv, screen,
                   verdict, told, bounds>>

\* pairing_run failed: close, publish, announce, try again after a while.
AnnounceFail ==
    /\ pc = "failed"
    /\ link' = "none" /\ inbox' = "none"
    /\ state' = "pair_failed" /\ failBit' = TRUE
    /\ pc' = "connect"
    /\ UNCHANGED <<paired, codeQ, okBit, nvs, code, handler, tv, screen,
                   verdict, told, bounds>>

\* The control loop (module ControlChannel) owns the state from here on.
ControlLoop ==
    /\ pc = "control"
    /\ state' \in {"paired", "connected"}
    /\ UNCHANGED <<paired, codeQ, okBit, failBit, nvs, pc, code, handler,
                   network, screen, verdict, told, bounds>>

-----------------------------------------------------------------------------
(* pairing_run.                                                            *)

\* On a broken link a write fails, or succeeds and goes nowhere.
Send(m) ==
    \/ link = "up" /\ tv' = m /\ pc' = "recv"
    \/ link = "broken" /\ pc' \in {"recv", "failed"} /\ UNCHANGED tv

SendRequest ==
    /\ pc = "hello"
    /\ state' = "pairing"
    /\ Send("request")
    /\ UNCHANGED <<paired, codeQ, okBit, failBit, nvs, code, handler, link,
                   inbox, screen, verdict, told, bounds>>

Receive(m) == pc = "recv" /\ inbox = m /\ inbox' = "none"

\* Each step of the exchange is driven by the message alone.
OnRequestAck ==
    /\ Receive("request_ack")
    /\ Send("options")
    /\ UNCHANGED <<shared, nvs, code, handler, link, screen, verdict, told,
                   bounds>>

OnOptions ==
    /\ Receive("options")
    /\ Send("configuration")
    /\ UNCHANGED <<shared, nvs, code, handler, link, screen, verdict, told,
                   bounds>>

OnConfigurationAck ==
    /\ Receive("configuration_ack")
    /\ state' = "wait_code"
    /\ pc' = "wait_code"
    /\ UNCHANGED <<paired, codeQ, okBit, failBit, nvs, code, handler, link, tv,
                   screen, verdict, told, bounds>>

OnSecretAck ==
    /\ Receive("secret_ack")
    /\ pc' = "done"
    /\ UNCHANGED <<shared, nvs, code, handler, link, tv, screen, verdict, told,
                   bounds>>

OnOther ==
    /\ Receive("other")
    /\ UNCHANGED <<shared, nvs, pc, code, handler, link, tv, screen, verdict,
                   told, bounds>>

\* A status other than OK, for instance 402 for a bad secret.
OnError ==
    /\ Receive("error")
    /\ pc' = "failed"
    /\ UNCHANGED <<shared, nvs, code, handler, link, tv, screen, verdict, told,
                   bounds>>

\* The connection is gone, or nothing came for 30 s.
ReceiveFails ==
    /\ pc = "recv" /\ link = "broken"
    /\ pc' = "failed"
    /\ UNCHANGED <<shared, nvs, code, handler, network, screen, verdict, told,
                   bounds>>

ReceiveTimeout ==
    /\ pc = "recv" /\ inbox = "none"
    /\ Fault
    /\ pc' = "failed"
    /\ UNCHANGED <<shared, nvs, code, handler, network, screen, verdict, told>>

\* code_from_web: whatever is in the queue is taken, at once.
TakeCode ==
    /\ pc = "wait_code" /\ codeQ # <<>>
    /\ code' = Head(codeQ) /\ codeQ' = <<>>
    /\ state' = "pairing"
    /\ pc' = "compute"
    /\ UNCHANGED <<paired, okBit, failBit, nvs, handler, network, screen,
                   verdict, told, bounds>>

CodeTimeout ==
    /\ pc = "wait_code" /\ codeQ = <<>>
    /\ Fault
    /\ pc' = "failed"
    /\ UNCHANGED <<shared, nvs, code, handler, network, screen, verdict, told>>

\* The first byte of the hash is a check on the code ...
RejectCode ==
    /\ pc = "compute" /\ code.exch # exch
    /\ rejected' = rejected \cup {code.req}
    /\ pc' = "failed"
    /\ UNCHANGED <<shared, nvs, code, handler, network, screen, accepted, told,
                   bounds>>

\* Mutant: the secret is sent and taken for accepted.
SendSecretDone ==
    /\ pc = "compute"
    /\ pc' = "done"
    /\ tv' = IF code.exch = exch THEN "good_secret" ELSE "bad_secret"
    /\ UNCHANGED <<shared, nvs, code, handler, link, inbox, screen, verdict,
                   told, bounds>>

\* ... that a wrong code may pass.
SendSecret ==
    /\ pc = "compute"
    /\ Send(IF code.exch = exch THEN "good_secret" ELSE "bad_secret")
    /\ UNCHANGED <<shared, nvs, code, handler, link, inbox, screen, verdict,
                   told, bounds>>

-----------------------------------------------------------------------------
(* POST /api/pair.  A body without a six-digit code, or a state other than *)
(* wait_code, is an error reply that changes nothing.                      *)

\* Mutant: a code is also let in while an older one is being tried.
PostCodeEarly(right) ==
    /\ worker = "idle" /\ state \in {"wait_code", "pairing"}
    /\ wcode' = [req |-> Len(told) + 1, exch |-> IF right THEN exch ELSE 0]
    /\ worker' = "checked"
    /\ right \/ mistakes < MaxMistakes
    /\ codeQ = <<>> \/ faults < MaxFaults
    /\ mistakes' = IF right THEN mistakes ELSE mistakes + 1
    /\ faults' = IF codeQ = <<>> THEN faults ELSE faults + 1
    /\ UNCHANGED <<shared, nvs, pc, code, network, screen, verdict, told>>

\* The user typed the code on the screen, or mistyped it; the handler finds
\* the device waiting for one.  An old code may still be in the queue, about
\* to be taken; that the request meets this very moment counts as a fault.
PostCode(right) ==
    /\ worker = "idle" /\ state = "wait_code"
    /\ wcode' = [req |-> Len(told) + 1, exch |-> IF right THEN exch ELSE 0]
    /\ worker' = "checked"
    /\ right \/ mistakes < MaxMistakes
    /\ codeQ = <<>> \/ faults < MaxFaults
    /\ mistakes' = IF right THEN mistakes ELSE mistakes + 1
    /\ faults' = IF codeQ = <<>> THEN faults ELSE faults + 1
    /\ UNCHANGED <<shared, nvs, pc, code, network, screen, verdict, told>>

ClearBits ==
    /\ worker = "checked"
    /\ okBit' = FALSE /\ failBit' = FALSE
    /\ worker' = "cleared"
    /\ UNCHANGED <<paired, state, codeQ, nvs, pc, code, wcode, network, screen,
                   verdict, told, bounds>>

\* Mutant: the code is queued behind the one that is there.
SubmitBehind ==
    /\ worker = "cleared"
    /\ codeQ' = Append(codeQ, wcode)
    /\ worker' = "waiting"
    /\ UNCHANGED <<paired, state, okBit, failBit, nvs, pc, code, wcode,
                   network, screen, verdict, told, bounds>>

\* xQueueOverwrite: the newest code wins.
SubmitCode ==
    /\ worker = "cleared"
    /\ codeQ' = <<wcode>>
    /\ worker' = "waiting"
    /\ UNCHANGED <<paired, state, okBit, failBit, nvs, pc, code, wcode,
                   network, screen, verdict, told, bounds>>

\* xEventGroupWaitBits clears both bits as it returns.
Reply ==
    /\ worker = "waiting" /\ (okBit \/ failBit)
    /\ told' = Append(told, IF okBit THEN "ok" ELSE "failed")
    /\ okBit' = FALSE /\ failBit' = FALSE
    /\ worker' = "idle"
    /\ UNCHANGED <<paired, state, codeQ, nvs, pc, code, wcode, network, screen,
                   verdict, bounds>>

\* 20 s without a bit.  A task that waits for a code has taken it long since.
ReplyTimeout ==
    /\ worker = "waiting" /\ ~okBit /\ ~failBit
    /\ ~(pc = "wait_code" /\ codeQ # <<>>)
    /\ told' = Append(told, "failed")
    /\ worker' = "idle"
    /\ UNCHANGED <<shared, nvs, pc, code, wcode, network, screen, verdict,
                   bounds>>

-----------------------------------------------------------------------------
(* The environment.                                                        *)

\* The TV answers the message it has; to a configuration it also puts up a
\* new code, and it trusts the device before it says so.
TvAnswers ==
    /\ link = "up" /\ inbox = "none" /\ tv # "quiet"
    /\ tv' = "quiet"
    /\ inbox' = CASE tv = "request"       -> "request_ack"
                  [] tv = "options"       -> "options"
                  [] tv = "configuration" -> "configuration_ack"
                  [] tv = "good_secret"   -> "secret_ack"
                  [] tv = "bad_secret"    -> "error"
    /\ exch' = IF tv = "configuration" THEN exch + 1 ELSE exch
    /\ trusts' = (trusts \/ tv = "good_secret")
    /\ accepted' = IF tv = "good_secret" THEN code.req ELSE accepted
    /\ rejected' = IF tv = "bad_secret" THEN rejected \cup {code.req}
                                        ELSE rejected
    /\ UNCHANGED <<shared, nvs, pc, code, handler, link, told, bounds>>

\* A message the device ignores, or an error out of turn.
TvInterjects(m) ==
    /\ link = "up" /\ inbox = "none" /\ m \in {"error", "other"}
    /\ Fault
    /\ inbox' = m
    /\ UNCHANGED <<shared, nvs, pc, code, handler, link, tv, screen, verdict,
                   told>>

BreakLink ==
    /\ link = "up"
    /\ Fault
    /\ link' = "broken"
    /\ UNCHANGED <<shared, nvs, pc, code, handler, inbox, tv, screen, verdict,
                   told>>

\* Power loss, or a failed ESP_ERROR_CHECK such as the one on the flash.
Restart ==
    /\ Fault
    /\ paired' = FALSE /\ state' = "boot"
    /\ codeQ' = <<>> /\ okBit' = FALSE /\ failBit' = FALSE
    /\ pc' = "boot" /\ code' = NoCode
    /\ told' = IF worker = "idle" THEN told ELSE Append(told, "none")
    /\ worker' = "idle" /\ wcode' = NoCode
    /\ link' = "none" /\ inbox' = "none" /\ tv' = "quiet"
    /\ UNCHANGED <<nvs, screen, verdict>>

-----------------------------------------------------------------------------
Exchange == \/ SendRequest \/ OnRequestAck \/ OnOptions \/ OnConfigurationAck
            \/ OnSecretAck \/ OnOther \/ OnError \/ ReceiveFails
            \/ TakeCode \/ RejectCode \/ SendSecret

TvSession == \/ Boot \/ ConnectFail \/ ConnectOk \/ Exchange
             \/ StorePaired \/ PublishPaired \/ AnnounceOk \/ AnnounceFail

HttpWorker == ClearBits \/ SubmitCode \/ Reply \/ ReplyTimeout

Faulty == \/ ReceiveTimeout \/ CodeTimeout \/ BreakLink \/ Restart
          \/ \E m \in {"error", "other"} : TvInterjects(m)

Next == \/ TvSession \/ ControlLoop
        \/ HttpWorker \/ \E right \in BOOLEAN : PostCode(right)
        \/ TvAnswers \/ Faulty

Spec == Init /\ [][Next]_vars

(***************************************************************************)
(* Fairness.  Both tasks are scheduled, the TV answers, a TV that is asked *)
(* often enough accepts a connection, and a user who is shown codes types  *)
(* one in correctly in the end.  Nothing is assumed of the faults, except  *)
(* that there are finitely many.                                           *)
(***************************************************************************)
FairSpec == /\ Spec
            /\ WF_vars(TvSession) /\ SF_vars(ConnectOk)
            /\ WF_vars(HttpWorker) /\ WF_vars(TvAnswers)
            /\ SF_vars(PostCode(TRUE))

-----------------------------------------------------------------------------
(* Properties.                                                             *)

\* Every variable holds a value of its type; the code queue holds one code.
TypeOK ==
    /\ paired \in BOOLEAN /\ state \in State /\ nvs \in BOOLEAN
    /\ codeQ \in Seq(Code) /\ Len(codeQ) <= 1
    /\ okBit \in BOOLEAN /\ failBit \in BOOLEAN
    /\ pc \in PC /\ code \in Code
    /\ worker \in {"idle", "checked", "cleared", "waiting"} /\ wcode \in Code
    /\ link \in {"none", "up", "broken"}
    /\ inbox \in Message \cup {"none"} /\ tv \in Request \cup {"quiet"}
    /\ exch \in Nat /\ trusts \in BOOLEAN
    /\ accepted \in Nat /\ rejected \in SUBSET Nat
    /\ told \in Seq({"ok", "failed", "none"})
    /\ faults \in Nat /\ mistakes \in Nat

\* The device never believes itself paired with a TV that does not trust it:
\* it would skip the pairing loop for ever and never get a session.
PairedMeansTrusted == (paired \/ nvs) => trusts

\* {"ok":true} answers the very request whose code the TV accepted, not one
\* that came while an older code was being tried.
OkMeansThisCode ==
    \A r \in 1 .. Len(told) : told[r] = "ok" => accepted = r

\* TV, flash and user commit in this order and for good: {"ok":true} is only
\* said of a pairing that survives a restart, and that is only written once
\* the TV has trusted the device; a restart between the steps undoes none.
Agreement == INSTANCE PairingAgreement
                 WITH recorded  <- nvs,
                      confirmed <- \E r \in 1 .. Len(told) : told[r] = "ok"
KeepsAgreement == Agreement!Spec

\* However exchanges fail, time out or are cut off, the device puts up a new
\* one, and a user who keeps at it gets it paired.
EventuallyPaired == <>nvs

\* The handler "waits for the pairing outcome" (webserver.c) in the "Result
\* bits for a submitted code" (app_state.h): a request that is answered with
\* "pairing failed - check the code" did not bring the code that paired.
FailMeansNotPaired ==
    \A r \in 1 .. Len(told) : told[r] = "failed" => accepted # r
=============================================================================
