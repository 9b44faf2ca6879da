------------------------------- MODULE Outbox -------------------------------
(***************************************************************************)
(* Messages to applicants.  The row is written and the answer given; the   *)
(* send goes on by itself and records on the row how it ended.  A message  *)
(* of the click-to-chat kind is sent by hand instead, and marked.  A retry *)
(* queues the row again and, for an email, builds its HTML before it sends.*)
(*                                                                         *)
(* calm is the well-behaved run: the process does not die, nobody retries  *)
(* while a send is under way or marks by hand what is not theirs to send.  *)
(***************************************************************************)
EXTENDS Integers, Sequences, FiniteSets

CONSTANTS
  Procs,        \* sends that can be under way at once
  Kinds,        \* the kinds of message there are, of email, whatsapp and link
  MaxMessages,  \* bound on the messages ever written
  MaxAttempts   \* bound on the sends of one message

VARIABLES
  messages,  \* the communications rows: status, and how the message goes out
  sends,     \* the sends under way: which message, and how far
  accepted,  \* how often the provider has taken each message
  unclear,   \* history: how often it did and the row does not say so
  stranded,  \* history: the messages a failure left queued with no send under way
  attempts,  \* history: the sends of each message
  calm       \* the well-behaved run

vars == <<messages, sends, accepted, unclear, stranded, attempts, calm>>

-----------------------------------------------------------------------------

COMMUNICATION_STATUS == {"queued", "sent", "failed", "marked_sent"}

NoSend == [message |-> 0, pc |-> "none"]

Init ==
  /\ messages = <<>> /\ accepted = <<>> /\ unclear = <<>> /\ attempts = <<>>
  /\ stranded = {}
  /\ sends = [p \in Procs |-> NoSend]
  /\ calm \in BOOLEAN

At(p, pc)     == sends[p].pc = pc
Under(m)      == \E p \in Procs : sends[p].message = m
SetStatus(m, status) == messages' = [messages EXCEPT ![m].status = status]

Goes(p, m, pc) == sends' = [sends EXCEPT ![p] = [message |-> m, pc |-> pc]]
Ends(p)        == sends' = [sends EXCEPT ![p] = NoSend]

Written(kind, tries) ==
  /\ Len(messages) < MaxMessages
  /\ messages' = Append(messages, [status |-> "queued", kind |-> kind])
  /\ accepted' = Append(accepted, 0) /\ unclear' = Append(unclear, 0)
  /\ attempts' = Append(attempts, tries)
  /\ UNCHANGED <<stranded, calm>>

-----------------------------------------------------------------------------

\* sendEmail, sendWhatsApp, sendWhatsAppTemplate: the row, and at once the send.
Send(p) ==
  /\ At(p, "none")
  /\ \E kind \in Kinds \ {"link"} : Written(kind, 1)
  /\ Goes(p, Len(messages) + 1, "calling")

\* The process dies before the send has begun.
SendDies ==
  ~calm /\ (\E kind \in Kinds \ {"link"} : Written(kind, 1)) /\ UNCHANGED sends

\* whatsappLink: the row only.
Link == "link" \in Kinds /\ Written("link", 0) /\ UNCHANGED sends

\* markWhatsappSent: of any message.
MarkSent(m) ==
  /\ calm => messages[m].kind = "link" /\ messages[m].status = "queued"
  /\ SetStatus(m, "marked_sent")
  /\ UNCHANGED <<sends, accepted, unclear, stranded, attempts, calm>>

\* retry: of any message that is not sent.
Retryable_Any(m) == TRUE
Retryable(m)     == messages[m].status # "sent"

RetryRead(p, m) ==
  /\ At(p, "none")
  /\ Retryable(m)
  /\ calm => ~Under(m)
  /\ attempts[m] < MaxAttempts
  /\ Goes(p, m, "retrying")
  /\ attempts' = [attempts EXCEPT ![m] = @ + 1]
  /\ UNCHANGED <<messages, accepted, unclear, stranded, calm>>

\* The row is queued; what is not an email is sent at once.
RetryQueue(p) ==
  /\ At(p, "retrying")
  /\ LET m == sends[p].message
     IN /\ SetStatus(m, "queued")
        /\ Goes(p, m, IF messages[m].kind = "email" THEN "building" ELSE "calling")
        /\ stranded' = stranded \ {m}
  /\ UNCHANGED <<accepted, unclear, attempts, calm>>

\* buildOutboundHtml has read what it needs.
Build(p) ==
  /\ At(p, "building")
  /\ sends' = [sends EXCEPT ![p].pc = "calling"]
  /\ UNCHANGED <<messages, accepted, unclear, stranded, attempts, calm>>

\* The UPDATE fails, or buildOutboundHtml throws: the record is gone, or its reads
\* fail.  In the second case the row stays queued, and nobody sends it.
RetryFails(p) ==
  /\ sends[p].pc \in {"retrying", "building"}
  /\ stranded' = IF At(p, "building") THEN stranded \cup {sends[p].message} ELSE stranded
  /\ Ends(p)
  /\ UNCHANGED <<messages, accepted, unclear, attempts, calm>>

-----------------------------------------------------------------------------
(* deliver, deliverWhatsApp, deliverWhatsAppTemplate                       *)

\* The provider takes the message; its answer may be lost on the way.
Accept(p) ==
  /\ At(p, "calling")
  /\ accepted' = [accepted EXCEPT ![sends[p].message] = @ + 1]
  /\ \/ /\ sends' = [sends EXCEPT ![p].pc = "accepted"]
        /\ UNCHANGED unclear
     \/ /\ sends' = [sends EXCEPT ![p].pc = "refused"]
        /\ unclear' = [unclear EXCEPT ![sends[p].message] = @ + 1]
  /\ UNCHANGED <<messages, stranded, attempts, calm>>

Refuse(p) ==
  /\ At(p, "calling")
  /\ sends' = [sends EXCEPT ![p].pc = "refused"]
  /\ UNCHANGED <<messages, accepted, unclear, stranded, attempts, calm>>

\* The UPDATE that records a message as sent fails: the catch block takes it for one
\* the provider refused.
SentNotRecorded(p) ==
  /\ At(p, "accepted")
  /\ sends' = [sends EXCEPT ![p].pc = "refused"]
  /\ unclear' = [unclear EXCEPT ![sends[p].message] = @ + 1]
  /\ UNCHANGED <<messages, accepted, stranded, attempts, calm>>

\* What a send that ended so leaves on the row.
Outcome_LogsOnly(pc, status) == IF pc = "accepted" THEN "sent" ELSE status
Outcome(pc, status)          == IF pc = "accepted" THEN "sent" ELSE "failed"

Record(p) ==
  /\ sends[p].pc \in {"accepted", "refused"}
  /\ LET m == sends[p].message IN SetStatus(m, Outcome(sends[p].pc, messages[m].status))
  /\ Ends(p)
  /\ UNCHANGED <<accepted, unclear, stranded, attempts, calm>>

\* The UPDATE of the catch block fails: nobody catches that, and the row stays.
RecordFails(p) ==
  /\ At(p, "refused")
  /\ stranded' = stranded \cup {sends[p].message}
  /\ Ends(p)
  /\ UNCHANGED <<messages, accepted, unclear, attempts, calm>>

\* The process dies, and every send with it.
Crash ==
  /\ ~calm
  /\ sends' = [p \in Procs |-> NoSend]
  /\ UNCHANGED <<messages, accepted, unclear, stranded, attempts, calm>>

-----------------------------------------------------------------------------

RetryGoesOn(p) == RetryQueue(p) \/ Build(p) \/ RetryFails(p)
Called(p)      == Accept(p) \/ Refuse(p)
Told(p)        == Record(p) \/ SentNotRecorded(p) \/ RecordFails(p)

Next ==
  \/ Link \/ SendDies \/ Crash
  \/ \E m \in DOMAIN messages : MarkSent(m)
  \/ \E p \in Procs, m \in DOMAIN messages : RetryRead(p, m)
  \/ \E p \in Procs : Send(p) \/ RetryGoesOn(p) \/ Called(p) \/ Told(p)

\* A handler and what comes after a call run on, and a call ends, if only by its
\* timeout; none of the three need succeed.
Fairness ==
  \A p \in Procs :
    WF_vars(RetryGoesOn(p)) /\ WF_vars(Called(p)) /\ WF_vars(Told(p))

Spec == Init /\ [][Next]_vars /\ Fairness

-----------------------------------------------------------------------------

\* The type of every variable.
TypeOK ==
  /\ \A m \in DOMAIN messages :
       messages[m] \in [status : COMMUNICATION_STATUS, kind : Kinds]
  /\ DOMAIN accepted = DOMAIN messages /\ DOMAIN unclear = DOMAIN messages
  /\ \A m \in DOMAIN attempts : attempts[m] \in 0 .. MaxAttempts
  /\ \A p \in Procs : sends[p].message \in 0 .. Len(messages)
  /\ stranded \subseteq DOMAIN messages

\* No message says sent that the provider has not taken; and in the well-behaved run
\* none is taken twice, but where its answer or the record of it was lost.
AcceptedOnce ==
  \A m \in DOMAIN messages :
    /\ messages[m].status = "sent" => accepted[m] > 0
    /\ calm => accepted[m] <= 1 + unclear[m]

\* A message that was given to a send and has not been told how that ended; not one a
\* failed retry, or a failed record of a failure, has left queued.
Waiting(m) ==
  /\ calm /\ m \in DOMAIN messages \ stranded
  /\ messages[m].kind # "link" /\ messages[m].status = "queued"

\* In the well-behaved run a message that was given to a send is told how it ended, or
\* is one of those.
OutcomeRecorded == \A m \in 1 .. MaxMessages : Waiting(m) ~> ~Waiting(m)
=============================================================================
