-------------------------- MODULE NotificationService --------------------------
(***************************************************************************)
(* NotificationService (services/notification.service.ts): deduplication   *)
(* by eventId, delivery with retries, and the dead letter of a delivery    *)
(* that is given up.  The repository and the provider behind it are        *)
(* external: each of their calls may fail before or after it took effect.  *)
(* The process may crash; what the repository holds survives.              *)
(***************************************************************************)
EXTENDS Integers, FiniteSets

CONSTANTS
  Sends,         \* calls of sendNotification
  EventIds,      \* eventIds
  NoEventId,     \* a notification that carries none
  MaxDeliveries  \* MAX_DELIVERY_ATTEMPTS

ASSUME NotificationAssumption == NoEventId \notin EventIds /\ MaxDeliveries \in Nat \ {0}

VARIABLES
  recorded,     \* the repository: the calls whose notification it has a row of
  deliveries,   \* how often the provider delivered each call's notification
  deadLetters,  \* the calls with a dead-letter record
  alerts,       \* the calls an alert was raised for
  sendPc,       \* where each call is suspended
  sendEvent,    \* the eventId of each call's notification
  attempts,     \* how often each call has tried to deliver
  cutShort,     \* history: calls a crash, or a failing create, ended early
  doubtful,     \* history: calls whose notification was delivered, and not so answered
  metEvents     \* history: eventIds two calls found free at once

noticeVars == <<recorded, deliveries, deadLetters, alerts, sendPc, sendEvent, attempts,
                cutShort, doubtful, metEvents>>

Sending == {"creating", "delivering", "backingOff", "givingUp"}

NotificationInit ==
  /\ recorded = {} /\ deadLetters = {} /\ alerts = {}
  /\ cutShort = {} /\ doubtful = {} /\ metEvents = {}
  /\ deliveries = [s \in Sends |-> 0]
  /\ sendPc = [s \in Sends |-> "idle"]
  /\ sendEvent = [s \in Sends |-> NoEventId]
  /\ attempts = [s \in Sends |-> 0]

SendGoto(s, l) == sendPc' = [sendPc EXCEPT ![s] = l]

IsRecorded(e) == \E s \in recorded : sendEvent[s] = e

\* existsByEventId is asked only for a notification with an eventId; when it
\* fails the call fails.
StartSend(s, e) ==
  /\ sendPc[s] = "idle"
  /\ sendEvent' = [sendEvent EXCEPT ![s] = e]
  /\ \/ /\ e # NoEventId /\ IsRecorded(e)
        /\ SendGoto(s, "skipped")
     \/ /\ e = NoEventId \/ ~IsRecorded(e)
        /\ SendGoto(s, "creating")
     \/ e # NoEventId /\ SendGoto(s, "failed")
  /\ metEvents' = metEvents \cup
       {x \in EventIds : /\ sendPc'[s] = "creating" /\ x = e
                         /\ \E r \in Sends \ {s} : sendPc[r] = "creating" /\ sendEvent[r] = x}
  /\ UNCHANGED <<recorded, deliveries, deadLetters, alerts, attempts, cutShort, doubtful>>

\* Variant: a create that fails does not keep the notification from being delivered.
CreateBestEffort(s) ==
  /\ sendPc[s] = "creating"
  /\ SendGoto(s, "delivering")
  /\ recorded' \in {recorded, recorded \cup {s}}
  /\ UNCHANGED <<deliveries, deadLetters, alerts, sendEvent, attempts, cutShort, doubtful,
                 metEvents>>

\* create: a row, a failure, or a row whose writing is answered with a failure.
Create(s) ==
  /\ sendPc[s] = "creating"
  /\ \/ SendGoto(s, "delivering") /\ recorded' = recorded \cup {s} /\ UNCHANGED cutShort
     \/ /\ SendGoto(s, "failed") /\ cutShort' = cutShort \cup {s}
        /\ recorded' \in {recorded, recorded \cup {s}}
  /\ UNCHANGED <<deliveries, deadLetters, alerts, sendEvent, attempts, doubtful, metEvents>>

\* deliver: what the provider did, and what the service is told of it: success,
\* a transient failure (5xx, network, timeout, anything unknown) or a permanent
\* one (4xx).
Deliver(s) ==
  /\ sendPc[s] = "delivering"
  /\ attempts' = [attempts EXCEPT ![s] = @ + 1]
  /\ \E done \in BOOLEAN, told \in {"success", "transient", "permanent"} :
       /\ told = "success" => done
       /\ told = "permanent" => ~done
       /\ deliveries' = [deliveries EXCEPT ![s] = @ + (IF done THEN 1 ELSE 0)]
       /\ doubtful' = doubtful \cup {x \in {s} : done /\ told = "transient"}
       /\ SendGoto(s, CASE told = "success" -> "sent"
                        [] told = "transient" /\ attempts'[s] < MaxDeliveries -> "backingOff"
                        [] OTHER -> "givingUp")
  /\ UNCHANGED <<recorded, deadLetters, alerts, sendEvent, cutShort, metEvents>>

BackOff(s) ==
  /\ sendPc[s] = "backingOff"
  /\ SendGoto(s, "delivering")
  /\ UNCHANGED <<recorded, deliveries, deadLetters, alerts, sendEvent, attempts,
                 cutShort, doubtful, metEvents>>

\* Variant: no alert is raised when the dead letter cannot be written.
GiveUpQuietly(s) ==
  /\ sendPc[s] = "givingUp"
  /\ SendGoto(s, "sent")
  /\ \/ deadLetters' = deadLetters \cup {s} /\ alerts' = alerts \cup {s}
     \/ UNCHANGED <<deadLetters, alerts>>
  /\ UNCHANGED <<recorded, deliveries, sendEvent, attempts, cutShort, doubtful, metEvents>>

\* handleDeliveryFailure: the alert is raised whether or not the dead letter
\* could be written, and the call returns as if it had sent.
HandleDeliveryFailure(s) ==
  /\ sendPc[s] = "givingUp"
  /\ SendGoto(s, "sent")
  /\ deadLetters' \in {deadLetters, deadLetters \cup {s}}
  /\ alerts' = alerts \cup {s}
  /\ UNCHANGED <<recorded, deliveries, sendEvent, attempts, cutShort, doubtful, metEvents>>

SendCrash ==
  LET hit == {s \in Sends : sendPc[s] \in Sending}
  IN  /\ hit # {}
      /\ sendPc' = [s \in Sends |-> IF s \in hit THEN "failed" ELSE sendPc[s]]
      /\ cutShort' = cutShort \cup hit
      /\ UNCHANGED <<recorded, deliveries, deadLetters, alerts, sendEvent, attempts,
                     doubtful, metEvents>>

SendStep(s) ==
  \/ \E e \in EventIds \cup {NoEventId} : StartSend(s, e)
  \/ Create(s) \/ Deliver(s) \/ BackOff(s) \/ HandleDeliveryFailure(s)

NotificationNext == (\E s \in Sends : SendStep(s)) \/ SendCrash

NotificationSpec == NotificationInit /\ [][NotificationNext]_noticeVars
-----------------------------------------------------------------------------
(* Properties *)

Of(e) == {s \in Sends : sendEvent[s] = e}

\* An event whose call returned without an error, because it was sent or skipped
\* as already processed, was delivered, or has been alerted on, or a call is
\* still at it, or the call that recorded it was cut short by a crash or by
\* create itself.
NeverSilentlyDropped ==
  \A s \in Sends :
    sendPc[s] \in {"sent", "skipped"} =>
      IF sendEvent[s] = NoEventId THEN deliveries[s] > 0 \/ s \in alerts
      ELSE \E r \in Of(sendEvent[s]) :
             \/ deliveries[r] > 0 \/ r \in alerts
             \/ sendPc[r] \in Sending \/ r \in cutShort

\* An event no two calls found free at once is delivered by one call, whatever
\* crashes or fails meanwhile; and once by it, or, when the provider delivered and
\* answered with a failure, no more often than a call may try.
DeliveredOnce ==
  \A e \in EventIds \ metEvents :
    /\ \A r, s \in Of(e) : deliveries[r] > 0 /\ deliveries[s] > 0 => r = s
    /\ \A s \in Of(e) : deliveries[s] <= IF s \in doubtful THEN MaxDeliveries ELSE 1
=============================================================================
