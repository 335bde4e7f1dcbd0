----------------------- MODULE NotificationServiceProofs -----------------------
(***************************************************************************)
(* What holds of the delivery of notifications for any number of calls and *)
(* events, and any number of attempts.                                     *)
(***************************************************************************)
EXTENDS NotificationService, TLAPS

NotificationTypes ==
  /\ recorded \subseteq Sends /\ deadLetters \subseteq Sends /\ alerts \subseteq Sends
  /\ cutShort \subseteq Sends /\ doubtful \subseteq Sends /\ metEvents \subseteq EventIds
  /\ deliveries \in [Sends -> Nat] /\ attempts \in [Sends -> Nat]
  /\ sendPc \in [Sends -> Sending \cup {"idle", "skipped", "sent", "failed"}]
  /\ sendEvent \in [Sends -> EventIds \cup {NoEventId}]

PastCreate == {"delivering", "backingOff", "givingUp", "sent"}

\* A call past create has its row, and a row whose call ended elsewhere was cut short.
RowsHaveCalls ==
  \A s \in Sends :
    /\ sendPc[s] \in PastCreate => s \in recorded
    /\ s \in recorded => sendPc[s] \in PastCreate \/ s \in cutShort
    /\ sendPc[s] = "idle" => s \notin cutShort
    /\ deliveries[s] > 0 => s \in recorded

\* A call ends well by delivering or by raising an alert, and is skipped only for a row.
EndsMeanSomething ==
  \A s \in Sends :
    /\ sendPc[s] = "sent" => deliveries[s] > 0 \/ s \in alerts
    /\ sendPc[s] = "skipped" => sendEvent[s] # NoEventId /\ IsRecorded(sendEvent[s])

\* A call delivers once, and then has sent, unless the provider's answer misled it.
DeliversOnce ==
  \A s \in Sends \ doubtful :
    deliveries[s] <= 1 /\ (deliveries[s] = 1 => sendPc[s] = "sent")

\* A call tries no more often than it may, and delivers only when it tries.
TriesAreCounted ==
  \A s \in Sends :
    /\ deliveries[s] <= attempts[s] /\ attempts[s] <= MaxDeliveries
    /\ sendPc[s] \in {"idle", "creating"} => attempts[s] = 0
    /\ sendPc[s] \in {"delivering", "backingOff"} => attempts[s] < MaxDeliveries

\* At most one call has, or is about to write, the row of an event no two found free.
OneAtWork ==
  \A e \in EventIds \ metEvents : \A r, s \in Sends :
    /\ sendEvent[r] = e /\ (r \in recorded \/ sendPc[r] = "creating")
    /\ sendEvent[s] = e /\ (s \in recorded \/ sendPc[s] = "creating")
    => r = s

NotificationInv ==
  /\ NotificationTypes /\ RowsHaveCalls /\ EndsMeanSomething
  /\ DeliversOnce /\ TriesAreCounted /\ OneAtWork

LEMMA NotificationInitial == NotificationInit => NotificationInv
BY NotificationAssumption
   DEF NotificationInit, NotificationInv, NotificationTypes, RowsHaveCalls, PastCreate,
       EndsMeanSomething, DeliversOnce, TriesAreCounted, OneAtWork, Sending

LEMMA NotificationStep == NotificationInv /\ [NotificationNext]_noticeVars => NotificationInv'
<1> SUFFICES ASSUME NotificationInv, [NotificationNext]_noticeVars PROVE NotificationInv'
  OBVIOUS
<1> USE NotificationAssumption
    DEF NotificationInv, NotificationTypes, RowsHaveCalls, PastCreate, EndsMeanSomething,
        DeliversOnce, TriesAreCounted, OneAtWork, Sending, IsRecorded, SendGoto
<1>1. ASSUME NEW s \in Sends, NEW e \in EventIds \cup {NoEventId}, StartSend(s, e)
      PROVE  NotificationInv'
  BY <1>1 DEF StartSend
<1>2. ASSUME NEW s \in Sends, Create(s) PROVE NotificationInv'
  BY <1>2 DEF Create
<1>3. ASSUME NEW s \in Sends, Deliver(s) PROVE NotificationInv'
  BY <1>3 DEF Deliver
<1>4. ASSUME NEW s \in Sends, BackOff(s) PROVE NotificationInv'
  BY <1>4 DEF BackOff
<1>5. ASSUME NEW s \in Sends, HandleDeliveryFailure(s) PROVE NotificationInv'
  BY <1>5 DEF HandleDeliveryFailure
<1>6. ASSUME SendCrash PROVE NotificationInv'
  BY <1>6 DEF SendCrash
<1>7. ASSUME UNCHANGED noticeVars PROVE NotificationInv'
  BY <1>7 DEF noticeVars
<1> QED
  BY <1>1, <1>2, <1>3, <1>4, <1>5, <1>6, <1>7 DEF NotificationNext, SendStep

LEMMA NotificationInvariant == NotificationSpec => []NotificationInv
BY NotificationInitial, NotificationStep, PTL DEF NotificationSpec

\* Every variable keeps its type.
THEOREM TypeCorrect == NotificationSpec => []NotificationTypes
<1>1. NotificationInv => NotificationTypes
  BY DEF NotificationInv
<1> QED
  BY <1>1, NotificationInvariant, PTL

\* No call ends without an error while nobody delivered, alerted, or was cut short.
THEOREM NothingDropped == NotificationSpec => []NeverSilentlyDropped
<1>1. NotificationInv => NeverSilentlyDropped
  <2> SUFFICES ASSUME NotificationInv, NEW s \in Sends, sendPc[s] \in {"sent", "skipped"}
               PROVE  IF sendEvent[s] = NoEventId THEN deliveries[s] > 0 \/ s \in alerts
                      ELSE \E r \in Of(sendEvent[s]) :
                             \/ deliveries[r] > 0 \/ r \in alerts
                             \/ sendPc[r] \in Sending \/ r \in cutShort
    BY DEF NeverSilentlyDropped
  <2>1. CASE sendPc[s] = "sent"
    BY <2>1 DEF NotificationInv, EndsMeanSomething, Of
  <2>2. CASE sendPc[s] = "skipped"
    <3>1. PICK r \in recorded : sendEvent[r] = sendEvent[s] /\ sendEvent[s] # NoEventId
      BY <2>2 DEF NotificationInv, EndsMeanSomething, IsRecorded
    <3>2. r \in Of(sendEvent[s])
      BY <3>1 DEF Of, NotificationInv, NotificationTypes
    <3>3. sendPc[r] \in PastCreate \/ r \in cutShort
      BY <3>1 DEF NotificationInv, NotificationTypes, RowsHaveCalls
    <3> QED
      BY <3>1, <3>2, <3>3 DEF NotificationInv, NotificationTypes, EndsMeanSomething,
         PastCreate, Sending
  <2> QED
    BY <2>1, <2>2
<1> QED
  BY <1>1, NotificationInvariant, PTL

\* An event two calls did not find free at once is delivered by one of them, once if
\* the provider's answers are true and at most MaxDeliveries times if not.
THEOREM NothingTwice == NotificationSpec => []DeliveredOnce
<1>1. NotificationInv => DeliveredOnce
  <2> SUFFICES ASSUME NotificationInv PROVE DeliveredOnce
    OBVIOUS
  <2>1. ASSUME NEW e \in EventIds \ metEvents, NEW r \in Of(e), NEW s \in Of(e),
               deliveries[r] > 0, deliveries[s] > 0
        PROVE  r = s
    BY <2>1 DEF NotificationInv, RowsHaveCalls, OneAtWork, Of
  <2>2. ASSUME NEW e \in EventIds \ metEvents, NEW s \in Of(e)
        PROVE  deliveries[s] <= IF s \in doubtful THEN MaxDeliveries ELSE 1
    <3>1. s \in Sends /\ deliveries[s] \in Nat /\ attempts[s] \in Nat
      BY DEF NotificationInv, NotificationTypes, Of
    <3>2. deliveries[s] <= attempts[s] /\ attempts[s] <= MaxDeliveries
      BY <3>1 DEF NotificationInv, TriesAreCounted
    <3>3. s \notin doubtful => deliveries[s] <= 1
      BY <3>1 DEF NotificationInv, DeliversOnce
    <3> QED BY <3>1, <3>2, <3>3, NotificationAssumption
  <2> QED BY <2>1, <2>2 DEF DeliveredOnce
<1> QED
  BY <1>1, NotificationInvariant, PTL
=============================================================================
