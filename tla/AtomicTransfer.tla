---------------------------- MODULE AtomicTransfer ----------------------------
(***************************************************************************)
(* What the ownership-transfer service promises: each call takes effect in *)
(* one indivisible step, a transfer is created once and finalised once,    *)
(* and every call is told what its own step did.  Nothing survives a       *)
(* restart.  OwnershipTransfer, with its locks and its awaits, implements  *)
(* this specification.                                                     *)
(***************************************************************************)
CONSTANTS Calls, TransferIds

VARIABLES
  state,     \* the state of each transfer
  outcome    \* what each call's own step did, as an HTTP status

transferVars == <<state, outcome>>

TransferInit ==
  /\ state = [i \in TransferIds |-> "absent"]
  /\ outcome = [c \in Calls |-> "none"]

Settle(c, status) ==
  /\ outcome[c] = "none"
  /\ outcome' = [outcome EXCEPT ![c] = status]

Refuse(c, status) ==
  /\ Settle(c, status)
  /\ UNCHANGED state

Create(c, i) ==
  /\ state[i] = "absent"
  /\ state' = [state EXCEPT ![i] = "PENDING"]
  /\ Settle(c, "201")

Finalize(c, i, final) ==
  /\ state[i] = "PENDING"
  /\ state' = [state EXCEPT ![i] = final]
  /\ Settle(c, "200")

CallStep(c) ==
  \/ Refuse(c, "400")
  \/ \E i \in TransferIds :
       \/ Create(c, i)
       \/ state[i] # "absent" /\ Refuse(c, "409")
       \/ state[i] = "absent" /\ Refuse(c, "404")
       \/ \E final \in {"ACCEPTED", "CANCELLED"} : Finalize(c, i, final)

\* A restart loses the transfers, and the answers that were not sent yet.
Forget ==
  /\ state' = [i \in TransferIds |-> "absent"]
  /\ \E untold \in SUBSET Calls :
       outcome' = [c \in Calls |-> IF c \in untold THEN "lost" ELSE outcome[c]]

TransferNext == (\E c \in Calls : CallStep(c)) \/ Forget

TransferSpec == TransferInit /\ [][TransferNext]_transferVars
=============================================================================
