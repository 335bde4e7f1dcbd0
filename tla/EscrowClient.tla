----------------------------- MODULE EscrowClient ------------------------------
(***************************************************************************)
(* The escrow blocks of the browser (components/tw-blocks): the selected   *)
(* escrow and its copy in localStorage (EscrowProvider), and the forms     *)
(* that deploy an escrow, fund it, approve a milestone of it or change its *)
(* status, each by a transaction that is fetched, signed and sent          *)
(* (useEscrowsMutations) and then applied to the local copy.               *)
(*                                                                         *)
(* The contracts, the API and the wallet are external: fetching, signing   *)
(* and sending may fail, and a transaction whose failure was reported may  *)
(* have taken effect, or take effect later.  A form holds the escrow that  *)
(* was selected when it was rendered.                                      *)
(***************************************************************************)
EXTENDS Integers, Sequences, SequencesExt

CONSTANTS
  Submits,      \* submissions of a form
  Contracts,    \* contracts that can be deployed
  Flags,        \* what approving or changing a milestone sets on it
  MaxAttempts   \* of retryWithBackoff

ASSUME EscrowClientAssumption == MaxAttempts \in Nat \ {0}

VARIABLES
  chain,      \* each contract: the amount put in and the flags set
  selected,   \* EscrowProvider's state
  stored,     \* its copy in localStorage
  formPc,     \* where each submission is suspended
  form,       \* what it does, and the escrow it was rendered with
  tries,      \* retryWithBackoff: the attempts made
  outcome,    \* what the user was shown
  deployed,   \* the contracts each submission deployed; last the one of its last attempt
  afloat,     \* attempts given up on after their transaction was sent
  doubtful,   \* history: submissions with a transaction that took effect, and not so answered
  crossed     \* history: submissions that were under way together

clientVars == <<chain, selected, stored, formPc, form, tries, outcome, deployed, afloat,
                doubtful, crossed>>

NoEscrow == [contract |-> "none"]
NotDeployed == [paid |-> -1]
NoForm == [op |-> "none"]

\* A fresh selection has no balance yet.
Fresh(k) == [contract |-> k, balance |-> -1, flags |-> {}]
Balance(e) == IF e.balance = -1 THEN 0 ELSE e.balance

ClientInit ==
  /\ chain = [k \in Contracts |-> NotDeployed]
  /\ selected = NoEscrow /\ stored = NoEscrow
  /\ formPc = [s \in Submits |-> "idle"]
  /\ form = [s \in Submits |-> NoForm]
  /\ tries = [s \in Submits |-> 0]
  /\ outcome = [s \in Submits |-> "none"]
  /\ deployed = [s \in Submits |-> <<>>]
  /\ afloat = {} /\ doubtful = {} /\ crossed = {}

Underway == {s \in Submits : formPc[s] \notin {"idle", "done"}}

FormGoto(s, l) == formPc' = [formPc EXCEPT ![s] = l]
Show(s, result) == FormGoto(s, "done") /\ outcome' = [outcome EXCEPT ![s] = result]

\* updateEscrow merges the fields of e over the current escrow, if there is one,
\* and persists the result: a balance e does not have stays what it was.
Update(e) ==
  IF selected = NoEscrow THEN UNCHANGED <<selected, stored>>
  ELSE /\ selected' = [contract |-> e.contract, flags |-> e.flags,
                       balance |-> IF e.balance = -1 THEN selected.balance ELSE e.balance]
       /\ stored' = selected'
-----------------------------------------------------------------------------
\* A form is submitted.  Only the same form, dialog or button is disabled while it
\* is under way; another one of its kind is not.
SubmitForm(s, f) ==
  /\ formPc[s] = "idle"
  /\ form' = [form EXCEPT ![s] = f]
  /\ FormGoto(s, IF f.op = "fund" THEN "checking" ELSE "fetching")
  /\ tries' = [tries EXCEPT ![s] = 1]
  /\ crossed' = crossed \cup {r \in Underway \cup {s} : Underway # {}}
  /\ UNCHANGED <<chain, selected, stored, outcome, deployed, afloat, doubtful>>

\* The wallet must hold the asset; a missing trustline prompts the user to add it
\* and ends the submission like a failure.
EnsureTrustline(s) ==
  /\ formPc[s] = "checking"
  /\ (FormGoto(s, "fetching") /\ UNCHANGED outcome) \/ Show(s, "error")
  /\ UNCHANGED <<chain, selected, stored, form, tries, deployed, afloat, doubtful, crossed>>

\* The unsigned transaction is fetched and signed; without one nothing is sent.
FetchAndSign(s) ==
  /\ formPc[s] = "fetching"
  /\ form[s].op # "deploy" => form[s].seen # NoEscrow
  /\ FormGoto(s, "sending")
  /\ UNCHANGED <<chain, selected, stored, form, tries, outcome, deployed, afloat, doubtful,
                 crossed>>

\* What each transaction does to the contract.
TakesEffect(s, late) ==
  LET f == form[s]
  IN  IF f.op = "deploy"
      THEN \E k \in Contracts :
             /\ chain[k] = NotDeployed
             /\ chain' = [chain EXCEPT ![k] = [paid |-> 0, flags |-> {}]]
             /\ deployed' = [deployed EXCEPT ![s] = IF late THEN <<k>> \o @ ELSE Append(@, k)]
      ELSE /\ chain' = [chain EXCEPT ![f.seen.contract] =
                 [paid |-> @.paid + (IF f.op = "fund" THEN 1 ELSE 0),
                  flags |-> @.flags \cup (Flags \cap {f.op})]]
           /\ UNCHANGED deployed

Send(s) ==
  /\ formPc[s] = "sending"
  /\ TakesEffect(s, FALSE)
  /\ FormGoto(s, "sent")
  /\ UNCHANGED <<selected, stored, form, tries, outcome, afloat, doubtful, crossed>>

\* A transaction takes effect whose failure was reported, or whose page is gone.
Land(s) ==
  \E try \in 1..MaxAttempts :
    /\ <<s, try>> \in afloat
    /\ TakesEffect(s, TRUE)
    /\ afloat' = afloat \ {<<s, try>>}
    /\ doubtful' = doubtful \cup {s}
    /\ UNCHANGED <<selected, stored, formPc, form, tries, outcome, crossed>>

\* Variant: what is paid in is added to another field than the balance.
AppliedToAmount(f) == [f.seen EXCEPT !.flags = @ \cup (Flags \cap {f.op})]

\* A transaction the form was told of is applied to the escrow the form was
\* rendered with, not to the one that is selected by now.
Applied(f) ==
  [f.seen EXCEPT !.balance = IF f.op = "fund" THEN Balance(f.seen) + 1 ELSE @,
                 !.flags = @ \cup (Flags \cap {f.op})]

\* The local copy after a transaction: a new escrow is selected, but not
\* persisted; any other change is applied, and persisted.
ApplyLocally(s) ==
  IF form[s].op = "deploy"
  THEN selected' = Fresh(Last(deployed[s])) /\ UNCHANGED stored
  ELSE Update(Applied(form[s]))

\* retryWithBackoff is used for deployments; a failure is retried up to
\* MaxAttempts, unless it is definitive.
CanRetry(s) == form[s].op = "deploy" /\ tries[s] < MaxAttempts

\* Variant: a response without the contract's id is a failure like any other.
SucceedWithId(s) ==
  /\ formPc[s] = "sent"
  /\ \/ Show(s, "success") /\ ApplyLocally(s)
     \/ CanRetry(s) /\ FormGoto(s, "waiting") /\ UNCHANGED <<selected, stored, outcome>>
  /\ UNCHANGED <<chain, form, tries, deployed, afloat, doubtful, crossed>>

Succeed(s) ==
  /\ formPc[s] = "sent"
  /\ Show(s, "success")
  /\ ApplyLocally(s)
  /\ UNCHANGED <<chain, form, tries, deployed, afloat, doubtful, crossed>>

\* Variant: the local copy is changed in the form's finally block.
FailApplied(s) ==
  /\ formPc[s] \in {"fetching", "sending", "sent"}
  /\ form[s].op # "deploy" /\ form[s].seen # NoEscrow
  /\ Show(s, "error")
  /\ ApplyLocally(s)
  /\ UNCHANGED <<chain, form, tries, deployed, afloat, doubtful, crossed>>

\* The attempts whose transaction may be on its way to the contract.
Sent(gone) == {<<s, tries[s]>> : s \in {x \in gone : formPc[x] = "sending"}}

\* A failure at any step, also of the answer to a transaction that took effect.
Fail(s) ==
  /\ formPc[s] \in {"fetching", "sending", "sent"}
  /\ \/ CanRetry(s) /\ FormGoto(s, "waiting") /\ UNCHANGED outcome
     \/ Show(s, "error")
  /\ afloat' = afloat \cup Sent({s})
  /\ doubtful' = doubtful \cup {x \in {s} : formPc[s] = "sent"}
  /\ UNCHANGED <<chain, selected, stored, form, tries, deployed, crossed>>

TryAgain(s) ==
  /\ formPc[s] = "waiting"
  /\ tries' = [tries EXCEPT ![s] = @ + 1]
  /\ FormGoto(s, "fetching")
  /\ UNCHANGED <<chain, selected, stored, form, outcome, deployed, afloat, doubtful, crossed>>

\* The page is loaded anew; what is under way is forgotten, and may have been sent.
Reload ==
  /\ selected' = stored
  /\ formPc' = [s \in Submits |-> IF s \in Underway THEN "done" ELSE formPc[s]]
  /\ outcome' = [s \in Submits |-> IF s \in Underway THEN "lost" ELSE outcome[s]]
  /\ afloat' = afloat \cup Sent(Underway)
  /\ UNCHANGED <<chain, stored, form, tries, deployed, doubtful, crossed>>

ClientStep(s) ==
  \/ \E op \in {"deploy", "fund"} \cup Flags : SubmitForm(s, [op |-> op, seen |-> selected])
  \/ EnsureTrustline(s) \/ FetchAndSign(s) \/ Send(s) \/ Land(s)
  \/ Succeed(s) \/ Fail(s) \/ TryAgain(s)

ClientNext == (\E s \in Submits : ClientStep(s)) \/ Reload

ClientSpec == ClientInit /\ [][ClientNext]_clientVars
-----------------------------------------------------------------------------
(* Properties *)

Known == {selected, stored} \ {NoEscrow}

\* What the browser shows or keeps of an escrow is never ahead of the contract:
\* a milestone flag is set there, and the balance was paid in, unless a
\* deployment was under way together with another form.
LocalCopyIsReal ==
  \A e \in Known :
    /\ e.flags \subseteq chain[e.contract].flags
    /\ (\A s \in crossed : form[s].op # "deploy") => Balance(e) <= chain[e.contract].paid

Done(k, op) == {s \in Submits : /\ outcome[s] = "success" /\ form[s].op = op
                                /\ op # "deploy" /\ form[s].seen.contract = k}

\* While forms are submitted one at a time, the selected escrow shows all that
\* was reported to the user as done to it, also after a reload.
LocalCopyKeepsUp ==
  crossed = {} =>
    \A e \in Known :
      /\ \A f \in Flags : Done(e.contract, f) # {} => f \in e.flags
      /\ Balance(e) = Cardinality(Done(e.contract, "fund"))

\* However forms overlap, fail, take effect late or are forgotten by a reload, a
\* contract was paid all that users were told they paid, and nobody paid twice.
Paying(k) == {s \in Submits : /\ form[s].op = "fund" /\ form[s].seen # NoEscrow
                              /\ form[s].seen.contract = k}

PaymentsAddUp ==
  \A k \in Contracts : chain[k] # NotDeployed =>
    /\ Cardinality(Done(k, "fund")) <= chain[k].paid
    /\ chain[k].paid <= Cardinality(Paying(k))

\* A submission deploys a second contract only if it was told of a failure, or of
\* nothing, by one that took effect; and never more than MaxAttempts.
OneContractUnlessDoubtful ==
  \A s \in Submits :
    /\ Len(deployed[s]) > 1 => s \in doubtful
    /\ Len(deployed[s]) <= MaxAttempts
=============================================================================
