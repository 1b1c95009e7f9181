----------------------------- MODULE ConnectMirror -----------------------------
(***************************************************************************)
(* A seller's connected account: how it is created at Stripe, and the copy *)
(* of it in connect_accounts that decides whether the seller can be paid.  *)
(*                                                                         *)
(* Stripe changes the account on its own and sends account.updated with    *)
(* the account as it was then; the copy is what the last handler to commit *)
(* was told.  A seller may press the button in two tabs, a request may die *)
(* at any step, and the requests run while events are handled.             *)
(***************************************************************************)
EXTENDS Integers, Sequences, FiniteSets

CONSTANTS
  Tabs,         \* requests of the seller, and refreshes by admins
  MaxStages,    \* bound: changes Stripe makes to an account
  MaxWindows,   \* bound: ten-minute windows of the idempotency key
  MaxClicks     \* bound: requests in all

ASSUME ConnectAssumption == {MaxStages, MaxWindows, MaxClicks} \subseteq Nat

VARIABLES
  accounts,     \* Stripe: the states each account of this seller went through
  keys,         \* Stripe: what it answered to each window's key
  row,          \* the connect_accounts row: which account, what it was told
  notices,      \* account.updated events not handled yet
  tab,          \* what each request is doing
  window,       \* the current ten minutes
  clicks,       \* requests so far
  orderly       \* in this behaviour, events are handled in order, none early

connectVars == <<accounts, keys, row, notices, tab, window, clicks, orderly>>

\* What the service reads of Stripe's account.
Account(submitted, due, disabled, payouts) ==
  [submitted |-> submitted, due |-> due, disabled |-> disabled, payouts |-> payouts]

Fresh == Account(FALSE, {"licence"}, FALSE, FALSE)
Submitted == Account(TRUE, {}, FALSE, FALSE)
Verified == Account(TRUE, {}, FALSE, TRUE)
Restricted == Account(TRUE, {"identity"}, TRUE, FALSE)

AccountStates == {Fresh, Submitted, Verified, Restricted}

\* deriveOnboardingStatus.
OnboardingStatus(a) ==
  CASE a.disabled -> "RESTRICTED"
    [] ~ a.disabled /\ a.due # {} -> "IN_PROGRESS"
    [] ~ a.disabled /\ a.due = {} /\ ~ a.submitted -> "NOT_STARTED"
    [] OTHER -> IF a.payouts THEN "COMPLETE" ELSE "PENDING_VERIFICATION"

Refused == -1

NoRow == [account |-> 0, told |-> Fresh, status |-> "NOT_STARTED"]
Row(i, a) == [account |-> i, told |-> a, status |-> OnboardingStatus(a)]

Quiet == [pc |-> "idle", account |-> 0, told |-> Fresh]

ConnectInit ==
  /\ accounts = <<>>
  /\ keys = [w \in 0..MaxWindows |-> 0]
  /\ row = NoRow
  /\ notices = {}
  /\ tab = [t \in Tabs |-> Quiet]
  /\ window = 0
  /\ clicks = 0
  /\ orderly \in BOOLEAN

Current(i) == accounts[i][Len(accounts[i])]

\* The account changes, and a notice carries it as it is now.
Changes(i, a) ==
  /\ Len(accounts[i]) <= MaxStages
  /\ accounts' = [accounts EXCEPT ![i] = Append(@, a)]
  /\ notices' = notices \cup {[account |-> i, at |-> Len(accounts[i]) + 1, told |-> a]}
-------------------------------------------------------------------------------
(***************************************************************************)
(* Stripe.                                                                 *)
(***************************************************************************)
StripeChanges(i) ==
  /\ \E a \in AccountStates \ {Fresh, Current(i)} : Changes(i, a)
  /\ UNCHANGED <<keys, row, tab, window, clicks, orderly>>

TenMinutesPass ==
  /\ window < MaxWindows
  /\ window' = window + 1
  /\ UNCHANGED <<accounts, keys, row, notices, tab, clicks, orderly>>
-------------------------------------------------------------------------------
(***************************************************************************)
(* Creating the account.                                                   *)
(***************************************************************************)
Clicks(t, new) ==
  /\ tab[t].pc = "idle"
  /\ clicks < MaxClicks
  /\ clicks' = clicks + 1
  /\ tab' = [tab EXCEPT ![t] = new]

Done(t) == tab' = [tab EXCEPT ![t] = Quiet]

\* createConnectedAccount: with a row there is nothing to do.
CreateRead(t) ==
  /\ row = NoRow
  /\ Clicks(t, [Quiet EXCEPT !.pc = "create"])
  /\ UNCHANGED <<accounts, keys, row, notices, window, orderly>>

\* Stripe answers a window's key as it did the first time, with the account as
\* it was then, or with the same refusal; a refusal is thrown.
CreateAsk(t) ==
  /\ tab[t].pc = "create"
  /\ \/ /\ keys[window] > 0
        /\ tab' = [tab EXCEPT ![t] = [pc |-> "record", account |-> keys[window], told |-> Fresh]]
        /\ UNCHANGED <<accounts, keys>>
     \/ /\ keys[window] = 0
        /\ accounts' = Append(accounts, <<Fresh>>)
        /\ keys' = [keys EXCEPT ![window] = Len(accounts) + 1]
        /\ tab' = [tab EXCEPT ![t] = [pc |-> "record", account |-> Len(accounts) + 1, told |-> Fresh]]
     \/ /\ keys[window] <= 0
        /\ keys' \in {keys, [keys EXCEPT ![window] = Refused]}
        /\ Done(t)
        /\ UNCHANGED accounts
  /\ UNCHANGED <<row, notices, window, clicks, orderly>>

\* The row of a seller is unique: the second insert throws.
CreateRecord(t) ==
  /\ tab[t].pc = "record"
  /\ IF row = NoRow
     THEN /\ row' = Row(tab[t].account, tab[t].told)
          /\ tab' = [tab EXCEPT ![t].pc = "licence"]
     ELSE Done(t) /\ UNCHANGED row
  /\ UNCHANGED <<accounts, keys, notices, window, clicks, orderly>>
-------------------------------------------------------------------------------
(***************************************************************************)
(* Keeping the copy.                                                       *)
(***************************************************************************)
\* syncConnectAccount: the copy becomes what the caller was told, when the
\* account is the one of the row.
\* *Mutant*: news of a seller who was ready is not taken.
SyncedUnlessReady(i, a) == row' = IF row.account = i /\ ~ row.told.payouts THEN Row(i, a) ELSE row

Synced(i, a) == row' = IF row.account = i THEN Row(i, a) ELSE row

\* An orderly delivery: the row is there, and no earlier notice is left.
InOrder(n) ==
  orderly => row # NoRow /\ \A m \in notices : m.account = n.account => n.at <= m.at

AccountUpdated(n) ==
  /\ n \in notices
  /\ InOrder(n)
  /\ Synced(n.account, n.told)
  /\ notices' = notices \ {n}
  /\ UNCHANGED <<accounts, keys, tab, window, clicks, orderly>>

\* createAccountLink and refreshConnectAccount: the live account is retrieved,
\* then synced; the link hands in the licence Stripe still asked for.
Retrieve(t) ==
  /\ ~ orderly
  /\ row # NoRow
  /\ Clicks(t, [pc |-> "sync", account |-> row.account, told |-> Current(row.account)])
  /\ UNCHANGED <<accounts, keys, row, notices, window, orderly>>

Sync(t) ==
  /\ tab[t].pc = "sync"
  /\ Synced(tab[t].account, tab[t].told)
  /\ \/ tab' = [tab EXCEPT ![t].pc = "licence"]
     \/ Done(t)
  /\ UNCHANGED <<accounts, keys, notices, window, clicks, orderly>>

\* ensureTradeLicense never throws: without a licence, or when handing it in
\* fails, nothing happens.
HandLicence(t) ==
  LET i == tab[t].account
  IN /\ tab[t].pc = "licence"
     /\ \/ UNCHANGED <<accounts, notices>>
        \/ /\ "licence" \in tab[t].told.due
           /\ Current(i) = Fresh
           /\ Changes(i, Submitted)
     /\ Done(t)
     /\ UNCHANGED <<keys, row, window, clicks, orderly>>

TabDies(t) ==
  /\ tab[t].pc # "idle"
  /\ Done(t)
  /\ UNCHANGED <<accounts, keys, row, notices, window, clicks, orderly>>

\* isPayoutReady, by the copy; and by the account itself, as Stripe decides it.
PayoutReady == row # NoRow /\ row.told.payouts
ReadyAtStripe == row # NoRow /\ Current(row.account).payouts
===============================================================================
