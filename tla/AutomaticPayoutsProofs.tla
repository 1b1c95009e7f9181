------------------------ MODULE AutomaticPayoutsProofs ------------------------
(***************************************************************************)
(* For any number of tabs, settlements, workers and passes: the copy of    *)
(* the account names an account that exists, and what Stripe tells of it   *)
(* was so; a transfer job is active exactly while one worker holds it, and *)
(* has failed only when its attempts are used up or it stalled twice; and  *)
(* while the flag is off no worker sends a transfer, whatever was queued   *)
(* before a restart turned it off.                                         *)
(***************************************************************************)
EXTENDS AutomaticPayouts, SequenceTheorems, TLAPS

USE DEF connectVars, jobVars, payoutVars, reconciliationVars

-------------------------------------------------------------------------------
(***************************************************************************)
(* The invariant.                                                          *)
(***************************************************************************)
\* Every account has a history, which Stripe only adds to.
Histories == Seq(AccountStates)
AccountsOK == accounts \in Seq(Histories) /\ \A i \in 1..Len(accounts) : Len(accounts[i]) > 0

Known(i) == i \in 1..Len(accounts)

\* What was told of an account is a state it went through.
True(n) ==
  /\ Known(n.account)
  /\ n.at \in 1..Len(accounts[n.account])
  /\ accounts[n.account][n.at] = n.told

TabPCs == {"idle", "create", "record", "sync", "licence"}
TabsOK ==
  /\ tab \in [Tabs -> [pc : TabPCs, account : Nat, told : AccountStates]]
  /\ \A t \in Tabs : tab[t].pc \in {"record", "sync", "licence"} => Known(tab[t].account)

KeysOK ==
  /\ window \in 0..MaxWindows
  /\ keys \in [0..MaxWindows -> Int]
  /\ \A w \in 0..MaxWindows : keys[w] > 0 => Known(keys[w])

RowOK == row # NoRow => Known(row.account)
NoticesOK == \A n \in notices : True(n)

CopyInv == AccountsOK /\ TabsOK /\ KeysOK /\ RowOK /\ NoticesOK

\* A job is active while exactly one worker holds its settlement, and failed
\* when its attempts are used up or it has lost its worker twice.
WorkerPCs == {"idle", "read", "ready", "claim", "send", "sent", "refused"}
SettlementStatuses ==
  {"ON_HOLD", "ELIGIBLE", "TRANSFER_PENDING", "TRANSFERRED", "TRANSFER_FAILED"}
JobStates == {"none", "waiting", "active", "completed", "failed"}

JobTypes ==
  /\ status \in [Settlements -> SettlementStatuses]
  /\ job \in [Kinds -> [Settlements -> JobStates]]
  /\ attempts \in [Settlements -> 0..MaxAttempts]
  /\ worker \in [Callers -> [pc : WorkerPCs, s : Settlements \cup {"none"}]]

Held(s) == \E w \in Workers : worker[w].s = s

JobShape(s) ==
  /\ attempts[s] = MaxAttempts => job["transfer"][s] = "failed"
  /\ job["transfer"][s] = "failed" => attempts[s] = MaxAttempts \/ s \in stalled
  /\ job["transfer"][s] = "active" <=> Held(s)

JobInv ==
  /\ JobTypes
  /\ \A w \in Callers : worker[w].pc = "idle" <=> worker[w].s = "none"
  /\ \A v, w \in Workers : worker[v].s = worker[w].s => v = w \/ worker[v].s = "none"
  /\ \A s \in Settlements : JobShape(s)

\* A worker past the gate works in a process that was started with the flag on.
FlagInv == \A w \in Workers : worker[w].pc \in {"ready", "claim", "send"} => envOn

ExceptionStatuses == {"none", "OPEN", "ACKNOWLEDGED", "RESOLVED", "IGNORED"}
PassInv ==
  /\ exception \in [R!ExceptionKinds -> ExceptionStatuses]
  /\ pass \in [Passes -> [at : 0..6, read : ExceptionStatuses \cup {"unread", "agreed", "raised"}]]

IInv == CopyInv /\ JobInv /\ FlagInv /\ PassInv
-------------------------------------------------------------------------------
(***************************************************************************)
(* The copy of the account.                                                *)
(***************************************************************************)
LEMMA StatesOfAccounts ==
  /\ {Fresh, Submitted, Verified} \subseteq AccountStates
  /\ Quiet.pc = "idle" /\ Quiet.account = 0 /\ Quiet.told = Fresh
  /\ Quiet = [pc |-> "idle", account |-> 0, told |-> Fresh]
BY DEF AccountStates, Quiet

\* Nothing that was so of an account stops being so.
Longer ==
  /\ Len(accounts) <= Len(accounts')
  /\ \A i \in 1..Len(accounts) :
       /\ Len(accounts[i]) <= Len(accounts'[i])
       /\ \A n \in 1..Len(accounts[i]) : accounts'[i][n] = accounts[i][n]

LEMMA LongerKeeps ==
  ASSUME AccountsOK, AccountsOK', Longer
  PROVE  /\ \A i : Known(i) => Known(i)'
         /\ \A n : True(n) => True(n)'
<1>1. Len(accounts) \in Nat /\ Len(accounts') \in Nat
  BY LenProperties DEF AccountsOK
<1>2. ASSUME NEW i, Known(i)
      PROVE  /\ Known(i)'
             /\ Len(accounts[i]) \in Nat /\ Len(accounts'[i]) \in Nat
             /\ Len(accounts[i]) <= Len(accounts'[i])
  <2>1. i \in 1..Len(accounts) /\ i \in 1..Len(accounts')
    BY <1>1, <1>2 DEF Known, Longer
  <2>2. accounts[i] \in Histories /\ accounts'[i] \in Histories
    BY <2>1, ElementOfSeq DEF AccountsOK
  <2>3. Len(accounts[i]) \in Nat /\ Len(accounts'[i]) \in Nat
    BY <2>2, LenProperties DEF Histories
  <2>4. QED BY <2>1, <2>3 DEF Known, Longer
<1>3. ASSUME NEW n, True(n)
      PROVE  True(n)'
  <2>1. Known(n.account)' /\ n.at \in 1..Len(accounts'[n.account])
    BY <1>2, <1>3 DEF True
  <2>2. accounts'[n.account][n.at] = accounts[n.account][n.at]
    BY <1>3 DEF True, Known, Longer
  <2>3. QED BY <1>3, <2>1, <2>2 DEF True
<1>4. QED BY <1>2, <1>3

LEMMA CurrentIsState ==
  ASSUME AccountsOK, NEW i, Known(i)
  PROVE  Current(i) \in AccountStates /\ i \in Nat
<1>1. accounts[i] \in Seq(AccountStates)
  BY ElementOfSeq DEF AccountsOK, Known, Histories
<1>2. Len(accounts[i]) \in Nat /\ Len(accounts[i]) > 0
  BY <1>1, LenProperties DEF AccountsOK, Known
<1>3. Len(accounts[i]) \in 1..Len(accounts[i])
  BY <1>2
<1>4. accounts[i][Len(accounts[i])] \in AccountStates
  BY <1>1, <1>3, ElementOfSeq
<1>5. Len(accounts) \in Nat
  BY LenProperties DEF AccountsOK
<1>6. QED BY <1>4, <1>5 DEF Current, Known

\* A change of an account adds to its history, and its notice is true.
LEMMA ChangeGrows ==
  ASSUME AccountsOK, NEW i, Known(i), NEW a \in AccountStates, Changes(i, a)
  PROVE  /\ AccountsOK' /\ Longer
         /\ \A n \in notices' : n \in notices \/ True(n)'
<1> DEFINE h == Append(accounts[i], a)
<1>1. i \in 1..Len(accounts) /\ accounts[i] \in Seq(AccountStates) /\ Len(accounts) \in Nat
  BY ElementOfSeq, LenProperties DEF AccountsOK, Known, Histories
<1>2. /\ h \in Seq(AccountStates) /\ Len(h) = Len(accounts[i]) + 1
      /\ \A n \in 1..Len(accounts[i]) : h[n] = accounts[i][n]
      /\ h[Len(accounts[i]) + 1] = a
  BY <1>1, AppendProperties
<1>3. Len(accounts[i]) \in Nat
  BY <1>1, LenProperties
<1>4. accounts' = [accounts EXCEPT ![i] = h]
  BY DEF Changes
<1> HIDE DEF h
<1>5. /\ accounts' \in Seq(Histories) /\ Len(accounts') = Len(accounts)
      /\ \A j \in 1..Len(accounts) : accounts'[j] = IF j = i THEN h ELSE accounts[j]
  BY <1>1, <1>2, <1>4, ExceptSeq DEF AccountsOK, Histories
<1>6. AccountsOK'
  BY <1>2, <1>3, <1>5 DEF AccountsOK
<1>7. \A j \in 1..Len(accounts) : Len(accounts[j]) \in Nat
  BY ElementOfSeq, LenProperties DEF AccountsOK, Histories
<1>8. Longer
  BY <1>1, <1>2, <1>3, <1>5, <1>7 DEF Longer
<1>9. ASSUME NEW n, n = [account |-> i, at |-> Len(accounts[i]) + 1, told |-> a]
      PROVE  True(n)'
  BY <1>9, <1>1, <1>2, <1>3, <1>5 DEF True, Known
<1>10. notices' = notices \cup {[account |-> i, at |-> Len(accounts[i]) + 1, told |-> a]}
  BY DEF Changes
<1>11. QED BY <1>6, <1>8, <1>9, <1>10

\* A new account starts its history.
LEMMA CreationGrows ==
  ASSUME AccountsOK, accounts' = Append(accounts, <<Fresh>>)
  PROVE  AccountsOK' /\ Longer /\ Len(accounts) \in Nat
         /\ \A i : i = Len(accounts) + 1 => Known(i)'
<1>1. <<Fresh>> \in Histories /\ Len(<<Fresh>>) = 1
  <2>1. Fresh \in AccountStates
    BY StatesOfAccounts
  <2>2. \A a \in AccountStates : <<a>> \in Seq(AccountStates) /\ Len(<<a>>) = 1
    OBVIOUS
  <2>3. QED BY <2>1, <2>2 DEF Histories
<1>2. /\ accounts' \in Seq(Histories) /\ Len(accounts') = Len(accounts) + 1
      /\ \A i \in 1..Len(accounts) : accounts'[i] = accounts[i]
      /\ accounts'[Len(accounts) + 1] = <<Fresh>>
  <2>1. accounts \in Seq(Histories)
    BY DEF AccountsOK
  <2>2. /\ Append(accounts, <<Fresh>>) \in Seq(Histories)
        /\ Len(Append(accounts, <<Fresh>>)) = Len(accounts) + 1
        /\ \A i \in 1..Len(accounts) : Append(accounts, <<Fresh>>)[i] = accounts[i]
        /\ Append(accounts, <<Fresh>>)[Len(accounts) + 1] = <<Fresh>>
    BY <1>1, <2>1, AppendProperties
  <2>3. QED BY <2>2
<1>3. Len(accounts) \in Nat
  BY LenProperties DEF AccountsOK
<1>4. AccountsOK'
  BY <1>1, <1>2, <1>3 DEF AccountsOK
<1>5. \A j \in 1..Len(accounts) : Len(accounts[j]) \in Nat
  BY ElementOfSeq, LenProperties DEF AccountsOK, Histories
<1>6. Longer
  BY <1>2, <1>3, <1>5 DEF Longer
<1>7. QED BY <1>2, <1>3, <1>4, <1>6 DEF Known

LEMMA SameAccounts ==
  ASSUME AccountsOK, UNCHANGED accounts
  PROVE  AccountsOK' /\ Longer
<1>1. \A j \in 1..Len(accounts) : Len(accounts[j]) \in Nat
  BY ElementOfSeq, LenProperties DEF AccountsOK, Histories
<1>2. Len(accounts) \in Nat
  BY LenProperties DEF AccountsOK
<1>3. AccountsOK'
  BY DEF AccountsOK
<1>4. Longer
  BY <1>1, <1>2 DEF Longer
<1>5. QED BY <1>3, <1>4

\* What is known stays known: only what a step writes has to be looked at.
LEMMA CopySteps ==
  ASSUME CopyInv, AccountsOK', Longer,
         UNCHANGED <<window, keys>> \/ KeysOK',
         UNCHANGED tab \/ TabsOK',
         UNCHANGED row \/ RowOK',
         \A n \in notices' : n \in notices \/ True(n)'
  PROVE  CopyInv'
<1>1. /\ \A i : Known(i) => Known(i)'
      /\ \A n : True(n) => True(n)'
  BY LongerKeeps DEF CopyInv
<1>2. KeysOK'
  BY <1>1 DEF CopyInv, KeysOK
<1>3. TabsOK'
  BY <1>1 DEF CopyInv, TabsOK
<1>4. RowOK'
  <2>1. CASE UNCHANGED row
    <3>1. row # NoRow => Known(row.account)
      BY DEF CopyInv, RowOK
    <3>2. \A i : i = row.account /\ Known(i) => row'.account \in 1..Len(accounts')
      BY <1>1, <2>1 DEF Known
    <3>3. QED BY <2>1, <3>1, <3>2 DEF RowOK, Known, NoRow
  <2>2. QED BY <2>1
<1>5. NoticesOK'
  BY <1>1 DEF CopyInv, NoticesOK
<1>6. QED BY <1>2, <1>3, <1>4, <1>5 DEF CopyInv

\* A request that ends, or goes on about an account it knows.
LEMMA TabMoves ==
  ASSUME TabsOK, AccountsOK', Longer, AccountsOK, NEW t \in Tabs, NEW r,
         r \in [pc : TabPCs, account : Nat, told : AccountStates],
         tab' = [tab EXCEPT ![t] = r],
         r.pc \in {"record", "sync", "licence"} => Known(r.account)'
  PROVE  TabsOK'
<1>1. tab' \in [Tabs -> [pc : TabPCs, account : Nat, told : AccountStates]]
  BY DEF TabsOK
<1>2. ASSUME NEW u \in Tabs, tab'[u].pc \in {"record", "sync", "licence"}
      PROVE  tab'[u].account \in 1..Len(accounts')
  <2>1. CASE u = t
    BY <1>2, <2>1 DEF TabsOK, Known
  <2>2. CASE u # t
    <3>1. tab'[u] = tab[u]
      BY <2>2 DEF TabsOK
    <3>2. Known(tab[u].account)
      BY <1>2, <3>1 DEF TabsOK
    <3>3. Len(accounts) \in Nat /\ Len(accounts') \in Nat
      BY LenProperties DEF AccountsOK
    <3>4. QED BY <3>1, <3>2, <3>3 DEF Known, Longer
  <2>3. QED BY <2>1, <2>2
<1>3. QED BY <1>1, <1>2 DEF TabsOK, Known

\* A copy is only written of the account it is a copy of.
LEMMA SyncedIsKnown ==
  ASSUME RowOK, NEW i, NEW a, Synced(i, a), Known(i)', AccountsOK, AccountsOK', Longer
  PROVE  RowOK'
<1>1. CASE row.account = i
  <2>1. row'.account = i
    BY <1>1 DEF Synced, Row
  <2>2. QED BY <2>1 DEF RowOK, Known
<1>2. CASE row.account # i
  <2>1. row' = row
    BY <1>2 DEF Synced
  <2>2. Len(accounts) \in Nat /\ Len(accounts') \in Nat
    BY LenProperties DEF AccountsOK
  <2>3. QED BY <2>1, <2>2 DEF RowOK, Known, Longer, NoRow
<1>3. QED BY <1>1, <1>2

\* A request that is over knows nothing.
LEMMA DoneKeeps ==
  ASSUME CopyInv, AccountsOK', Longer, NEW t \in Tabs, Done(t)
  PROVE  TabsOK'
<1>1. Quiet \in [pc : TabPCs, account : Nat, told : AccountStates]
  BY StatesOfAccounts DEF TabPCs
<1>2. tab' = [tab EXCEPT ![t] = Quiet]
  BY DEF Done
<1>3. Quiet.pc \notin {"record", "sync", "licence"}
  BY StatesOfAccounts
<1>4. PICK r : r = Quiet
  OBVIOUS
<1>5. QED BY <1>1, <1>2, <1>3, <1>4, TabMoves DEF CopyInv

\* Stripe changes accounts, time passes.
LEMMA StripeKeepsCopy ==
  ASSUME CopyInv, (\E i \in DOMAIN accounts : StripeChanges(i)) \/ TenMinutesPass
  PROVE  CopyInv'
<1>1. ASSUME NEW i \in DOMAIN accounts, StripeChanges(i)
      PROVE  CopyInv'
  <2>1. Known(i)
    BY LenProperties DEF CopyInv, AccountsOK, Known
  <2>2. PICK a \in AccountStates : Changes(i, a)
    BY <1>1 DEF StripeChanges
  <2>3. /\ AccountsOK' /\ Longer
        /\ \A n \in notices' : n \in notices \/ True(n)'
    BY <2>1, <2>2, ChangeGrows DEF CopyInv
  <2>4. UNCHANGED <<window, keys>> /\ UNCHANGED tab /\ UNCHANGED row
    BY <1>1 DEF StripeChanges
  <2>5. QED BY <2>3, <2>4, CopySteps
<1>2. CASE TenMinutesPass
  <2>1. AccountsOK' /\ Longer
    BY <1>2, SameAccounts DEF TenMinutesPass, CopyInv
  <2>2. KeysOK'
    BY <1>2, ConnectAssumption DEF TenMinutesPass, CopyInv, KeysOK, Known
  <2>3. UNCHANGED tab /\ UNCHANGED row /\ UNCHANGED notices
    BY <1>2 DEF TenMinutesPass
  <2>4. QED BY <2>1, <2>2, <2>3, CopySteps
<1>3. QED BY <1>1, <1>2

\* A seller's request creates the account and records it.
LEMMA CreationKeepsCopy ==
  ASSUME CopyInv, NEW t \in Tabs, CreateRead(t) \/ CreateAsk(t) \/ CreateRecord(t)
  PROVE  CopyInv'
<1>1. Len(accounts) \in Nat
  BY LenProperties DEF CopyInv, AccountsOK
<1>2. /\ tab[t] \in [pc : TabPCs, account : Nat, told : AccountStates]
      /\ Fresh \in AccountStates
  BY StatesOfAccounts DEF CopyInv, TabsOK
<1>3. CASE CreateRead(t)
  <2>1. AccountsOK' /\ Longer
    BY <1>3, SameAccounts DEF CreateRead, CopyInv
  <2>2. TabsOK'
    <3>1. PICK r : r = [Quiet EXCEPT !.pc = "create"]
      OBVIOUS
    <3>2. r = [pc |-> "create", account |-> 0, told |-> Fresh]
      BY <3>1, StatesOfAccounts
    <3>3. tab' = [tab EXCEPT ![t] = r]
      BY <1>3, <3>1 DEF CreateRead, Clicks
    <3>4. /\ r \in [pc : TabPCs, account : Nat, told : AccountStates]
          /\ r.pc = "create"
      BY <1>2, <3>2 DEF TabPCs
    <3>5. QED BY <2>1, <3>3, <3>4, TabMoves DEF CopyInv
  <2>3. UNCHANGED <<window, keys>> /\ UNCHANGED row /\ UNCHANGED notices
    BY <1>3 DEF CreateRead
  <2>4. QED BY <2>1, <2>2, <2>3, CopySteps
<1>4. CASE CreateAsk(t)
  <2>1. UNCHANGED window /\ UNCHANGED row /\ UNCHANGED notices
    BY <1>4 DEF CreateAsk
  <2>2. window \in 0..MaxWindows /\ keys \in [0..MaxWindows -> Int]
    BY DEF CopyInv, KeysOK
  <2>3. CASE /\ keys[window] > 0
             /\ tab' = [tab EXCEPT ![t] = [pc |-> "record", account |-> keys[window], told |-> Fresh]]
             /\ UNCHANGED <<accounts, keys>>
    <3>1. AccountsOK' /\ Longer
      BY <2>3, SameAccounts DEF CopyInv
    <3>2. PICK r : r = [pc |-> "record", account |-> keys[window], told |-> Fresh]
      OBVIOUS
    <3>3. r \in [pc : TabPCs, account : Nat, told : AccountStates]
      BY <1>2, <2>2, <2>3, <3>2 DEF TabPCs
    <3>4. Known(r.account)'
      BY <2>2, <2>3, <3>2 DEF CopyInv, KeysOK, Known
    <3>5. TabsOK'
      BY <2>3, <3>1, <3>2, <3>3, <3>4, TabMoves DEF CopyInv
    <3>6. QED BY <2>1, <2>3, <3>1, <3>5, CopySteps
  <2>4. CASE /\ keys[window] = 0
             /\ accounts' = Append(accounts, <<Fresh>>)
             /\ keys' = [keys EXCEPT ![window] = Len(accounts) + 1]
             /\ tab' = [tab EXCEPT ![t] = [pc |-> "record", account |-> Len(accounts) + 1,
                                           told |-> Fresh]]
    <3>1. AccountsOK' /\ Longer /\ \A i : i = Len(accounts) + 1 => Known(i)'
      BY <2>4, CreationGrows DEF CopyInv
    <3>2. PICK r : r = [pc |-> "record", account |-> Len(accounts) + 1, told |-> Fresh]
      OBVIOUS
    <3>3. r \in [pc : TabPCs, account : Nat, told : AccountStates]
      BY <1>1, <1>2, <3>2 DEF TabPCs
    <3>4. Known(r.account)'
      BY <3>1, <3>2
    <3>5. TabsOK'
      BY <2>4, <3>1, <3>2, <3>3, <3>4, TabMoves DEF CopyInv
    <3>6. KeysOK'
      <4>1. keys' \in [0..MaxWindows -> Int]
        BY <1>1, <2>2, <2>4
      <4>2. \A i : Known(i) => Known(i)'
        BY <3>1, LongerKeeps DEF CopyInv
      <4>3. ASSUME NEW w \in 0..MaxWindows, keys'[w] > 0
            PROVE  keys'[w] \in 1..Len(accounts')
        <5>1. CASE w = window
          BY <2>2, <2>4, <3>1, <5>1 DEF Known
        <5>2. CASE w # window
          <6>1. keys'[w] = keys[w]
            BY <2>2, <2>4, <5>2
          <6>2. Known(keys[w])
            BY <4>3, <6>1 DEF CopyInv, KeysOK
          <6>3. Len(accounts') \in Nat
            BY <3>1, LenProperties DEF AccountsOK
          <6>4. QED BY <1>1, <3>1, <6>1, <6>2, <6>3 DEF Known, Longer
        <5>3. QED BY <5>1, <5>2
      <4>4. QED BY <2>1, <2>2, <4>1, <4>3 DEF KeysOK, Known
    <3>7. QED BY <2>1, <3>1, <3>5, <3>6, CopySteps
  <2>5. CASE /\ keys[window] <= 0
             /\ keys' \in {keys, [keys EXCEPT ![window] = Refused]}
             /\ Done(t)
             /\ UNCHANGED accounts
    <3>1. AccountsOK' /\ Longer
      BY <2>5, SameAccounts DEF CopyInv
    <3>2. TabsOK'
      BY <2>5, <3>1, DoneKeeps
    <3>3. /\ keys' \in [0..MaxWindows -> Int]
          /\ \A w \in 0..MaxWindows : keys'[w] > 0 => keys'[w] = keys[w]
      <4>1. CASE keys' = keys
        BY <2>2, <4>1
      <4>2. CASE keys' = [keys EXCEPT ![window] = Refused]
        BY <2>2, <4>2 DEF Refused
      <4>3. QED BY <2>5, <4>1, <4>2
    <3>4. KeysOK'
      BY <2>1, <2>2, <2>5, <3>3 DEF CopyInv, KeysOK, Known
    <3>5. QED BY <2>1, <3>1, <3>2, <3>4, CopySteps
  <2>6. QED BY <1>4, <2>3, <2>4, <2>5 DEF CreateAsk
<1>5. CASE CreateRecord(t)
  <2>1. AccountsOK' /\ Longer
    BY <1>5, SameAccounts DEF CreateRecord, CopyInv
  <2>2. UNCHANGED <<accounts, window, keys>> /\ UNCHANGED notices
    BY <1>5 DEF CreateRecord
  <2>3. Known(tab[t].account)
    BY <1>5 DEF CreateRecord, CopyInv, TabsOK
  <2>4. CASE row = NoRow
    <3>1. PICK r : r = [tab[t] EXCEPT !.pc = "licence"]
      OBVIOUS
    <3>2. r = [pc |-> "licence", account |-> tab[t].account, told |-> tab[t].told]
      BY <1>2, <3>1
    <3>3. r \in [pc : TabPCs, account : Nat, told : AccountStates]
      BY <1>2, <3>2 DEF TabPCs
    <3>4. Known(r.account)'
      BY <2>2, <2>3, <3>2 DEF Known
    <3>5. tab' = [tab EXCEPT ![t] = r]
      BY <1>5, <2>4, <3>1 DEF CreateRecord
    <3>6. TabsOK'
      BY <2>1, <3>3, <3>4, <3>5, TabMoves DEF CopyInv
    <3>7. RowOK'
      BY <1>5, <2>2, <2>3, <2>4 DEF CreateRecord, RowOK, Row, Known
    <3>8. QED BY <2>1, <2>2, <3>6, <3>7, CopySteps
  <2>5. CASE row # NoRow
    <3>1. Done(t) /\ UNCHANGED row
      BY <1>5, <2>5 DEF CreateRecord
    <3>2. TabsOK'
      BY <2>1, <3>1, DoneKeeps
    <3>3. QED BY <2>1, <2>2, <3>1, <3>2, CopySteps
  <2>6. QED BY <2>4, <2>5
<1>6. QED BY <1>3, <1>4, <1>5

\* Events and refreshes keep the copy.
LEMMA SyncKeepsCopy ==
  ASSUME CopyInv,
         \/ \E n \in notices : AccountUpdated(n)
         \/ \E t \in Tabs : Retrieve(t) \/ Sync(t)
  PROVE  CopyInv'
<1>1. UNCHANGED <<accounts, window, keys>>
  BY DEF AccountUpdated, Retrieve, Sync
<1>2. AccountsOK' /\ Longer
  BY <1>1, SameAccounts DEF CopyInv
<1>3. ASSUME NEW n \in notices, AccountUpdated(n)
      PROVE  CopyInv'
  <2>1. PICK i : i = n.account
    OBVIOUS
  <2>2. PICK a : a = n.told
    OBVIOUS
  <2>3. Synced(i, a) /\ Known(i)'
    BY <1>1, <1>3, <2>1, <2>2 DEF AccountUpdated, CopyInv, NoticesOK, True, Known
  <2>4. RowOK'
    BY <1>2, <2>3, SyncedIsKnown DEF CopyInv
  <2>5. UNCHANGED tab /\ notices' \subseteq notices
    BY <1>3 DEF AccountUpdated
  <2>6. QED BY <1>1, <1>2, <2>4, <2>5, CopySteps
<1>4. ASSUME NEW t \in Tabs, Retrieve(t)
      PROVE  CopyInv'
  <2>1. PICK r : r = [pc |-> "sync", account |-> row.account, told |-> Current(row.account)]
    OBVIOUS
  <2>2. Known(row.account)
    BY <1>4 DEF Retrieve, CopyInv, RowOK
  <2>3. Current(row.account) \in AccountStates /\ row.account \in Nat
    <3>1. PICK i : i = row.account
      OBVIOUS
    <3>2. QED BY <2>2, <3>1, CurrentIsState DEF CopyInv
  <2>4. r \in [pc : TabPCs, account : Nat, told : AccountStates]
    BY <2>1, <2>3 DEF TabPCs
  <2>5. Known(r.account)'
    BY <1>1, <2>1, <2>2 DEF Known
  <2>6. tab' = [tab EXCEPT ![t] = r]
    BY <1>4, <2>1 DEF Retrieve, Clicks
  <2>7. TabsOK'
    BY <1>2, <2>4, <2>5, <2>6, TabMoves DEF CopyInv
  <2>8. UNCHANGED row /\ UNCHANGED notices
    BY <1>4 DEF Retrieve
  <2>9. QED BY <1>1, <1>2, <2>7, <2>8, CopySteps
<1>5. ASSUME NEW t \in Tabs, Sync(t)
      PROVE  CopyInv'
  <2>1. tab[t] \in [pc : TabPCs, account : Nat, told : AccountStates] /\ Known(tab[t].account)
    BY <1>5 DEF Sync, CopyInv, TabsOK
  <2>2. RowOK'
    <3>1. PICK i : i = tab[t].account
      OBVIOUS
    <3>2. PICK a : a = tab[t].told
      OBVIOUS
    <3>3. Synced(i, a) /\ Known(i)'
      BY <1>1, <1>5, <2>1, <3>1, <3>2 DEF Sync, Known
    <3>4. QED BY <1>2, <3>3, SyncedIsKnown DEF CopyInv
  <2>3. CASE Done(t)
    <3>1. TabsOK'
      BY <1>2, <2>3, DoneKeeps
    <3>2. QED BY <1>1, <1>2, <1>5, <2>2, <3>1, CopySteps DEF Sync
  <2>4. CASE tab' = [tab EXCEPT ![t].pc = "licence"]
    <3>1. PICK r : r = [tab[t] EXCEPT !.pc = "licence"]
      OBVIOUS
    <3>2. r = [pc |-> "licence", account |-> tab[t].account, told |-> tab[t].told]
      BY <2>1, <3>1
    <3>3. r \in [pc : TabPCs, account : Nat, told : AccountStates]
      BY <2>1, <3>2 DEF TabPCs
    <3>4. Known(r.account)'
      BY <1>1, <2>1, <3>2 DEF Known
    <3>5. tab' = [tab EXCEPT ![t] = r]
      BY <2>4, <3>1
    <3>6. TabsOK'
      BY <1>2, <3>3, <3>4, <3>5, TabMoves DEF CopyInv
    <3>7. QED BY <1>1, <1>2, <1>5, <2>2, <3>6, CopySteps DEF Sync
  <2>5. QED BY <1>5, <2>3, <2>4 DEF Sync
<1>6. QED BY <1>3, <1>4, <1>5

\* A request hands in the licence, or dies.
LEMMA RequestEndsKeepsCopy ==
  ASSUME CopyInv, NEW t \in Tabs, HandLicence(t) \/ TabDies(t)
  PROVE  CopyInv'
<1>1. Done(t) /\ UNCHANGED <<window, keys>> /\ UNCHANGED row
  BY DEF HandLicence, TabDies
<1>2. CASE UNCHANGED <<accounts, notices>>
  <2>1. AccountsOK' /\ Longer
    BY <1>2, SameAccounts DEF CopyInv
  <2>2. TabsOK'
    BY <1>1, <2>1, DoneKeeps
  <2>3. QED BY <1>1, <1>2, <2>1, <2>2, CopySteps
<1>3. CASE HandLicence(t) /\ Changes(tab[t].account, Submitted)
  <2>1. PICK i : i = tab[t].account
    OBVIOUS
  <2>2. Known(i) /\ Changes(i, Submitted) /\ Submitted \in AccountStates
    BY <1>3, <2>1, StatesOfAccounts DEF HandLicence, CopyInv, TabsOK
  <2>3. /\ AccountsOK' /\ Longer
        /\ \A n \in notices' : n \in notices \/ True(n)'
    BY <2>2, ChangeGrows DEF CopyInv
  <2>4. TabsOK'
    BY <1>1, <2>3, DoneKeeps
  <2>5. QED BY <1>1, <2>3, <2>4, CopySteps
<1>4. QED BY <1>2, <1>3 DEF HandLicence, TabDies

LEMMA CopySame ==
  ASSUME CopyInv, UNCHANGED connectVars
  PROVE  CopyInv'
<1>1. AccountsOK' /\ Longer
  BY SameAccounts DEF CopyInv
<1>2. QED BY <1>1, CopySteps

LEMMA CopyInit ==
  ASSUME ConnectInit \/ Onboarded
  PROVE  CopyInv
<1>1. /\ {Fresh, Verified} \subseteq AccountStates
      /\ Quiet.pc = "idle" /\ Quiet = [pc |-> "idle", account |-> 0, told |-> Fresh]
  BY StatesOfAccounts
<1>2. 0 \in 0..MaxWindows
  BY ConnectAssumption
<1>3. TabsOK
  BY <1>1 DEF ConnectInit, Onboarded, TabsOK, TabPCs
<1>4. NoticesOK
  BY DEF ConnectInit, Onboarded, NoticesOK
<1>5. CASE ConnectInit
  <2>1. AccountsOK
    BY <1>5 DEF ConnectInit, AccountsOK
  <2>2. KeysOK
    BY <1>2, <1>5 DEF ConnectInit, KeysOK
  <2>3. RowOK
    BY <1>5 DEF ConnectInit, RowOK
  <2>4. QED BY <1>3, <1>4, <2>1, <2>2, <2>3 DEF CopyInv
<1>6. CASE Onboarded
  <2>1. accounts = <<<<Fresh, Verified>>>>
    BY <1>6 DEF Onboarded
  <2>2. <<Fresh, Verified>> \in Histories
    <3>1. \A a, b \in AccountStates : <<a, b>> \in Seq(AccountStates)
      OBVIOUS
    <3>2. QED BY <1>1, <3>1 DEF Histories
  <2>3. Len(accounts) = 1 /\ accounts[1] = <<Fresh, Verified>> /\ Len(accounts[1]) = 2
    BY <2>1
  <2>4. accounts \in Seq(Histories)
    BY <2>1, <2>2
  <2>5. AccountsOK
    BY <2>3, <2>4 DEF AccountsOK
  <2>6. KeysOK
    BY <1>2, <1>6, <2>3 DEF Onboarded, KeysOK, Known
  <2>7. RowOK
    BY <1>6, <2>3 DEF Onboarded, RowOK, Row, Known
  <2>8. QED BY <1>3, <1>4, <2>5, <2>6, <2>7 DEF CopyInv
<1>7. QED BY <1>5, <1>6

-------------------------------------------------------------------------------
(***************************************************************************)
(* The jobs.                                                               *)
(***************************************************************************)
LEMMA RestIs == Rest.pc = "idle" /\ Rest.s = "none" /\ Rest = [pc |-> "idle", s |-> "none"]
BY DEF Rest

\* A caller that has started is at work on a settlement, and if it is a worker,
\* it is the only one.
LEMMA AtWork ==
  ASSUME JobInv, NEW w \in Callers, worker[w].pc # "idle"
  PROVE  /\ worker[w].s \in Settlements
         /\ w \in Workers =>
              /\ \A v \in Workers : worker[v].s = worker[w].s => v = w
              /\ job["transfer"][worker[w].s] = "active"
              /\ attempts[worker[w].s] < MaxAttempts
<1>1. worker[w].s \in Settlements
  BY DEF JobInv, JobTypes
<1>2. ASSUME w \in Workers
      PROVE  /\ \A v \in Workers : worker[v].s = worker[w].s => v = w
             /\ job["transfer"][worker[w].s] = "active"
  <2>1. \A v \in Workers : worker[v].s = worker[w].s => v = w
    BY <1>1, <1>2, NamesAssumption DEF JobInv
  <2>2. JobShape(worker[w].s)
    BY <1>1 DEF JobInv
  <2>3. Held(worker[w].s)
    BY <1>2 DEF Held
  <2>4. QED BY <2>1, <2>2, <2>3 DEF JobShape
<1>3. ASSUME w \in Workers
      PROVE  attempts[worker[w].s] < MaxAttempts
  <2>1. attempts[worker[w].s] # MaxAttempts
    BY <1>1, <1>2, <1>3 DEF JobInv, JobShape
  <2>2. attempts[worker[w].s] \in 0..MaxAttempts
    BY <1>1 DEF JobInv, JobTypes
  <2>3. QED BY <2>1, <2>2, JobsAssumption
<1>4. QED BY <1>1, <1>2, <1>3

\* A caller goes on with its settlement.
LEMMA MoveKeeps ==
  ASSUME JobInv, NEW w \in Callers, worker[w].pc # "idle",
         NEW pc \in WorkerPCs \ {"idle"}, MoveTo(w, pc),
         UNCHANGED <<job, attempts, stalled>>,
         status' \in [Settlements -> SettlementStatuses]
  PROVE  JobInv'
<1>1. worker \in [Callers -> [pc : WorkerPCs, s : Settlements \cup {"none"}]]
  BY DEF JobInv, JobTypes
<1>2. /\ worker' \in [Callers -> [pc : WorkerPCs, s : Settlements \cup {"none"}]]
      /\ \A v \in Callers : worker'[v].s = worker[v].s
      /\ \A v \in Callers : worker'[v].pc = IF v = w THEN pc ELSE worker[v].pc
  BY <1>1 DEF MoveTo
<1>3. JobTypes'
  BY <1>2 DEF JobInv, JobTypes
<1>4. \A v \in Callers : worker'[v].pc = "idle" <=> worker'[v].s = "none"
  BY <1>2 DEF JobInv
<1>5. \A u, v \in Workers : worker'[u].s = worker'[v].s => u = v \/ worker'[u].s = "none"
  BY <1>2 DEF JobInv, Callers
<1>6. \A s \in Settlements : Held(s)' <=> Held(s)
  BY <1>2 DEF Held, Callers
<1>7. \A s \in Settlements : JobShape(s)'
  BY <1>6 DEF JobInv, JobShape
<1>8. QED BY <1>3, <1>4, <1>5, <1>7 DEF JobInv

\* A caller comes to its end; a worker's job with it.
LEMMA EndKeeps ==
  ASSUME JobInv, NEW w \in Callers, worker[w].pc # "idle",
         NEW as \in JobStates \ {"active"}, Ends(w, as),
         NEW n \in 0..MaxAttempts, n = MaxAttempts => as = "failed",
         as = "failed" => n = MaxAttempts \/ worker[w].s \in stalled', stalled \subseteq stalled',
         attempts' = IF w \in Workers THEN [attempts EXCEPT ![worker[w].s] = n] ELSE attempts,
         status' \in [Settlements -> SettlementStatuses]
  PROVE  JobInv'
<1>1. /\ worker \in [Callers -> [pc : WorkerPCs, s : Settlements \cup {"none"}]]
      /\ job \in [Kinds -> [Settlements -> JobStates]]
      /\ attempts \in [Settlements -> 0..MaxAttempts]
      /\ "transfer" \in Kinds
  BY DEF JobInv, JobTypes, Kinds
<1>2. worker[w].s \in Settlements
  BY AtWork
<1>3. /\ worker' \in [Callers -> [pc : WorkerPCs, s : Settlements \cup {"none"}]]
      /\ worker'[w] = Rest
      /\ \A v \in Callers \ {w} : worker'[v] = worker[v]
  BY <1>1, RestIs DEF Ends, WorkerPCs
<1>4. /\ job' \in [Kinds -> [Settlements -> JobStates]]
      /\ attempts' \in [Settlements -> 0..MaxAttempts]
  BY <1>1, <1>2 DEF Ends
<1>5. JobTypes'
  BY <1>3, <1>4 DEF JobTypes
<1>6. \A v \in Callers : worker'[v].pc = "idle" <=> worker'[v].s = "none"
  BY <1>3, RestIs DEF JobInv
<1>7. \A u, v \in Workers : worker'[u].s = worker'[v].s => u = v \/ worker'[u].s = "none"
  BY <1>3, RestIs DEF JobInv, Callers
<1>8. ASSUME NEW s \in Settlements
      PROVE  JobShape(s)'
  <2>1. CASE w \in Workers /\ s = worker[w].s
    <3>1. job'["transfer"][s] = as /\ attempts'[s] = n
      BY <1>1, <1>2, <2>1 DEF Ends
    <3>2. ~ Held(s)'
      <4>1. \A v \in Workers : worker[v].s = s => v = w
        BY <2>1, AtWork
      <4>2. \A v \in Workers : worker'[v].s # s
        BY <1>3, <4>1, RestIs, NamesAssumption DEF Callers
      <4>3. QED BY <4>2 DEF Held
    <3>3. as # "active" /\ (as = "failed" => n = MaxAttempts \/ s \in stalled')
      BY <2>1
    <3>4. QED BY <3>1, <3>2, <3>3 DEF JobShape
  <2>2. CASE ~ (w \in Workers /\ s = worker[w].s)
    <3>1. job'["transfer"][s] = job["transfer"][s] /\ attempts'[s] = attempts[s]
      BY <1>1, <1>2, <2>2 DEF Ends
    <3>2. Held(s)' <=> Held(s)
      BY <1>3, <2>2, RestIs, NamesAssumption DEF Held, Callers
    <3>3. QED BY <3>1, <3>2 DEF JobInv, JobShape
  <2>3. QED BY <2>1, <2>2
<1>9. QED BY <1>5, <1>6, <1>7, <1>8 DEF JobInv

\* What transferSettlement returns or throws.
LEMMA EndingsKeep ==
  ASSUME JobInv, NEW w \in Callers, worker[w].pc # "idle",
         status' \in [Settlements -> SettlementStatuses],
         Returns(w) \/ Throws(w), UNCHANGED stalled
  PROVE  JobInv'
<1>1. /\ worker[w].s \in Settlements
      /\ w \in Workers => attempts[worker[w].s] < MaxAttempts
      /\ attempts \in [Settlements -> 0..MaxAttempts]
  BY AtWork DEF JobInv, JobTypes
<1> DEFINE tries == attempts[worker[w].s]
<1>2. tries \in 0..MaxAttempts
  BY <1>1
<1>3. CASE Returns(w)
  <2>1. PICK as \in {"completed"} : Ends(w, as)
    BY <1>3 DEF Returns
  <2>2. UNCHANGED attempts
    BY <1>3 DEF Returns
  <2>3. CASE w \in Workers
    <3>1. PICK n \in 0..MaxAttempts : n = tries
      BY <1>2
    <3>2. n # MaxAttempts
      BY <1>1, <1>2, <2>3, <3>1, JobsAssumption
    <3>3. attempts' = IF w \in Workers THEN [attempts EXCEPT ![worker[w].s] = n] ELSE attempts
      BY <1>1, <2>2, <3>1
    <3>4. as \in JobStates \ {"active"} /\ as # "failed"
      BY DEF JobStates
    <3>5. QED BY <2>1, <3>2, <3>3, <3>4, EndKeeps
  <2>4. CASE w \notin Workers
    <3>1. attempts' = IF w \in Workers THEN [attempts EXCEPT ![worker[w].s] = 0] ELSE attempts
      BY <2>2, <2>4
    <3>2. 0 \in 0..MaxAttempts /\ 0 # MaxAttempts
      BY JobsAssumption
    <3>3. as \in JobStates \ {"active"} /\ as # "failed"
      BY DEF JobStates
    <3>4. QED BY <2>1, <3>1, <3>2, <3>3, EndKeeps
  <2>5. QED BY <2>3, <2>4
<1>4. CASE Throws(w)
  <2>1. CASE w \in Workers
    <3>1. PICK n \in 0..MaxAttempts : n = tries + 1
      BY <1>1, <1>2, <2>1, JobsAssumption
    <3>2. PICK as : as = IF n < MaxAttempts THEN "waiting" ELSE "failed"
      OBVIOUS
    <3>3. /\ Ends(w, as)
          /\ attempts' = IF w \in Workers THEN [attempts EXCEPT ![worker[w].s] = n] ELSE attempts
      BY <1>4, <3>1, <3>2 DEF Throws
    <3>4. as \in JobStates \ {"active"} /\ (as = "failed" <=> n = MaxAttempts)
      BY <3>1, <3>2, JobsAssumption DEF JobStates
    <3>5. QED BY <3>3, <3>4, EndKeeps
  <2>2. CASE w \notin Workers
    <3>1. /\ attempts' = IF w \in Workers THEN [attempts EXCEPT ![worker[w].s] = 0] ELSE attempts
          /\ Ends(w, "waiting")
      BY <1>4, <2>2 DEF Throws, Ends
    <3>2. "waiting" \in JobStates \ {"active"} /\ 0 \in 0..MaxAttempts /\ 0 # MaxAttempts
      BY JobsAssumption DEF JobStates
    <3>3. QED BY <3>1, <3>2, EndKeeps
  <2>3. QED BY <2>1, <2>2
<1>5. QED BY <1>3, <1>4

\* A worker that dies leaves its job waiting, or failed if it stalled before.
LEMMA DeathKeeps ==
  ASSUME JobInv, NEW w \in Callers, WorkerDies(w)
  PROVE  JobInv'
<1>1. /\ worker[w].pc # "idle" /\ worker[w].s \in Settlements
      /\ w \in Workers => attempts[worker[w].s] < MaxAttempts
      /\ attempts \in [Settlements -> 0..MaxAttempts]
      /\ status' \in [Settlements -> SettlementStatuses]
  BY AtWork DEF WorkerDies, JobInv, JobTypes
<1>2. PICK as : as = IF worker[w].s \in stalled THEN "failed" ELSE "waiting"
  OBVIOUS
<1>3. /\ as \in JobStates \ {"active"} /\ Ends(w, as)
      /\ as = "failed" => worker[w].s \in stalled'
      /\ stalled \subseteq stalled'
  BY <1>2 DEF WorkerDies, JobStates
<1>4. PICK n \in 0..MaxAttempts : n = IF w \in Workers THEN attempts[worker[w].s] ELSE 0
  BY <1>1, JobsAssumption
<1>5. n # MaxAttempts
  BY <1>1, <1>4, JobsAssumption
<1>6. attempts' = IF w \in Workers THEN [attempts EXCEPT ![worker[w].s] = n] ELSE attempts
  BY <1>1, <1>4 DEF WorkerDies
<1>7. QED BY <1>1, <1>3, <1>5, <1>6, EndKeeps

\* A step of transferSettlement.
LEMMA TransferKeepsJobs ==
  ASSUME JobInv, NEW w \in Callers, Transfer(w)
  PROVE  JobInv'
<1>1. /\ worker[w] \in [pc : WorkerPCs, s : Settlements \cup {"none"}]
      /\ status \in [Settlements -> SettlementStatuses]
  BY DEF JobInv, JobTypes
<1>2. worker[w].pc # "idle"
  BY DEF Transfer, TransferRead, TransferReady, ReadFails, TransferClaim, TransferSend,
         TransferDone
<1>3. /\ {"ready", "claim", "send", "sent", "refused"} \subseteq WorkerPCs \ {"idle"}
      /\ {"TRANSFER_PENDING", "TRANSFERRED", "TRANSFER_FAILED"} \subseteq SettlementStatuses
  BY DEF WorkerPCs, SettlementStatuses
<1>4. CASE TransferRead(w)
  BY <1>1, <1>2, <1>3, <1>4, MoveKeeps, EndingsKeep DEF TransferRead
<1>5. CASE TransferReady(w)
  BY <1>1, <1>2, <1>3, <1>5, MoveKeeps, EndingsKeep DEF TransferReady
<1>6. CASE ReadFails(w)
  BY <1>1, <1>2, <1>6, EndingsKeep DEF ReadFails
<1>7. CASE TransferClaim(w)
  BY <1>1, <1>2, <1>3, <1>7, MoveKeeps, EndingsKeep DEF TransferClaim
<1>8. CASE TransferSend(w)
  BY <1>1, <1>2, <1>3, <1>8, MoveKeeps, EndingsKeep DEF TransferSend
<1>9. CASE TransferDone(w)
  <2>1. status' \in [Settlements -> SettlementStatuses]
    BY <1>1, <1>3, <1>9 DEF TransferDone
  <2>2. QED BY <1>2, <1>9, <2>1, EndingsKeep DEF TransferDone
<1>10. QED BY <1>4, <1>5, <1>6, <1>7, <1>8, <1>9 DEF Transfer

\* A caller takes up a settlement.
LEMMA StartKeeps ==
  ASSUME JobInv, NEW w \in Callers, NEW s \in Settlements, TakeTransfer(w, s) \/ (w = Admin /\ ForceTransfer(s))
  PROVE  JobInv'
<1>1. /\ worker \in [Callers -> [pc : WorkerPCs, s : Settlements \cup {"none"}]]
      /\ job \in [Kinds -> [Settlements -> JobStates]]
      /\ "transfer" \in Kinds
  BY DEF JobInv, JobTypes, Kinds
<1>2. /\ worker[w].pc = "idle" /\ worker[w].s = "none"
      /\ worker' = [worker EXCEPT ![w] = [pc |-> "read", s |-> s]]
      /\ UNCHANGED <<status, attempts, stalled>>
  BY DEF TakeTransfer, ForceTransfer, JobInv
<1>3. /\ worker' \in [Callers -> [pc : WorkerPCs, s : Settlements \cup {"none"}]]
      /\ worker'[w].pc = "read" /\ worker'[w].s = s
      /\ \A v \in Callers \ {w} : worker'[v] = worker[v]
  BY <1>1, <1>2 DEF WorkerPCs
<1>4. \/ /\ w \in Workers
         /\ job["transfer"][s] = "waiting"
         /\ job' \in [Kinds -> [Settlements -> JobStates]]
         /\ \A x \in Settlements :
              job'["transfer"][x] = IF x = s THEN "active" ELSE job["transfer"][x]
      \/ w \notin Workers /\ UNCHANGED job
  <2>1. CASE TakeTransfer(w, s)
    <3>1. /\ w \in Workers /\ job["transfer"][s] = "waiting"
          /\ job' = [job EXCEPT !["transfer"][s] = "active"]
      BY <2>1 DEF TakeTransfer
    <3>2. job' \in [Kinds -> [Settlements -> JobStates]]
      BY <1>1, <3>1 DEF JobStates
    <3>3. \A x \in Settlements :
            job'["transfer"][x] = IF x = s THEN "active" ELSE job["transfer"][x]
      <4>1. job'["transfer"] = [job["transfer"] EXCEPT ![s] = "active"]
        BY <1>1, <3>1
      <4>2. job["transfer"] \in [Settlements -> JobStates]
        BY <1>1
      <4>3. QED BY <4>1, <4>2
    <3>4. QED BY <3>1, <3>2, <3>3
  <2>2. CASE w = Admin /\ ForceTransfer(s)
    BY <2>2, NamesAssumption DEF ForceTransfer
  <2>3. QED BY <2>1, <2>2
<1>5. JobTypes'
  BY <1>1, <1>2, <1>3, <1>4 DEF JobTypes, JobInv
<1>6. \A v \in Callers : worker'[v].pc = "idle" <=> worker'[v].s = "none"
  BY <1>3, NamesAssumption DEF JobInv
<1>7. w \in Workers => ~ Held(s)
  BY <1>4 DEF JobInv, JobShape
<1>8. \A u, v \in Workers : worker'[u].s = worker'[v].s => u = v \/ worker'[u].s = "none"
  BY <1>3, <1>7 DEF JobInv, Held, Callers
<1>9. ASSUME NEW x \in Settlements
      PROVE  JobShape(x)'
  <2>1. Held(x)' <=> Held(x) \/ (w \in Workers /\ x = s)
    BY <1>2, <1>3, NamesAssumption DEF Held, Callers
  <2>2. QED BY <1>2, <1>4, <2>1 DEF JobInv, JobShape
<1>10. QED BY <1>5, <1>6, <1>8, <1>9 DEF JobInv

\* The scans and releases.
LEMMA ScansKeepJobs ==
  ASSUME JobInv, ScanReleases \/ ScanTransfers \/ (\E s \in Settlements : ReleaseOne(s))
  PROVE  JobInv'
<1>1. /\ job \in [Kinds -> [Settlements -> JobStates]]
      /\ status \in [Settlements -> SettlementStatuses]
      /\ Kinds = {"release", "transfer"}
  BY DEF JobInv, JobTypes, Kinds
<1>2. UNCHANGED <<worker, attempts, stalled>>
  BY DEF ScanReleases, ScanTransfers, ReleaseOne
<1>3. /\ job' \in [Kinds -> [Settlements -> JobStates]]
      /\ \A x \in Settlements : \/ job'["transfer"][x] = job["transfer"][x]
                                \/ job["transfer"][x] = "none" /\ job'["transfer"][x] = "waiting"
  <2>1. ASSUME NEW kind \in Kinds, NEW S, Added(kind, S)
        PROVE  /\ job' \in [Kinds -> [Settlements -> JobStates]]
               /\ \A x \in Settlements : \/ job'["transfer"][x] = job["transfer"][x]
                                         \/ job["transfer"][x] = "none" /\ job'["transfer"][x] = "waiting"
    BY <1>1, <2>1 DEF Added, JobStates
  <2>2. CASE ScanReleases
    BY <1>1, <2>1, <2>2 DEF ScanReleases
  <2>3. CASE ScanTransfers
    BY <1>1, <2>1, <2>3 DEF ScanTransfers
  <2>4. ASSUME NEW s \in Settlements, ReleaseOne(s)
        PROVE  /\ job' \in [Kinds -> [Settlements -> JobStates]]
               /\ \A x \in Settlements : job'["transfer"][x] = job["transfer"][x]
    BY <1>1, <2>4 DEF ReleaseOne, JobStates
  <2>5. QED BY <2>2, <2>3, <2>4
<1>4. status' \in [Settlements -> SettlementStatuses]
  BY <1>1 DEF ScanReleases, ScanTransfers, ReleaseOne, SettlementStatuses
<1>5. JobTypes'
  BY <1>2, <1>3, <1>4 DEF JobInv, JobTypes
<1>6. \A s \in Settlements : JobShape(s)'
  BY <1>2, <1>3 DEF JobInv, JobShape, Held
<1>7. QED BY <1>2, <1>5, <1>6 DEF JobInv

LEMMA JobsSame ==
  ASSUME JobInv, UNCHANGED <<status, job, attempts, stalled, worker>>
  PROVE  JobInv'
BY DEF JobInv, JobTypes, JobShape, Held

LEMMA JobsStart ==
  ASSUME JobsInit \/ PaidBefore
  PROVE  JobInv
<1>1. /\ \A w \in Callers : worker[w] = Rest
      /\ worker = [w \in Callers |-> Rest]
      /\ attempts = [s \in Settlements |-> 0]
  BY DEF JobsInit, PaidBefore
<1>2. /\ status \in [Settlements -> SettlementStatuses]
      /\ job \in [Kinds -> [Settlements -> JobStates \ {"active", "failed"}]]
  BY DEF JobsInit, PaidBefore, SettlementStatuses, JobStates
<1>3. 0 \in 0..MaxAttempts /\ 0 # MaxAttempts
  BY JobsAssumption
<1>4. JobTypes
  BY <1>1, <1>2, <1>3, RestIs DEF JobTypes, WorkerPCs
<1>5. \A s \in Settlements : ~ Held(s)
  BY <1>1, RestIs, NamesAssumption DEF Held, Callers
<1>6. \A s \in Settlements : JobShape(s)
  BY <1>1, <1>2, <1>3, <1>5 DEF JobShape, Kinds
<1>7. \A v \in Callers : worker[v].pc = "idle" /\ worker[v].s = "none"
  BY <1>1, RestIs
<1>8. QED BY <1>4, <1>6, <1>7 DEF JobInv, Callers

-------------------------------------------------------------------------------
(***************************************************************************)
(* The flag.                                                               *)
(***************************************************************************)
\* Only the caller that takes a step moves.
LEMMA OthersStay ==
  ASSUME JobTypes, NEW w \in Callers,
         Transfer(w) \/ WorkerDies(w) \/ (\E s \in Settlements : TakeTransfer(w, s))
  PROVE  \A v \in Callers \ {w} : worker'[v] = worker[v]
<1>1. worker \in [Callers -> [pc : WorkerPCs, s : Settlements \cup {"none"}]]
  BY DEF JobTypes
<1>2. QED
  BY <1>1 DEF Transfer, TransferRead, TransferReady, ReadFails, TransferClaim, TransferSend,
       TransferDone, WorkerDies, TakeTransfer, MoveTo, Returns, Throws, Ends

\* A worker passes its first read only when both gates are on, and sends only
\* after it has passed.
LEMMA FlagSteps ==
  ASSUME JobTypes, FlagInv, UNCHANGED envOn,
         \/ UNCHANGED <<sentBy, worker>>
         \/ \E w \in Callers : Transfer(w) \/ WorkerDies(w)
         \/ \E w \in Callers, s \in Settlements : TakeTransfer(w, s)
         \/ \E s \in Settlements : ForceTransfer(s)
  PROVE  /\ FlagInv'
         /\ \A s \in Settlements : Sends(s, "worker") => envOn
<1>1. worker \in [Callers -> [pc : WorkerPCs, s : Settlements \cup {"none"}]]
  BY DEF JobTypes
<1>2. SUFFICES ASSUME ~ envOn
               PROVE  /\ \A w \in Workers : worker'[w].pc \notin {"ready", "claim", "send"}
                      /\ \A s \in Settlements : ~ Sends(s, "worker")
  BY DEF FlagInv
<1>3. \A w \in Workers : worker[w].pc \notin {"ready", "claim", "send"}
  BY <1>2 DEF FlagInv
<1>4. UNCHANGED sentBy => \A s \in Settlements : ~ Sends(s, "worker")
  BY DEF Sends
<1>5. ASSUME NEW w \in Callers, Transfer(w) \/ WorkerDies(w)
      PROVE  /\ \A v \in Workers : worker'[v].pc \notin {"ready", "claim", "send"}
             /\ \A s \in Settlements : ~ Sends(s, "worker")
  <2>1. \A v \in Callers \ {w} : worker'[v] = worker[v]
    BY <1>5, OthersStay
  <2>2. CASE w \in Workers
    <3>1. worker[w].pc \notin {"ready", "claim", "send"} /\ w # Admin /\ ~ Allowed
      BY <1>2, <1>3, <2>2, NamesAssumption DEF Allowed
    <3>2. \E as : Ends(w, as)
      BY <1>5, <3>1 DEF Transfer, TransferRead, TransferReady, ReadFails, TransferClaim,
           TransferSend, TransferDone, WorkerDies, Returns, Throws
    <3>3. worker' = [worker EXCEPT ![w] = Rest]
      BY <3>2 DEF Ends
    <3>4. worker'[w].pc = "idle"
      BY <1>1, <3>3, RestIs
    <3>5. UNCHANGED sentBy
      BY <1>5, <3>1 DEF Transfer, TransferRead, TransferReady, ReadFails, TransferClaim,
           TransferSend, TransferDone, WorkerDies
    <3>6. QED BY <1>3, <1>4, <2>1, <3>4, <3>5 DEF Callers
  <2>3. CASE w = Admin
    <3>1. \A v \in Workers : worker'[v] = worker[v]
      BY <2>1, <2>3, NamesAssumption DEF Callers
    <3>2. CASE sentBy' = [sentBy EXCEPT ![worker[w].s] = "admin"]
      <4>1. \A s \in Settlements : sentBy'[s] = sentBy[s] \/ sentBy'[s] = "admin"
        BY <3>2
      <4>2. QED BY <1>3, <3>1, <4>1 DEF Sends
    <3>3. UNCHANGED sentBy \/ sentBy' = [sentBy EXCEPT ![worker[w].s] = "admin"]
      BY <1>5, <2>3 DEF Transfer, TransferRead, TransferReady, ReadFails, TransferClaim,
           TransferSend, TransferDone, WorkerDies
    <3>4. QED BY <1>3, <1>4, <3>1, <3>2, <3>3
  <2>4. QED BY <2>2, <2>3 DEF Callers
<1>6. ASSUME NEW w \in Callers, NEW s \in Settlements,
             TakeTransfer(w, s) \/ (w = Admin /\ ForceTransfer(s))
      PROVE  /\ UNCHANGED sentBy
             /\ \A v \in Callers : worker'[v].pc = worker[v].pc \/ worker'[v].pc = "read"
  BY <1>1, <1>6 DEF TakeTransfer, ForceTransfer
<1>7. CASE \/ \E w \in Callers, s \in Settlements : TakeTransfer(w, s)
           \/ \E s \in Settlements : ForceTransfer(s)
  <2>1. /\ UNCHANGED sentBy
        /\ \A v \in Callers : worker'[v].pc = worker[v].pc \/ worker'[v].pc = "read"
    BY <1>6, <1>7 DEF Callers
  <2>2. QED BY <1>3, <1>4, <2>1 DEF Callers
<1>8. CASE \E w \in Callers : Transfer(w) \/ WorkerDies(w)
  BY <1>5, <1>8
<1>9. CASE UNCHANGED <<sentBy, worker>>
  BY <1>3, <1>4, <1>9
<1>10. QED BY <1>7, <1>8, <1>9

\* The process is started anew when nobody is at work.
LEMMA RestartKeepsFlag ==
  ASSUME Restart
  PROVE  /\ FlagInv'
         /\ \A s \in Settlements : ~ Sends(s, "worker")
BY DEF Restart, FlagInv, Callers, Sends
-------------------------------------------------------------------------------
(***************************************************************************)
(* The passes.                                                             *)
(***************************************************************************)
LEMMA KindsOfChecks ==
  /\ Len(R!Checks) = 6
  /\ \A n \in 1..6 : R!Checks[n] \in R!ExceptionKinds
BY DEF R!Checks, R!ExceptionKinds

LEMMA RaisedIsStatus ==
  ASSUME NEW read, NEW now \in ExceptionStatuses
  PROVE  R!Raised(read, now) \in ExceptionStatuses
BY DEF R!Raised, ExceptionStatuses

\* A pass goes on to its next check, or waits for the next hour.
LEMMA GoesOn ==
  ASSUME PassInv, NEW r \in Passes, R!GoOn(r)
  PROVE  pass' \in [Passes -> [at : 0..6, read : ExceptionStatuses \cup {"unread", "agreed", "raised"}]]
<1>1. PICK new : /\ new = IF pass[r].at < 6 THEN [at |-> pass[r].at + 1, read |-> "unread"]
                                           ELSE R!Waiting
                 /\ pass' = [pass EXCEPT ![r] = new]
  BY KindsOfChecks DEF R!GoOn
<1>2. pass[r].at \in 0..6
  BY DEF PassInv
<1>3. new \in [at : 0..6, read : ExceptionStatuses \cup {"unread", "agreed", "raised"}]
  BY <1>1, <1>2 DEF R!Waiting
<1>4. QED BY <1>1, <1>3 DEF PassInv

\* A pass stays within its checks, and writes only known statuses.
LEMMA PassKeeps ==
  ASSUME PassInv,
         \/ \E r \in Passes : R!PassStep(r) \/ R!PassDies(r)
         \/ \E k \in R!ExceptionKinds : R!Settled(k)
  PROVE  PassInv'
<1> DEFINE Places == [at : 0..6, read : ExceptionStatuses \cup {"unread", "agreed", "raised"}]
<1>1. exception \in [R!ExceptionKinds -> ExceptionStatuses] /\ pass \in [Passes -> Places]
  BY DEF PassInv
<1>2. {"OPEN", "ACKNOWLEDGED", "RESOLVED", "IGNORED"} \subseteq ExceptionStatuses
  BY DEF ExceptionStatuses
<1>3. \A r \in Passes : pass[r].at > 0 => R!Check(r) \in R!ExceptionKinds
  <2>1. ASSUME NEW r \in Passes, pass[r].at > 0
        PROVE  R!Check(r) \in R!ExceptionKinds
    <3>1. pass[r].at \in 1..6
      BY <1>1, <2>1
    <3>2. QED BY <3>1, KindsOfChecks DEF R!Check
  <2>2. QED BY <2>1
<1>4. ASSUME NEW r \in Passes, R!StartPass(r)
      PROVE  PassInv'
  BY <1>1, <1>4 DEF R!StartPass, PassInv
<1>5. ASSUME NEW r \in Passes, R!Agrees(r)
      PROVE  PassInv'
  <2>1. UNCHANGED exception
    BY <1>5 DEF R!Agrees
  <2>2. CASE R!GoOn(r)
    BY <1>1, <2>1, <2>2, GoesOn DEF PassInv
  <2>3. CASE pass' = [pass EXCEPT ![r].read = "agreed"]
    BY <1>1, <2>1, <2>3 DEF PassInv
  <2>4. QED BY <1>5, <2>2, <2>3 DEF R!Agrees
<1>6. ASSUME NEW r \in Passes, R!AutoResolve(r)
       PROVE  PassInv'
  <2>1. pass' \in [Passes -> Places]
    BY <1>6, GoesOn DEF R!AutoResolve
  <2>2. exception' = exception \/ exception' = [exception EXCEPT ![R!Check(r)] = "RESOLVED"]
    BY <1>6 DEF R!AutoResolve
  <2>3. exception' \in [R!ExceptionKinds -> ExceptionStatuses]
    BY <1>1, <1>2, <2>2
  <2>4. QED BY <2>1, <2>3 DEF PassInv
<1>7. ASSUME NEW r \in Passes, R!Disagrees(r)
      PROVE  PassInv'
  <2>1. exception[R!Check(r)] \in ExceptionStatuses
    BY <1>1, <1>3, <1>7 DEF R!Disagrees
  <2>2. pass' \in [Passes -> Places]
    BY <1>1, <1>7, <2>1 DEF R!Disagrees
  <2>3. UNCHANGED exception
    BY <1>7 DEF R!Disagrees
  <2>4. QED BY <1>1, <2>2, <2>3 DEF PassInv
<1>8. ASSUME NEW r \in Passes, R!Raise(r)
      PROVE  PassInv'
  <2>1. R!Check(r) \in R!ExceptionKinds
    BY <1>3, <1>8 DEF R!Raise
  <2>2. R!Raised(pass[r].read, exception[R!Check(r)]) \in ExceptionStatuses
    <3>1. PICK read : read = pass[r].read
      OBVIOUS
    <3>2. PICK now \in ExceptionStatuses : now = exception[R!Check(r)]
      BY <1>1, <2>1
    <3>3. QED BY <3>1, <3>2, RaisedIsStatus
  <2>3. exception' \in [R!ExceptionKinds -> ExceptionStatuses]
    BY <1>1, <1>8, <2>1, <2>2 DEF R!Raise
  <2>4. CASE R!GoOn(r)
    BY <2>3, <2>4, GoesOn DEF PassInv
  <2>5. CASE pass' = [pass EXCEPT ![r].read = "raised"]
    BY <1>1, <2>3, <2>5 DEF PassInv
  <2>6. QED BY <1>8, <2>4, <2>5 DEF R!Raise
<1>9. ASSUME NEW r \in Passes, R!Announce(r)
      PROVE  PassInv'
  BY <1>1, <1>9, GoesOn DEF R!Announce, PassInv
<1>10. ASSUME NEW r \in Passes, R!PassDies(r)
      PROVE  PassInv'
  BY <1>1, <1>10 DEF R!PassDies, R!Waiting, PassInv
<1>11. ASSUME NEW k \in R!ExceptionKinds, R!Settled(k)
       PROVE  PassInv'
  <2>1. PICK as \in ExceptionStatuses : exception' = [exception EXCEPT ![k] = as]
    BY <1>2, <1>11 DEF R!Settled
  <2>2. exception' \in [R!ExceptionKinds -> ExceptionStatuses]
    BY <1>1, <2>1
  <2>3. UNCHANGED pass
    BY <1>11 DEF R!Settled
  <2>4. QED BY <1>1, <2>2, <2>3 DEF PassInv
<1>12. QED
  BY <1>4, <1>5, <1>6, <1>7, <1>8, <1>9, <1>10, <1>11 DEF R!PassStep
-------------------------------------------------------------------------------
(***************************************************************************)
(* The composition.                                                        *)
(***************************************************************************)
LEMMA InitInvariant == Init => IInv
<1> SUFFICES ASSUME Init PROVE IInv
  OBVIOUS
<1>1. CopyInv
  BY CopyInit DEF Init
<1>2. JobInv
  BY JobsStart DEF Init
<1>3. FlagInv
  BY RestIs DEF Init, FlagInv, JobsInit, PaidBefore, Callers
<1>4. PassInv
  BY DEF Init, PassInv, R!ReconciliationInit, R!Waiting, ExceptionStatuses
<1>5. QED BY <1>1, <1>2, <1>3, <1>4 DEF IInv

\* Each part's step leaves the other parts alone, and only the jobs send.
LEMMA StepsKeep ==
  ASSUME IInv, [Next]_vars
  PROVE  /\ IInv'
         /\ \A s \in Settlements : Sends(s, "worker") => envOn
<1> DEFINE Gated == \A s \in Settlements : Sends(s, "worker") => envOn
<1>1. CopyInv /\ JobInv /\ JobTypes /\ FlagInv /\ PassInv
  BY DEF IInv, JobInv
<1>2. UNCHANGED connectVars => CopyInv'
  BY <1>1, CopySame
<1>3. UNCHANGED jobVars => JobInv'
  BY <1>1, JobsSame
<1>4. UNCHANGED jobVars => FlagInv' /\ Gated
  BY <1>1, FlagSteps
<1>5. UNCHANGED reconciliationVars => PassInv'
  BY <1>1 DEF PassInv
<1>6. CASE Deliver \/ Onboard
  <2>1. CopyInv'
    BY <1>1, <1>6, StripeKeepsCopy, CreationKeepsCopy, SyncKeepsCopy, RequestEndsKeepsCopy
       DEF Deliver, Onboard, Connecting
  <2>2. UNCHANGED jobVars /\ UNCHANGED reconciliationVars
    BY <1>6 DEF Deliver, Onboard, Connecting
  <2>3. QED BY <1>3, <1>4, <1>5, <2>1, <2>2 DEF IInv
<1>7. CASE Scan \/ Release \/ \E w \in Callers : Take(w) \/ TransferStep(w)
  <2>1. UNCHANGED connectVars /\ UNCHANGED reconciliationVars
    BY <1>7 DEF Scan, Release, Take, TransferStep, Working
  <2>2. JobInv'
    BY <1>1, <1>7, ScansKeepJobs, StartKeeps, TransferKeepsJobs
       DEF Scan, Release, Take, TransferStep, Working
  <2>3. UNCHANGED envOn
    BY <1>7 DEF Scan, Release, Take, TransferStep, Working, ScanReleases, ScanTransfers, ReleaseOne,
         TakeTransfer, Transfer, TransferRead, TransferReady, ReadFails, TransferClaim, TransferSend,
         TransferDone
  <2>4. FlagInv' /\ Gated
    <3>1. CASE Scan \/ Release
      BY <1>1, <2>3, <3>1, FlagSteps
         DEF Scan, Release, Working, ScanReleases, ScanTransfers, ReleaseOne
    <3>2. CASE \E w \in Callers : Take(w) \/ TransferStep(w)
      BY <1>1, <2>3, <3>2, FlagSteps DEF Take, TransferStep, Working
    <3>3. QED BY <1>7, <3>1, <3>2
  <2>5. QED BY <1>2, <1>5, <2>1, <2>2, <2>4 DEF IInv
<1>8. CASE Disturb
  <2>1. UNCHANGED connectVars /\ UNCHANGED reconciliationVars
    BY <1>8 DEF Disturb, Working
  <2>2. CASE (\E s \in Settlements : IssueResolved(s)) \/ Flip("settlement") \/ Flip("payout")
    <3>1. UNCHANGED <<status, job, attempts, stalled, worker, envOn, sentBy>>
      BY <2>2 DEF IssueResolved, Flip
    <3>2. JobInv'
      BY <1>1, <3>1, JobsSame
    <3>3. FlagInv' /\ Gated
      BY <1>1, <3>1, FlagSteps
    <3>4. QED BY <1>2, <1>5, <2>1, <3>2, <3>3 DEF IInv
  <2>3. CASE Restart
    <3>1. JobInv'
      BY <1>1, <2>3, JobsSame DEF Restart
    <3>2. QED BY <1>2, <1>5, <2>1, <2>3, <3>1, RestartKeepsFlag DEF IInv
  <2>4. CASE \/ \E s \in Settlements : ForceTransfer(s)
             \/ \E w \in Callers : WorkerDies(w)
    <3>1. JobInv'
      BY <1>1, <2>4, StartKeeps, DeathKeeps DEF Callers
    <3>2. UNCHANGED envOn
      BY <2>4 DEF ForceTransfer, WorkerDies
    <3>3. FlagInv' /\ Gated
      BY <1>1, <2>4, <3>2, FlagSteps
    <3>4. QED BY <1>2, <1>5, <2>1, <3>1, <3>3 DEF IInv
  <2>5. QED BY <1>8, <2>2, <2>3, <2>4 DEF Disturb, Working
<1>9. CASE BooksChange \/ Grow
  BY <1>2, <1>3, <1>4, <1>5, <1>9 DEF BooksChange, Grow, Ages, IInv
<1>10. CASE Settle \/ \E r \in Passes : PassOn(r)
  <2>1. UNCHANGED connectVars /\ UNCHANGED jobVars
    BY <1>10 DEF Settle, PassOn, Reconciling
  <2>2. PassInv'
    BY <1>1, <1>10, PassKeeps DEF Settle, PassOn, Reconciling
  <2>3. QED BY <1>2, <1>3, <1>4, <2>1, <2>2 DEF IInv
<1>11. CASE UNCHANGED vars
  BY <1>2, <1>3, <1>4, <1>5, <1>11 DEF vars, IInv
<1>12. QED BY <1>6, <1>7, <1>8, <1>9, <1>10, <1>11 DEF Next

LEMMA NextInvariant == IInv /\ [Next]_vars => IInv'
BY StepsKeep

\* The invariant holds of every behaviour.
THEOREM Invariance == Spec => []IInv
BY InitInvariant, NextInvariant, PTL DEF Spec

\* Everything keeps its type: the row and every notice name an account that
\* exists and tell of it what was so, a transfer job is active exactly while a
\* worker holds it, and has failed only when its attempts are used up or it has
\* lost its worker twice (syncConnectAccount, transfer worker).
THEOREM TypeCorrectness == Spec => []TypeOK
<1>1. IInv => TypeOK
  <2> SUFFICES ASSUME IInv PROVE TypeOK
    OBVIOUS
  <2>1. row.account \in 0..Len(accounts)
    <3>1. Len(accounts) \in Nat
      BY LenProperties DEF IInv, CopyInv, AccountsOK
    <3>2. CASE row = NoRow
      BY <3>1, <3>2 DEF NoRow
    <3>3. CASE row # NoRow
      BY <3>1, <3>3 DEF IInv, CopyInv, RowOK, Known
    <3>4. QED BY <3>2, <3>3
  <2>2. \A n \in notices : n.account \in DOMAIN accounts /\ accounts[n.account][n.at] = n.told
    <3>1. DOMAIN accounts = 1..Len(accounts)
      BY LenProperties DEF IInv, CopyInv, AccountsOK
    <3>2. QED BY <3>1 DEF IInv, CopyInv, NoticesOK, True, Known
  <2>3. ASSUME NEW s \in Settlements
        PROVE  /\ status[s] \in SettlementStatuses
               /\ attempts[s] \in 0..MaxAttempts
               /\ \A k \in Kinds : job[k][s] \in JobStates
               /\ attempts[s] = MaxAttempts => job["transfer"][s] = "failed"
               /\ job["transfer"][s] = "failed" => attempts[s] = MaxAttempts \/ s \in stalled
               /\ job["transfer"][s] = "active" <=> \E w \in Workers : worker[w].s = s
    BY DEF IInv, JobInv, JobTypes, JobShape, Held
  <2>4. \A k \in R!ExceptionKinds : exception[k] \in ExceptionStatuses
    BY DEF IInv, PassInv
  <2>5. QED BY <2>1, <2>2, <2>3, <2>4 DEF TypeOK, SettlementStatuses, JobStates, ExceptionStatuses
<1>2. QED BY <1>1, Invariance, PTL

\* While the engineers' flag is off no worker sends a transfer, neither a job
\* queued before the restart that turned it off nor one taken up again after its
\* worker died, whatever switches are thrown and transfers forced meanwhile:
\* what leaves then leaves by an administrator's hand (automaticTransfersAllowed,
\* asked for again by transferSettlement).
THEOREM FlagHolds == Spec => OffMeansNotAutomatic
<1>1. IInv /\ [Next]_vars => [\A s \in Settlements : Sends(s, "worker") => envOn]_vars
  BY StepsKeep
<1>2. QED BY <1>1, Invariance, PTL DEF Spec, OffMeansNotAutomatic
===============================================================================
