---------------------------- MODULE Reconciliation ----------------------------
(***************************************************************************)
(* The hourly reconciliation and the exceptions it raises.                 *)
(*                                                                         *)
(* A pass goes through its checks in order.  Where the records disagree it *)
(* reads the exception row, writes it and, for a new one, announces it;    *)
(* where they agree it then closes the open exception.  Two passes may run at a *)
(* time (the job and an admin's request), either may die between two       *)
(* steps, and admins settle exceptions meanwhile.  Only which checks       *)
(* disagree is kept of the records: the module that owns them gives it.    *)
(***************************************************************************)
EXTENDS Naturals, Sequences

CONSTANTS
  Passes,    \* passes that may run at a time
  MaxNotes,  \* bound: exceptions settled by admins
  MaxLost    \* bound: passes that die

VARIABLES
  disagreement,  \* the checks whose records disagree at present
  blind,         \* the checks that do not see what they look at
  exception,     \* the ReconciliationException row of each kind
  announced,     \* how often each was announced
  pass,          \* where each pass is
  notes          \* exceptions settled and passes lost so far

reconciliationVars == <<exception, announced, pass, notes>>

\* The checks in order; MISSING, AMOUNT and STUCK are found in one loop over the
\* settlements of the last 48 hours.
Checks == <<"LEDGER_OUT_OF_BALANCE", "SELLER_PAYABLE_MISMATCH", "PLATFORM_BALANCE_SHORTFALL",
            "SETTLEMENT_STUCK_IN_TRANSFER", "TRANSFER_MISSING_AT_STRIPE", "TRANSFER_AMOUNT_MISMATCH">>
ExceptionKinds == {Checks[n] : n \in DOMAIN Checks}

\* A transfer that was stuck is never reported as no longer stuck.
Closable == ExceptionKinds \ {"SETTLEMENT_STUCK_IN_TRANSFER"}

Waiting == [at |-> 0, read |-> "unread"]

ReconciliationInit ==
  /\ exception = [k \in ExceptionKinds |-> "none"]
  /\ announced = [k \in ExceptionKinds |-> 0]
  /\ pass = [r \in Passes |-> Waiting]
  /\ notes = [notes |-> 0, lost |-> 0]

Check(r) == Checks[pass[r].at]
GoOn(r) == pass' = [pass EXCEPT ![r] = IF @.at < Len(Checks) THEN [at |-> @.at + 1, read |-> "unread"]
                                                              ELSE Waiting]

StartPass(r) ==
  /\ pass[r].at = 0
  /\ pass' = [pass EXCEPT ![r].at = 1]
  /\ UNCHANGED <<exception, announced, notes>>

\* The records agree, or are not looked at.
Agrees(r) ==
  LET k == Check(r)
  IN /\ pass[r].at > 0 /\ pass[r].read = "unread"
     /\ k \notin disagreement \/ k \in blind
     /\ IF k \in Closable \ blind THEN pass' = [pass EXCEPT ![r].read = "agreed"] ELSE GoOn(r)
     /\ UNCHANGED <<exception, announced, notes>>

\* autoResolve: an open exception this pass has not seen is resolved.
AutoResolve(r) ==
  LET k == Check(r)
  IN /\ pass[r].at > 0 /\ pass[r].read = "agreed"
     /\ exception' = IF exception[k] = "OPEN" THEN [exception EXCEPT ![k] = "RESOLVED"] ELSE exception
     /\ GoOn(r)
     /\ UNCHANGED <<announced, notes>>

\* raiseException: the row is read...
Disagrees(r) ==
  LET k == Check(r)
  IN /\ pass[r].at > 0 /\ pass[r].read = "unread"
     /\ k \in disagreement \ blind
     /\ pass' = [pass EXCEPT ![r].read = exception[k]]
     /\ UNCHANGED <<exception, announced, notes>>

\* *Mutant*: what was resolved is counted and stays resolved.
RaisedWithoutReopening(read, now) == IF now = "none" THEN "OPEN" ELSE now

\* ... and reopened if it was resolved when it was read, or else upserted.
Raised(read, now) ==
  IF read = "RESOLVED" THEN "OPEN" ELSE IF now = "none" THEN "OPEN" ELSE now

Raise(r) ==
  LET k == Check(r)
      new == pass[r].read = "none"
  IN /\ pass[r].at > 0 /\ pass[r].read \notin {"unread", "agreed", "raised"}
     /\ exception' = [exception EXCEPT ![k] = Raised(pass[r].read, @)]
     /\ IF new THEN pass' = [pass EXCEPT ![r].read = "raised"] ELSE GoOn(r)
     /\ UNCHANGED <<announced, notes>>

\* The outbox row is written in a transaction of its own.
Announce(r) ==
  /\ pass[r].at > 0 /\ pass[r].read = "raised"
  /\ announced' = [announced EXCEPT ![Check(r)] = @ + 1]
  /\ GoOn(r)
  /\ UNCHANGED <<exception, notes>>

PassDies(r) ==
  /\ pass[r].at > 0
  /\ notes.lost < MaxLost
  /\ notes' = [notes EXCEPT !.lost = @ + 1]
  /\ pass' = [pass EXCEPT ![r] = Waiting]
  /\ UNCHANGED <<exception, announced>>

\* resolveException by an admin.
Settled(k) ==
  /\ exception[k] # "none"
  /\ notes.notes < MaxNotes
  /\ notes' = [notes EXCEPT !.notes = @ + 1]
  /\ \E as \in {"ACKNOWLEDGED", "RESOLVED", "IGNORED"} : exception' = [exception EXCEPT ![k] = as]
  /\ UNCHANGED <<announced, pass>>

PassStep(r) ==
  StartPass(r) \/ Agrees(r) \/ AutoResolve(r) \/ Disagrees(r) \/ Raise(r) \/ Announce(r)
===============================================================================
