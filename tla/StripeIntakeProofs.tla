-------------------------- MODULE StripeIntakeProofs --------------------------
(***************************************************************************)
(* For any number of requests, workers, deliveries, tries and crashes: an  *)
(* event takes effect again only for a run that threw after its commit or  *)
(* a process that died, once for each, and an event logged PROCESSED is    *)
(* never processed again.                                                  *)
(***************************************************************************)
EXTENDS StripeIntake, TLAPS

\* An executor at one of these is in charge of its event.
Owning == {"ignore", "enqueue", "load", "mark", "handle", "committed", "processed", "declined", "done", "failed"}

Owns(x, e) == call[x].pc \in Owning /\ call[x].event = e

\* An executor at one of these has an effect it did not yet log.
Committed == {"committed", "processed"}

\* An event has at most one executor in charge.
Alone == \A x, y \in Executors, e \in Events : Owns(x, e) /\ Owns(y, e) => x = y

\* What an executor in the middle of a call knows of its event.
CallShape(x) ==
  LET e == call[x].event IN
  /\ call[x].pc # "idle" => e \in Events
  /\ call[x].pc \in {"lookup", "record"} => x \notin Workers
  /\ call[x].pc \in Owning => /\ log[e] # "none"
                              /\ x \in Requests => job[e] = "none"
                              /\ x \in Workers => job[e] = "active"
  /\ call[x].pc \in {"ignore", "mark", "handle", "committed", "processed", "declined", "failed"} => ~Finished(e)
  /\ call[x].pc \in Committed => handled[e] > 0

\* How log, job, tries and effects of an event go together.
EventShape(e) ==
  /\ job[e] # "none" => log[e] # "none"
  /\ log[e] = "PROCESSED" => handled[e] > 0
  /\ job[e] = "none" => tries[e] = 0
  /\ job[e] \in {"waiting", "active"} => tries[e] < MaxTries

\* Every effect but one is paid for by a run that threw after it or a process
\* that died.  The one that is not is logged, or the executor that knows of it
\* is about to log it.
EffectShape(e) ==
  \/ handled[e] <= late[e] + crashes
  \/ /\ handled[e] = 1 + late[e] + crashes
     /\ log[e] = "PROCESSED" \/ \E x \in Executors : Owns(x, e) /\ call[x].pc \in Committed

IInv ==
  /\ TypeOK
  /\ Alone
  /\ \A x \in Executors : CallShape(x)
  /\ \A e \in Events : EventShape(e) /\ EffectShape(e)
-------------------------------------------------------------------------------
(***************************************************************************)
(* Steps that concern one executor and one event                           *)
(***************************************************************************)
OthersKeep(x) ==
  /\ DOMAIN call' = Executors
  /\ \A y \in Executors \ {x} : call'[y] = call[y]

\* Nobody but x is in charge of e, and x of nothing else.
InCharge(x, e) ==
  /\ \A y \in Executors \ {x} : ~Owns(y, e)
  /\ call[x].pc \in Owning => call[x].event = e

Touches(e) ==
  /\ \A f \in Events \ {e} : /\ log'[f] = log[f]
                             /\ job'[f] = job[f]
                             /\ tries'[f] = tries[f]
                             /\ handled'[f] = handled[f]
                             /\ late'[f] = late[f]
  /\ crashes' \in {crashes, crashes + 1}

\* An event that is left alone stays explained: by the executor that is about
\* to log it or, when that one dies, by the death.
LEMMA StaysExplained ==
  ASSUME TypeOK, NEW f \in Events, EffectShape(f),
         handled'[f] = handled[f], late'[f] = late[f], log'[f] = log[f],
         crashes' \in {crashes, crashes + 1},
         crashes' = crashes =>
           \A y \in Executors : Owns(y, f) /\ call[y].pc \in Committed
                                => Owns(y, f)' /\ call'[y].pc \in Committed
  PROVE  EffectShape(f)'
<1>1. handled[f] \in Nat /\ late[f] \in Nat /\ crashes \in Nat
  BY DEF TypeOK
<1>2. CASE handled[f] <= late[f] + crashes
  BY <1>1, <1>2 DEF EffectShape
<1>3. CASE crashes' = crashes + 1
  BY <1>1, <1>3 DEF EffectShape
<1>4. CASE crashes' = crashes /\ ~(handled[f] <= late[f] + crashes)
  BY <1>4 DEF EffectShape
<1>5. QED
  BY <1>2, <1>3, <1>4

\* A step in which x, alone in charge of e, changes e and its own call.
LEMMA OwnSteps ==
  ASSUME IInv, NEW x \in Executors, NEW e \in Events,
         TypeOK', OthersKeep(x), InCharge(x, e), Touches(e),
         call'[x].pc \in Owning => call'[x].event = e,
         CallShape(x)', EventShape(e)', EffectShape(e)'
  PROVE  IInv'
<1>1. Alone'
  BY DEF IInv, Alone, Owns, OthersKeep, InCharge
<1>2. ASSUME NEW y \in Executors
      PROVE  CallShape(y)'
  <2>1. CASE y = x
    BY <2>1
  <2>2. CASE y # x /\ call[y].pc = "idle"
    BY <2>2 DEF OthersKeep, CallShape, Owning, Committed
  <2>3. CASE y # x /\ call[y].pc # "idle"
    <3>1. call'[y] = call[y] /\ CallShape(y)
      BY <2>3 DEF OthersKeep, IInv
    <3>2. call[y].event \in Events
      BY <2>3, <3>1 DEF CallShape
    <3>3. CASE call[y].event = e
      BY <2>3, <3>1, <3>3 DEF CallShape, InCharge, Owns, Owning, Committed
    <3>4. CASE call[y].event # e
      BY <3>1, <3>2, <3>4 DEF CallShape, Touches, Finished, effects
    <3>5. QED
      BY <3>3, <3>4
  <2>4. QED
    BY <2>1, <2>2, <2>3
<1>3. ASSUME NEW f \in Events
      PROVE  EventShape(f)' /\ EffectShape(f)'
  <2>1. CASE f = e
    BY <2>1
  <2>2. CASE f # e
    <3>1. EventShape(f)'
      BY <2>2 DEF IInv, EventShape, Touches, effects
    <3>2. ASSUME NEW y \in Executors, Owns(y, f), call[y].pc \in Committed
          PROVE  Owns(y, f)' /\ call'[y].pc \in Committed
      BY <2>2, <3>2 DEF Owns, InCharge, OthersKeep, Owning
    <3>3. EffectShape(f)'
      BY <2>2, <3>2, StaysExplained DEF IInv, Touches, effects
    <3>4. QED
      BY <3>1, <3>3
  <2>3. QED
    BY <2>1, <2>2
<1>4. QED
  BY <1>1, <1>2, <1>3 DEF IInv

\* A step that changes no event, before and after which x is in charge of none.
LEMMA QuietSteps ==
  ASSUME IInv, NEW x \in Executors, TypeOK', OthersKeep(x),
         UNCHANGED <<log, job, tries, handled, late>>,
         crashes' \in {crashes, crashes + 1}, call[x].pc \notin Owning,
         call'[x].pc \notin Owning,
         call'[x].pc # "idle" => call'[x].event \in Events /\ x \notin Workers
  PROVE  IInv'
<1>1. Alone'
  BY DEF IInv, Alone, Owns, OthersKeep
<1>2. ASSUME NEW y \in Executors
      PROVE  CallShape(y)'
  <2>1. CASE y = x
    BY <2>1 DEF CallShape, Owning, Committed
  <2>2. CASE y # x
    BY <2>2 DEF IInv, CallShape, OthersKeep, Finished
  <2>3. QED
    BY <2>1, <2>2
<1>3. ASSUME NEW f \in Events
      PROVE  EventShape(f)' /\ EffectShape(f)'
  <2>1. EventShape(f)'
    BY DEF IInv, EventShape
  <2>2. ASSUME NEW y \in Executors, Owns(y, f), call[y].pc \in Committed
        PROVE  Owns(y, f)' /\ call'[y].pc \in Committed
    BY <2>2 DEF Owns, OthersKeep
  <2>3. EffectShape(f)'
    BY <2>2, StaysExplained DEF IInv
  <2>4. QED
    BY <2>1, <2>3
<1>4. QED
  BY <1>1, <1>2, <1>3 DEF IInv
-------------------------------------------------------------------------------
(***************************************************************************)
(* The initial states                                                      *)
(***************************************************************************)
LEMMA InitInvariant == Init => IInv
<1> SUFFICES ASSUME Init PROVE IInv
  OBVIOUS
<1>1. TypeOK
  BY TriesAssumption, BoundsAssumption DEF Init, TypeOK, Executors, Idle
<1>2. ASSUME NEW x \in Executors
      PROVE  call[x].pc = "idle"
  BY DEF Init, Executors, Idle
<1>3. Alone
  BY <1>2 DEF Alone, Owns, Owning
<1>4. \A x \in Executors : CallShape(x)
  BY <1>2 DEF CallShape, Owning, Committed
<1>5. ASSUME NEW e \in Events
      PROVE  EventShape(e) /\ EffectShape(e)
  <2>1. log[e] = "none" /\ job[e] = "none" /\ tries[e] = 0 /\ handled[e] = 0 /\ late[e] = 0 /\ crashes = 0
    BY DEF Init
  <2>2. EventShape(e)
    BY <2>1 DEF EventShape
  <2>3. EffectShape(e)
    BY <2>1 DEF EffectShape
  <2>4. QED
    BY <2>2, <2>3
<1>6. QED
  BY <1>1, <1>3, <1>4, <1>5 DEF IInv
-------------------------------------------------------------------------------
(***************************************************************************)
(* Steps before an executor is in charge, and the step that puts it there  *)
(***************************************************************************)
LEMMA DeliverKeeps ==
  ASSUME IInv, NEW x \in Requests, NEW e \in Events, Deliver(x, e)
  PROVE  IInv'
<1>1. x \in Executors /\ x \notin Workers
  BY ExecutorsAssumption DEF Executors
<1>2. TypeOK'
  BY <1>1, BoundsAssumption DEF IInv, TypeOK, Deliver, Enter, effects
<1>3. OthersKeep(x) /\ call'[x] = [pc |-> "lookup", event |-> e]
  BY <1>1 DEF IInv, TypeOK, Deliver, Enter, OthersKeep
<1>4. QED
  BY <1>1, <1>2, <1>3, QuietSteps DEF Deliver, Owning, effects

\* An executor is at "lookup" or "record" only as a request, with an event.
LEMMA Recording ==
  ASSUME IInv, NEW x \in Executors, call[x].pc \in {"lookup", "record"}
  PROVE  x \notin Workers /\ call[x].event \in Events
BY DEF IInv, CallShape

LEMMA LookupKeeps ==
  ASSUME IInv, NEW x \in Executors, Lookup(x)
  PROVE  IInv'
<1>1. x \notin Workers /\ call[x].event \in Events
  BY Recording DEF Lookup
<1>2. TypeOK'
  BY <1>1 DEF IInv, TypeOK, Lookup, Accept, Finish, MoveTo, Idle, effects
<1>3. OthersKeep(x) /\ call'[x] \in {Idle, [pc |-> "record", event |-> call[x].event]}
  BY DEF IInv, TypeOK, Lookup, Accept, Finish, MoveTo, Idle, OthersKeep
<1>4. QED
  BY <1>1, <1>2, <1>3, QuietSteps DEF Lookup, Owning, Idle, effects

\* A row is recorded once, so whoever records it is the only one in charge.
LEMMA RecordKeeps ==
  ASSUME IInv, NEW x \in Executors, Record(x)
  PROVE  IInv'
<1>1. x \notin Workers /\ call[x].event \in Events
  BY Recording DEF Record
<1> PICK e \in Events : e = call[x].event
  BY <1>1
<1>2. TypeOK'
  BY <1>1 DEF IInv, TypeOK, Record, Accept, Finish, MoveTo, Idle, effects
<1>3. CASE log[e] # "none"
  <2>1. OthersKeep(x) /\ call'[x] = Idle /\ UNCHANGED log
    BY <1>3 DEF IInv, TypeOK, Record, Accept, Finish, Idle, OthersKeep
  <2>2. QED
    BY <1>1, <1>2, <2>1, QuietSteps DEF Record, Owning, Idle, effects
<1>4. CASE log[e] = "none"
  <2>1. /\ OthersKeep(x)
        /\ call'[x].pc \in {"enqueue", "ignore"}
        /\ call'[x].event = e
    BY <1>4 DEF IInv, TypeOK, Record, MoveTo, OthersKeep
  <2>2. log' = [log EXCEPT ![e] = "RECEIVED"]
    BY <1>4 DEF Record
  <2>3. log'[e] = "RECEIVED" /\ Touches(e)
    BY <1>1, <2>2 DEF IInv, TypeOK, Record, Touches, effects
  <2>4. InCharge(x, e)
    <3>1. ASSUME NEW y \in Executors, Owns(y, e)
          PROVE  FALSE
      BY <1>4, <3>1 DEF IInv, CallShape, Owns
    <3>2. call[x].pc \notin Owning
      BY DEF Record, Owning
    <3>3. QED
      BY <3>1, <3>2 DEF InCharge
  <2>5. job[e] = "none" /\ tries[e] = 0
    BY <1>1, <1>4 DEF IInv, EventShape
  <2>6. CallShape(x)'
    BY <1>1, <2>1, <2>3, <2>5 DEF CallShape, Owning, Record, Finished, Committed
  <2>7. EventShape(e)'
    BY <1>1, <2>3, <2>5 DEF EventShape, Record
  <2>8. EffectShape(e)'
    <3>1. EffectShape(e) /\ \A y \in Executors : ~Owns(y, e)
      BY <1>4 DEF IInv, CallShape, Owns
    <3>2. handled[e] <= late[e] + crashes
      BY <1>4, <3>1 DEF EffectShape
    <3>3. QED
      BY <3>2 DEF EffectShape, Record, effects
  <2>9. QED
    BY <1>1, <1>2, <2>1, <2>3, <2>4, <2>6, <2>7, <2>8, OwnSteps
<1>5. QED
  BY <1>3, <1>4
-------------------------------------------------------------------------------
(***************************************************************************)
(* Steps of the executor in charge                                         *)
(***************************************************************************)
LEMMA Moved ==
  ASSUME TypeOK, NEW x \in Executors, NEW pc, MoveTo(x, pc)
  PROVE  OthersKeep(x) /\ call'[x].pc = pc /\ call'[x].event = call[x].event
BY DEF TypeOK, MoveTo, OthersKeep

LEMMA Ended ==
  ASSUME TypeOK, NEW x \in Executors, Finish(x)
  PROVE  OthersKeep(x) /\ call'[x].pc = "idle"
BY DEF TypeOK, Finish, OthersKeep, Idle

\* What the executor in charge of an event knows, and that it is alone.
LEMMA Owner ==
  ASSUME IInv, NEW x \in Executors, call[x].pc \in Owning
  PROVE  \E e \in Events :
           /\ e = call[x].event
           /\ InCharge(x, e)
           /\ EventShape(e) /\ EffectShape(e)
           /\ CallShape(x)
           /\ log[e] # "none"
           /\ x \in Requests => job[e] = "none"
           /\ x \in Workers => job[e] = "active"
<1>1. CallShape(x) /\ call[x].event \in Events
  BY DEF IInv, CallShape, Owning, Committed
<1>2. InCharge(x, call[x].event)
  BY <1>1 DEF IInv, Alone, InCharge, Owns
<1>3. QED
  BY <1>1, <1>2 DEF IInv, CallShape

\* An effect nobody has yet to log is logged, or paid for.
LEMMA SoleEffect ==
  ASSUME IInv, NEW x \in Executors, NEW e \in Events,
         InCharge(x, e), call[x].pc \notin Committed
  PROVE  \/ handled[e] <= late[e] + crashes
         \/ handled[e] = 1 + late[e] + crashes /\ log[e] = "PROCESSED"
<1>1. EffectShape(e)
  BY DEF IInv
<1>2. ASSUME NEW y \in Executors, Owns(y, e), call[y].pc \in Committed
      PROVE  FALSE
  BY <1>2 DEF InCharge
<1>3. QED
  BY <1>1, <1>2 DEF EffectShape

LEMMA IgnoreKeeps ==
  ASSUME IInv, NEW x \in Executors, Ignore(x)
  PROVE  IInv'
<1> PICK e \in Events :
         /\ e = call[x].event
         /\ InCharge(x, e)
         /\ EventShape(e) /\ CallShape(x)
  BY Owner DEF Ignore, Owning
<1>1. TypeOK'
  BY DEF IInv, TypeOK, Ignore, Accept, Finish, Idle, effects
<1>2. OthersKeep(x) /\ call'[x].pc = "idle"
  BY Ended DEF IInv, Ignore, Accept
<1>3. Touches(e) /\ log'[e] = "IGNORED"
  BY DEF IInv, TypeOK, Ignore, Touches, effects
<1>4. CallShape(x)'
  BY <1>2 DEF CallShape, Owning, effects, Committed
<1>5. EventShape(e)'
  BY <1>3 DEF Ignore, EventShape, effects
<1>6. EffectShape(e)'
  BY SoleEffect DEF Ignore, EffectShape, CallShape, Finished, Committed, effects
<1>7. QED
  BY <1>1, <1>2, <1>3, <1>4, <1>5, <1>6, OwnSteps DEF Owning

LEMMA EnqueueKeeps ==
  ASSUME IInv, NEW x \in Executors, Enqueue(x)
  PROVE  IInv'
<1> PICK e \in Events :
         /\ e = call[x].event
         /\ InCharge(x, e)
         /\ EventShape(e) /\ CallShape(x)
         /\ log[e] # "none"
         /\ x \in Requests => job[e] = "none"
         /\ x \in Workers => job[e] = "active"
  BY Owner DEF Enqueue, Owning
<1>1. TypeOK'
  BY DEF IInv, TypeOK, Enqueue, Accept, Refuse, Finish, MoveTo, Idle, effects
<1>2. \/ Finish(x) /\ job' = [job EXCEPT ![e] = IF @ = "none" THEN "waiting" ELSE @]
      \/ Finish(x) /\ job' = job
      \/ MoveTo(x, "load") /\ job' = job
  BY DEF Enqueue, Accept, Refuse
<1>3. OthersKeep(x) /\ call'[x].pc \in {"idle", "load"}
  BY <1>2, Ended, Moved DEF IInv
<1>4. call'[x].pc = "load" => call'[x].event = e /\ job' = job
  BY <1>2, Ended, Moved DEF IInv
<1>5. Touches(e)
  BY <1>2 DEF IInv, TypeOK, Enqueue, Touches, effects
<1>6. CallShape(x)'
  BY <1>3, <1>4 DEF Enqueue, CallShape, Owning, effects, Committed
<1>7. EventShape(e)'
  BY <1>2, TriesAssumption DEF IInv, TypeOK, Enqueue, EventShape, effects
<1>8. EffectShape(e)'
  BY SoleEffect DEF Enqueue, EffectShape, Committed, effects
<1>9. QED
  BY <1>1, <1>3, <1>4, <1>5, <1>6, <1>7, <1>8, OwnSteps DEF Owning

\* A waiting job has nobody in charge of its event.
LEMMA TakeKeeps ==
  ASSUME IInv, NEW x \in Workers, NEW e \in Events, Take(x, e)
  PROVE  IInv'
<1>1. x \in Executors /\ x \notin Requests
  BY ExecutorsAssumption DEF Executors
<1>2. TypeOK'
  BY <1>1 DEF IInv, TypeOK, Take, Enter, stripe, effects
<1>3. OthersKeep(x) /\ call'[x] = [pc |-> "load", event |-> e]
  BY <1>1 DEF IInv, TypeOK, Take, Enter, OthersKeep
<1>4. InCharge(x, e)
  <2>1. ASSUME NEW y \in Executors, Owns(y, e)
        PROVE  FALSE
    BY <2>1 DEF IInv, CallShape, Owns, Take, Executors
  <2>2. QED
    BY <2>1 DEF InCharge, Take, Owning
<1>5. Touches(e) /\ job'[e] = "active"
  BY DEF IInv, TypeOK, Take, Touches, effects
<1>6. EventShape(e)
  BY DEF IInv
<1>7. CallShape(x)'
  BY <1>1, <1>3, <1>5, <1>6 DEF CallShape, Owning, EventShape, Take, effects, Committed
<1>8. EventShape(e)'
  BY <1>5, <1>6 DEF EventShape, Take, effects
<1>9. EffectShape(e)'
  BY <1>1, <1>4, SoleEffect DEF EffectShape, Take, Committed, effects
<1>10. QED
  BY <1>1, <1>2, <1>3, <1>4, <1>5, <1>7, <1>8, <1>9, OwnSteps

LEMMA LoadKeeps ==
  ASSUME IInv, NEW x \in Executors, Load(x)
  PROVE  IInv'
<1> PICK e \in Events :
         /\ e = call[x].event
         /\ InCharge(x, e)
         /\ EventShape(e) /\ CallShape(x)
         /\ log[e] # "none"
         /\ x \in Requests => job[e] = "none"
         /\ x \in Workers => job[e] = "active"
  BY Owner DEF Load, Owning
<1>1. TypeOK'
  BY DEF IInv, TypeOK, Load, Succeed, Accept, Finish, MoveTo, Idle, effects
<1>2. \/ Finish(x) /\ job' \in {job, [job EXCEPT ![e] = "completed"]}
      \/ MoveTo(x, "mark") /\ job' = job /\ ~Finished(e)
  BY DEF Load, Succeed, Accept
<1>3. OthersKeep(x) /\ call'[x].pc \in {"idle", "mark"}
  BY <1>2, Ended, Moved DEF IInv
<1>4. call'[x].pc = "mark" => call'[x].event = e /\ job' = job /\ ~Finished(e)
  BY <1>2, Ended, Moved DEF IInv
<1>5. Touches(e)
  BY <1>2 DEF IInv, TypeOK, Load, Touches, effects
<1>6. CallShape(x)'
  BY <1>3, <1>4 DEF Load, CallShape, Owning, Finished, effects, Committed
<1>7. EventShape(e)'
  BY <1>2 DEF IInv, TypeOK, Load, EventShape, effects
<1>8. EffectShape(e)'
  BY SoleEffect DEF Load, EffectShape, Committed, effects
<1>9. QED
  BY <1>1, <1>3, <1>4, <1>5, <1>6, <1>7, <1>8, OwnSteps DEF Owning

LEMMA MarkKeeps ==
  ASSUME IInv, NEW x \in Executors, Mark(x)
  PROVE  IInv'
<1> PICK e \in Events :
         /\ e = call[x].event
         /\ InCharge(x, e)
         /\ EventShape(e) /\ CallShape(x)
         /\ x \in Requests => job[e] = "none"
         /\ x \in Workers => job[e] = "active"
  BY Owner DEF Mark, Owning
<1>1. TypeOK'
  BY DEF IInv, TypeOK, Mark, MoveTo, stripe, effects
<1>2. OthersKeep(x) /\ call'[x].pc = "handle" /\ call'[x].event = e
  BY Moved DEF IInv, Mark
<1>3. Touches(e) /\ log'[e] = "PROCESSING"
  BY DEF IInv, TypeOK, Mark, Touches, effects
<1>4. CallShape(x)'
  BY <1>2, <1>3 DEF Mark, CallShape, Owning, Finished, effects, Committed
<1>5. EventShape(e)'
  BY <1>3 DEF Mark, EventShape, effects
<1>6. EffectShape(e)'
  BY SoleEffect DEF Mark, EffectShape, CallShape, Finished, Committed, effects
<1>7. QED
  BY <1>1, <1>2, <1>3, <1>4, <1>5, <1>6, OwnSteps

\* An effect that is neither logged nor known to somebody else was paid for,
\* so the one committed now is the only one that is not.
LEMMA CommitsKeeps ==
  ASSUME IInv, NEW x \in Executors, Commits(x)
  PROVE  IInv'
<1> PICK e \in Events :
         /\ e = call[x].event
         /\ InCharge(x, e)
         /\ EventShape(e) /\ CallShape(x)
         /\ log[e] # "none"
         /\ x \in Requests => job[e] = "none"
         /\ x \in Workers => job[e] = "active"
  BY Owner DEF Commits, Owning
<1>1. TypeOK'
  BY DEF IInv, TypeOK, Commits, MoveTo, stripe, effects
<1>2. OthersKeep(x) /\ call'[x].pc = "committed" /\ call'[x].event = e
  BY Moved DEF IInv, Commits
<1>3. Touches(e) /\ handled'[e] = handled[e] + 1
  BY DEF IInv, TypeOK, Commits, Touches, effects
<1>4. handled[e] \in Nat /\ late[e] \in Nat /\ crashes \in Nat
  BY DEF IInv, TypeOK
<1>5. CallShape(x)'
  BY <1>2, <1>3, <1>4 DEF Commits, CallShape, Owning, Finished, effects, Committed
<1>6. EventShape(e)'
  BY <1>3, <1>4 DEF Commits, EventShape, effects
<1>7. handled[e] <= late[e] + crashes
  BY SoleEffect DEF Commits, CallShape, Finished, Committed, effects
<1>8. Owns(x, e)' /\ call'[x].pc \in Committed
  BY <1>2 DEF Owns, Owning, Committed
<1>9. EffectShape(e)'
  BY <1>3, <1>4, <1>7, <1>8 DEF Commits, EffectShape
<1>10. QED
  BY <1>1, <1>2, <1>3, <1>5, <1>6, <1>9, OwnSteps

\* An executor that goes on to "processed" still owns what it owned.
LEMMA CompletesKeeps ==
  ASSUME IInv, NEW x \in Executors, Completes(x)
  PROVE  IInv'
<1> PICK e \in Events :
         /\ e = call[x].event
         /\ InCharge(x, e)
         /\ EventShape(e) /\ EffectShape(e) /\ CallShape(x)
         /\ log[e] # "none"
         /\ x \in Requests => job[e] = "none"
         /\ x \in Workers => job[e] = "active"
  BY Owner DEF Completes, Owning
<1>1. TypeOK'
  BY DEF IInv, TypeOK, Completes, MoveTo, stripe, effects
<1>2. OthersKeep(x) /\ call'[x].pc = "processed" /\ call'[x].event = e
  BY Moved DEF IInv, Completes
<1>3. CallShape(x)'
  BY <1>2 DEF Completes, CallShape, Owning, Committed, Finished, effects
<1>4. EventShape(e)'
  BY DEF Completes, EventShape, effects
<1>5. EffectShape(e)'
  <2>1. Owns(x, e)' /\ call'[x].pc \in Committed
    BY <1>2 DEF Owns, Owning, Committed
  <2>2. QED
    BY <2>1 DEF Completes, EffectShape, effects
<1>6. Touches(e)
  BY DEF Completes, Touches, effects
<1>7. QED
  BY <1>1, <1>2, <1>3, <1>4, <1>5, <1>6, OwnSteps

\* A run that throws after its commit pays for the effect it leaves behind.
LEMMA ThrowsKeeps ==
  ASSUME IInv, NEW x \in Executors, Throws(x)
  PROVE  IInv'
<1> PICK e \in Events :
         /\ e = call[x].event
         /\ InCharge(x, e)
         /\ EventShape(e) /\ EffectShape(e) /\ CallShape(x)
         /\ log[e] # "none"
         /\ x \in Requests => job[e] = "none"
         /\ x \in Workers => job[e] = "active"
  BY Owner DEF Throws, Owning
<1>1. TypeOK'
  BY DEF IInv, TypeOK, Throws, MoveTo, stripe, effects
<1>2. OthersKeep(x) /\ call'[x].pc = "failed" /\ call'[x].event = e
  BY Moved DEF IInv, Throws
<1>3. CallShape(x)'
  BY <1>2 DEF Throws, CallShape, Owning, Committed, Finished, effects
<1>4. EventShape(e)'
  BY DEF Throws, EventShape, effects
<1>5. handled[e] \in Nat /\ late[e] \in Nat /\ crashes \in Nat
  BY DEF IInv, TypeOK
<1>6. Touches(e) /\ late'[e] = IF call[x].pc = "committed" THEN late[e] + 1 ELSE late[e]
  BY DEF IInv, TypeOK, Throws, Touches, effects
<1>7. EffectShape(e)'
  <2>1. CASE call[x].pc = "committed"
    BY <1>5, <1>6, <2>1 DEF Throws, EffectShape
  <2>2. CASE call[x].pc = "handle"
    BY <1>6, <2>2, SoleEffect DEF Throws, EffectShape, CallShape, Finished, Committed
  <2>3. QED
    BY <2>1, <2>2 DEF Throws
<1>8. QED
  BY <1>1, <1>2, <1>3, <1>4, <1>6, <1>7, OwnSteps

LEMMA DeclinesKeeps ==
  ASSUME IInv, NEW x \in Executors, Declines(x)
  PROVE  IInv'
<1> PICK e \in Events :
         /\ e = call[x].event
         /\ InCharge(x, e)
         /\ EventShape(e) /\ CallShape(x)
         /\ log[e] # "none"
         /\ x \in Requests => job[e] = "none"
         /\ x \in Workers => job[e] = "active"
  BY Owner DEF Declines, Owning
<1>1. TypeOK'
  BY DEF IInv, TypeOK, Declines, MoveTo, stripe, effects
<1>2. OthersKeep(x) /\ call'[x].pc = "declined" /\ call'[x].event = e
  BY Moved DEF IInv, Declines
<1>3. CallShape(x)'
  BY <1>2 DEF Declines, CallShape, Owning, Finished, effects, Committed
<1>4. EventShape(e)'
  BY DEF Declines, EventShape, effects
<1>5. EffectShape(e)'
  BY SoleEffect DEF Declines, EffectShape, Committed, effects
<1>6. Touches(e)
  BY DEF Declines, Touches, effects
<1>7. QED
  BY <1>1, <1>2, <1>3, <1>4, <1>5, <1>6, OwnSteps

LEMMA WriteOutcomeKeeps ==
  ASSUME IInv, NEW x \in Executors, WriteOutcome(x)
  PROVE  IInv'
<1> PICK e \in Events :
         /\ e = call[x].event
         /\ InCharge(x, e)
         /\ EventShape(e) /\ EffectShape(e) /\ CallShape(x)
         /\ x \in Requests => job[e] = "none"
         /\ x \in Workers => job[e] = "active"
  BY Owner DEF WriteOutcome, Owning
<1>1. TypeOK'
  BY DEF IInv, TypeOK, WriteOutcome, MoveTo, stripe, effects
<1>2. OthersKeep(x) /\ call'[x].pc = "done" /\ call'[x].event = e
  BY Moved DEF IInv, WriteOutcome
<1>3. Touches(e) /\ log'[e] = IF call[x].pc = "processed" THEN "PROCESSED" ELSE "IGNORED"
  BY DEF IInv, TypeOK, WriteOutcome, Touches, effects
<1>4. CallShape(x)'
  BY <1>2, <1>3 DEF WriteOutcome, CallShape, Owning, Finished, effects, Committed
<1>5. EventShape(e)'
  BY <1>3 DEF WriteOutcome, EventShape, CallShape, Committed, effects
<1>6. EffectShape(e)'
  <2>1. CASE call[x].pc = "processed"
    BY <1>3, <2>1 DEF WriteOutcome, EffectShape, effects
  <2>2. CASE call[x].pc = "declined"
    BY <2>2, SoleEffect DEF WriteOutcome, EffectShape, CallShape, Finished, Committed, effects
  <2>3. QED
    BY <2>1, <2>2 DEF WriteOutcome
<1>7. QED
  BY <1>1, <1>2, <1>3, <1>4, <1>5, <1>6, OwnSteps

LEMMA ReturnKeeps ==
  ASSUME IInv, NEW x \in Executors, Return(x)
  PROVE  IInv'
<1> PICK e \in Events :
         /\ e = call[x].event
         /\ InCharge(x, e)
         /\ EventShape(e)
         /\ log[e] # "none"
         /\ x \in Requests => job[e] = "none"
  BY Owner DEF Return, Owning
<1>1. TypeOK'
  BY DEF IInv, TypeOK, Return, Succeed, Accept, Finish, Idle, effects
<1>2. Finish(x) /\ job' \in {job, [job EXCEPT ![e] = "completed"]}
  BY DEF Return, Succeed, Accept
<1>3. OthersKeep(x) /\ call'[x].pc = "idle"
  BY <1>2, Ended DEF IInv
<1>4. Touches(e)
  BY <1>2 DEF IInv, TypeOK, Return, Touches, effects
<1>5. CallShape(x)'
  BY <1>3 DEF CallShape, Owning, effects, Committed
<1>6. EventShape(e)'
  BY <1>2 DEF IInv, TypeOK, Return, EventShape, effects
<1>7. EffectShape(e)'
  BY SoleEffect DEF Return, EffectShape, Committed, effects
<1>8. QED
  BY <1>1, <1>3, <1>4, <1>5, <1>6, <1>7, OwnSteps DEF Owning

\* A failed job has a try left before it fails: the last failure ends it.
LEMMA WriteFailedKeeps ==
  ASSUME IInv, NEW x \in Executors, WriteFailed(x)
  PROVE  IInv'
<1> PICK e \in Events :
         /\ e = call[x].event
         /\ InCharge(x, e)
         /\ EventShape(e) /\ CallShape(x)
         /\ x \in Requests => job[e] = "none"
         /\ x \in Workers => job[e] = "active"
  BY Owner DEF WriteFailed, Owning
<1>1. tries[e] \in 0..MaxTries /\ (x \in Workers => tries[e] < MaxTries)
  BY DEF IInv, TypeOK, EventShape
<1>2. \/ /\ x \in Workers
         /\ tries' = [tries EXCEPT ![e] = @ + 1]
         /\ job' = [job EXCEPT ![e] = IF tries[e] + 1 < MaxTries THEN "waiting" ELSE "failed"]
      \/ x \in Requests /\ tries' = tries /\ job' = job
  BY DEF WriteFailed, GiveUp
<1>3. Finish(x) /\ UNCHANGED answered /\ log' = [log EXCEPT ![e] = "FAILED"]
  BY DEF WriteFailed, GiveUp, Refuse
<1>4. TypeOK'
  <2>1. tries' \in [Events -> 0..MaxTries]
    BY <1>1, <1>2, TriesAssumption DEF IInv, TypeOK
  <2>2. job' \in [Events -> {"none", "waiting", "active", "completed", "failed"}]
    BY <1>2 DEF IInv, TypeOK
  <2>3. QED
    BY <1>3, <2>1, <2>2 DEF IInv, TypeOK, WriteFailed, Finish, Idle, effects
<1>5. OthersKeep(x) /\ call'[x].pc = "idle"
  BY <1>3, Ended DEF IInv
<1>6. Touches(e) /\ log'[e] = "FAILED"
  BY <1>2, <1>3 DEF IInv, TypeOK, WriteFailed, Touches, effects
<1>7. CallShape(x)'
  BY <1>5 DEF CallShape, Owning, effects, Committed
<1>8. EventShape(e)'
  BY <1>1, <1>2, <1>6, TriesAssumption DEF IInv, TypeOK, EventShape, effects
<1>9. EffectShape(e)'
  BY SoleEffect DEF WriteFailed, EffectShape, CallShape, Finished, Committed, effects
<1>10. QED
  BY <1>4, <1>5, <1>6, <1>7, <1>8, <1>9, OwnSteps DEF Owning
-------------------------------------------------------------------------------
(***************************************************************************)
(* An executor dies                                                        *)
(***************************************************************************)
LEMMA CrashKeeps ==
  ASSUME IInv, NEW x \in Executors, Crash(x)
  PROVE  IInv'
<1>1. OthersKeep(x) /\ call'[x].pc = "idle"
  BY Ended DEF IInv, Crash
<1>2. crashes' \in 0..MaxCrashes /\ crashes' = crashes + 1
  BY BoundsAssumption DEF IInv, TypeOK, Crash
<1>3. TypeOK'
  BY <1>2 DEF IInv, TypeOK, Crash, Finish, Idle, stripe, effects
<1>4. CASE call[x].pc \in Owning
  <2> PICK e \in Events :
           /\ e = call[x].event
           /\ InCharge(x, e)
           /\ EventShape(e)
           /\ log[e] # "none"
           /\ x \in Workers => job[e] = "active"
    BY <1>4, Owner
  <2>1. \E to \in {"waiting", "failed"} :
          job' = IF x \in Workers THEN [job EXCEPT ![e] = to] ELSE job
    BY DEF Crash
  <2>2. Touches(e)
    BY <1>2, <2>1 DEF IInv, TypeOK, Crash, Touches, effects
  <2>3. CallShape(x)'
    BY <1>1 DEF CallShape, Owning, Committed
  <2>4. EventShape(e)'
    BY <2>1 DEF IInv, TypeOK, Crash, EventShape, effects
  <2>5. EffectShape(e)'
    <3>1. EffectShape(e) /\ handled[e] \in Nat /\ late[e] \in Nat /\ crashes \in Nat
      BY DEF IInv, TypeOK
    <3>2. QED
      BY <3>1 DEF EffectShape, Crash, effects
  <2>6. QED
    BY <1>1, <1>3, <2>2, <2>3, <2>4, <2>5, OwnSteps DEF Owning
<1>5. CASE call[x].pc \notin Owning
  <2>1. call[x].pc \in {"lookup", "record"}
    BY <1>5 DEF IInv, TypeOK, Crash, Owning
  <2>2. x \notin Workers
    BY <2>1, Recording
  <2>3. QED
    BY <1>1, <1>2, <1>3, <2>1, <2>2, QuietSteps DEF Crash, Owning, effects
<1>6. QED
  BY <1>4, <1>5
-------------------------------------------------------------------------------
(***************************************************************************)
(* The theorems                                                            *)
(***************************************************************************)
LEMMA NextInvariant == IInv /\ [Next]_vars => IInv'
<1> SUFFICES ASSUME IInv, [Next]_vars PROVE IInv'
  OBVIOUS
<1>1. CASE UNCHANGED vars
  BY <1>1 DEF vars, IInv, TypeOK, Alone, Owns, CallShape, EventShape, EffectShape, Finished
<1>2. ASSUME NEW x \in Requests, NEW e \in Events, Deliver(x, e)
      PROVE  IInv'
  BY <1>2, DeliverKeeps
<1>3. ASSUME NEW x \in Workers, NEW e \in Events, Take(x, e)
      PROVE  IInv'
  BY <1>3, TakeKeeps
<1>4. ASSUME NEW x \in Executors, Continue(x)
      PROVE  IInv'
  <2>1. CASE Lookup(x) \/ Record(x) \/ Ignore(x) \/ Enqueue(x)
    BY <2>1, LookupKeeps, RecordKeeps, IgnoreKeeps, EnqueueKeeps
  <2>2. CASE Load(x) \/ Mark(x) \/ Completes(x) \/ Declines(x) \/ Throws(x)
    BY <2>2, LoadKeeps, MarkKeeps, CompletesKeeps, DeclinesKeeps, ThrowsKeeps
  <2>3. CASE WriteOutcome(x) \/ Return(x) \/ WriteFailed(x)
    BY <2>3, WriteOutcomeKeeps, ReturnKeeps, WriteFailedKeeps
  <2>4. QED
    BY <1>4, <2>1, <2>2, <2>3 DEF Continue
<1>5. ASSUME NEW x \in Executors, Crash(x) \/ Commits(x)
      PROVE  IInv'
  BY <1>5, CrashKeeps, CommitsKeeps
<1>6. QED
  BY <1>1, <1>2, <1>3, <1>4, <1>5 DEF Next, Step

\* The inductive invariant of the intake.
THEOREM Invariance == Spec => []IInv
<1>1. Init => IInv
  BY InitInvariant
<1>2. IInv /\ [Next]_vars => IInv'
  BY NextInvariant
<1>3. QED
  BY <1>1, <1>2, PTL DEF Spec

\* Every variable keeps its type; in particular no job fails more often than
\* it has tries.
THEOREM TypeCorrectness == Spec => []TypeOK
<1>1. IInv => TypeOK
  BY DEF IInv
<1>2. QED
  BY <1>1, Invariance, PTL

\* However many deliveries race: an event takes effect once, and again at most
\* once for each run that threw after its commit and each process that died.
THEOREM SingleEffect == Spec => []HandledOncePerFailure
<1>1. IInv => HandledOncePerFailure
  <2> SUFFICES ASSUME IInv, NEW e \in Events
               PROVE  handled[e] <= 1 + late[e] + crashes
    BY DEF HandledOncePerFailure
  <2>1. EffectShape(e) /\ handled[e] \in Nat /\ late[e] \in Nat /\ crashes \in Nat
    BY DEF IInv, TypeOK
  <2>2. QED
    BY <2>1 DEF EffectShape
<1>2. QED
  BY <1>1, Invariance, PTL

\* Whoever writes to an event's row or runs its handler has found the event
\* unfinished, and nobody else can have finished it since.
LEMMA FinishedIsLeftAlone ==
  ASSUME IInv, [Next]_vars, NEW e \in Events, log[e] = "PROCESSED"
  PROVE  log'[e] = "PROCESSED" /\ handled'[e] = handled[e]
<1>1. CASE UNCHANGED vars
  BY <1>1 DEF vars
<1>2. ASSUME NEW x \in Requests, NEW f \in Events, Deliver(x, f)
      PROVE  UNCHANGED <<log, handled>>
  BY <1>2 DEF Deliver, effects
<1>3. ASSUME NEW x \in Workers, NEW f \in Events, Take(x, f)
      PROVE  UNCHANGED <<log, handled>>
  BY <1>3 DEF Take, effects
<1>4. ASSUME NEW x \in Executors,
             Lookup(x) \/ Enqueue(x) \/ Load(x) \/ Completes(x) \/ Declines(x) \/ Throws(x)
             \/ Return(x) \/ Crash(x)
      PROVE  UNCHANGED <<log, handled>>
  BY <1>4 DEF Lookup, Enqueue, Load, Completes, Declines, Throws, Return, Crash, effects
<1>5. ASSUME NEW x \in Executors, Record(x)
      PROVE  log'[e] = "PROCESSED" /\ UNCHANGED handled
  BY <1>5 DEF IInv, TypeOK, Record, effects
<1>6. ASSUME NEW x \in Executors, Ignore(x) \/ Mark(x) \/ Commits(x) \/ WriteOutcome(x) \/ WriteFailed(x)
      PROVE  log'[e] = "PROCESSED" /\ handled'[e] = handled[e]
  <2>1. call[x].pc \in {"ignore", "mark", "handle", "processed", "declined", "failed"}
    BY <1>6 DEF Ignore, Mark, Commits, WriteOutcome, WriteFailed
  <2>2. call[x].event # e
    BY <2>1 DEF IInv, CallShape, Finished
  <2>3. QED
    BY <1>6, <2>2 DEF IInv, TypeOK, Ignore, Mark, Commits, WriteOutcome, WriteFailed, effects
<1>7. QED
  BY <1>1, <1>2, <1>3, <1>4, <1>5, <1>6 DEF Next, Step, Continue

\* An event logged PROCESSED took effect and is never processed again.
THEOREM ProcessedOnce == Spec => ProcessedForGood
<1>1. IInv /\ IInv' /\ [Next]_vars =>
        [\A e \in Events :
           /\ log'[e] = "PROCESSED" => handled'[e] > 0
           /\ log[e] = "PROCESSED" => log'[e] = "PROCESSED" /\ handled'[e] = handled[e]]_vars
  <2> SUFFICES ASSUME IInv, IInv', [Next]_vars, NEW e \in Events
               PROVE  /\ log'[e] = "PROCESSED" => handled'[e] > 0
                      /\ log[e] = "PROCESSED" => log'[e] = "PROCESSED" /\ handled'[e] = handled[e]
    OBVIOUS
  <2>1. log'[e] = "PROCESSED" => handled'[e] > 0
    BY DEF IInv, EventShape
  <2>2. QED
    BY <2>1, FinishedIsLeftAlone
<1>2. QED
  BY <1>1, Invariance, PTL DEF Spec, ProcessedForGood
===============================================================================
