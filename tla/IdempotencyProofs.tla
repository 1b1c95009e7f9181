-------------------------- MODULE IdempotencyProofs --------------------------
(***************************************************************************)
(* For any number of requests, any length of the lease and any number of   *)
(* failures: a key does its work once, but for the failures the gate       *)
(* cannot see, and what it replays is the answer of the same work.         *)
(***************************************************************************)
EXTENDS Idempotency, FiniteSetTheorems, TLAPS

PCs == {"sent", "create", "takeover", "store", "release", "done", "dead"} \cup Working
Before == {"sent", "create", "takeover"}

Owns(r) == row.state # "none" /\ row.owner = r

\* Requests that will take effect, or give the key free.
Pending == {r \in Requests : req[r].pc \in {"work", "release"}}

\* The key can be claimed, now or by taking over.
Open == \/ row.state = "none"
        \/ row.state = "claimed" /\ (~ Live(row.owner) \/ age = Lease)

\* What is spent, what is about to be and what may be claimed, against what
\* has gone wrong.
Budget == Cardinality(effects) + Cardinality(Pending) + (IF Open THEN 1 ELSE 0)
            <= 1 + Cardinality(slips)

\* Where a request is shows whether it took effect and what it answered.
RequestShape(r) ==
  /\ req[r].pc \in {"worked", "store"} => r \in effects
  /\ req[r].pc \in Before \cup {"work"} => r \notin effects
  /\ req[r].pc = "store" => req[r].answer = "ok"
  /\ req[r].answer = "ok" => req[r].pc \in {"store", "done", "dead"}

\* The owner has claimed; a copy of lockedAt is that of an abandoned claim.
RowShape ==
  /\ row.state # "none" => /\ row.owner \in Requests
                           /\ req[row.owner].pc \notin Before
                           /\ row.body = req[row.owner].body
  /\ \A r \in current : age = Lease /\ req[r].body = row.body

\* Each kind of failure happens to a request once.
SlipShape(r) ==
  /\ <<"halfway", r>> \in slips => req[r].pc \in {"release", "done", "dead"}
  /\ <<"unstored", r>> \in slips => req[r].pc = "done"
  /\ <<"died", r>> \in slips => req[r].pc = "dead"
  /\ <<"overran", r>> \in slips => req[r].pc \notin Before /\ (Owns(r) => age = Lease)
  /\ <<"expired", r>> \in slips => req[r].pc \notin Before /\ ~ Owns(r)

\* A request at work without the claim has lost it to one of two failures.
LostShape ==
  /\ \A r \in Requests : Live(r) /\ ~ Owns(r) => Outlived
  /\ row.state = "claimed" /\ age = Lease /\ Live(row.owner) => Outlived

\* What is stored, and what was replayed, is an answer to the same work.
SameWork(s, body) ==
  /\ s \in effects
  /\ req[s].answer = "ok"
  /\ req[s].body = body \/ Outlived

ReplayShape ==
  /\ row.state = "completed" => SameWork(row.response, row.body)
  /\ \A r \in Requests : req[r].answer = "replay" => SameWork(req[r].from, req[r].body)

IInv ==
  /\ TypeOK
  /\ IsFiniteSet(slips)
  /\ Budget
  /\ \A r \in Requests : RequestShape(r) /\ SlipShape(r)
  /\ RowShape
  /\ LostShape
  /\ ReplayShape
-------------------------------------------------------------------------------
LEMMA InitIInv == Init => IInv
<1> SUFFICES ASSUME Init PROVE IInv
  OBVIOUS
<1>1. PICK asked \in Asked : req = [r \in Requests |-> [pc |-> "sent", body |-> asked[r],
                                       answer |-> Nobody, from |-> Nobody]]
  BY DEF Init
<1>2. asked \in [Requests -> Bodies]
  BY BodiesAssumption
<1>3. TypeOK
  BY <1>1, <1>2, LeaseAssumption DEF Init, TypeOK, Working
<1>4. Pending = {} /\ Open
  BY <1>1 DEF Init, Pending, Open, NoRow
<1>5. Budget /\ IsFiniteSet(slips)
  BY <1>4, FS_EmptySet DEF Init, Budget
<1>6. \A r \in Requests : RequestShape(r) /\ SlipShape(r)
  BY <1>1 DEF Init, RequestShape, SlipShape, Before, Nobody
<1>7. RowShape /\ LostShape /\ ReplayShape
  BY <1>1 DEF Init, RowShape, LostShape, ReplayShape, NoRow, Live, Working, Nobody
<1> QED
  BY <1>3, <1>5, <1>6, <1>7 DEF IInv

ReqType == [pc : PCs, body : Bodies, answer : {Nobody, "ok", "failed", "replay", "reused"},
            from : Requests \cup {Nobody}]

RowType == \/ row = NoRow
           \/ row \in [state : {"claimed"}, body : Bodies, owner : Requests, response : {Nobody}]
           \/ row \in [state : {"completed"}, body : Bodies, owner : Requests, response : Requests]

Types ==
  /\ RowType
  /\ age \in 0..Lease
  /\ current \subseteq Requests /\ effects \subseteq Requests
  /\ slips \subseteq {"halfway", "unstored", "died", "overran", "expired"} \X Requests
  /\ req \in [Requests -> ReqType]

LEMMA TypesAreTypeOK == (TypeOK <=> Types) /\ (TypeOK' <=> Types')
BY DEF TypeOK, Types, RowType, ReqType, PCs

\* The request that moves keeps its type, and so do the others.
LEMMA MoveType ==
  ASSUME req \in [Requests -> ReqType], NEW r \in Requests, NEW pc \in PCs,
         NEW what \in {Nobody, "ok", "failed", "replay", "reused"},
         NEW from \in Requests \cup {Nobody},
         MoveTo(r, pc) \/ Answer(r, pc, what, from)
  PROVE  req' \in [Requests -> ReqType]
BY DEF MoveTo, Answer, ReqType

LEMMA TypeStep == TypeOK /\ [Next]_vars => TypeOK'
<1> SUFFICES ASSUME Types, [Next]_vars PROVE Types'
  BY TypesAreTypeOK
<1> USE LeaseAssumption
<1>1. row.state # "none" => row.owner \in Requests
  BY DEF Types, RowType, NoRow
<1>2. CASE UNCHANGED vars
  BY <1>2 DEF vars, Types, RowType
<1>3. CASE Tick
  BY <1>1, <1>3 DEF Tick, Slip, Types, RowType
<1>4. CASE Cleanup
  BY <1>1, <1>4 DEF Cleanup, Slip, NewRow, Types, RowType
<1>5. ASSUME NEW r \in Requests, Proceed(r) \/ Die(r) PROVE Types'
  <2>1. CASE Lookup(r)
    <3>1. row.state = "completed" => row.response \in Requests
      BY DEF Types, RowType, NoRow
    <3>2. req' \in [Requests -> ReqType]
      BY <2>1, <3>1, MoveType DEF Lookup, Types, PCs
    <3> QED
      BY <2>1, <3>2 DEF Lookup, Types, RowType
  <2>2. CASE Create(r)
    <3>1. req' \in [Requests -> ReqType]
      BY <2>2, MoveType DEF Create, Types, PCs, Working
    <3>2. req[r].body \in Bodies
      BY DEF Types, ReqType
    <3> QED
      BY <2>2, <3>1, <3>2 DEF Create, NewRow, Same, Claimed, Types, RowType
  <2>3. CASE TakeOver(r)
    <3>1. StillAbandoned(r) => [row EXCEPT !.owner = r]
            \in [state : {"claimed"}, body : Bodies, owner : Requests, response : {Nobody}]
      BY DEF Types, RowType, StillAbandoned, NoRow
    <3>2. req' \in [Requests -> ReqType]
      BY <2>3, MoveType DEF TakeOver, Types, PCs, Working
    <3> QED
      BY <2>3, <3>1, <3>2 DEF TakeOver, NewRow, Types, RowType
  <2>4. CASE Work(r)
    <3>1. req' \in [Requests -> ReqType]
      BY <2>4, MoveType DEF Work, Types, PCs, Working
    <3> QED
      BY <2>4, <3>1 DEF Work, Same, Types, RowType
  <2>5. CASE Fail(r)
    <3>1. req' \in [Requests -> ReqType]
      BY <2>5, MoveType DEF Fail, Types, PCs
    <3> QED
      BY <2>5, <3>1 DEF Fail, Same, Slip, Types, RowType
  <2>6. CASE Succeed(r)
    <3>1. req' \in [Requests -> ReqType]
      BY <2>6, MoveType DEF Succeed, Types, PCs
    <3> QED
      BY <2>6, <3>1 DEF Succeed, Same, Types, RowType
  <2>7. CASE Store(r)
    <3>1. row.state # "none" => [row EXCEPT !.state = "completed", !.response = r]
            \in [state : {"completed"}, body : Bodies, owner : Requests, response : Requests]
      <4>1. CASE row = NoRow
        BY <4>1 DEF NoRow
      <4>2. CASE row \in [state : {"claimed"}, body : Bodies, owner : Requests, response : {Nobody}]
        BY <4>2
      <4>3. CASE row \in [state : {"completed"}, body : Bodies, owner : Requests, response : Requests]
        BY <4>3
      <4> QED
        BY <4>1, <4>2, <4>3 DEF Types, RowType
    <3>2. req' \in [Requests -> ReqType]
      BY <2>7, MoveType DEF Store, Types, PCs
    <3>3. RowType'
      <4>1. CASE row.state = "none"
        BY <2>7, <4>1 DEF Store, Types, RowType
      <4>2. CASE row.state # "none"
        BY <2>7, <3>1, <4>2 DEF Store, RowType
      <4> QED
        BY <4>1, <4>2
    <3> QED
      BY <2>7, <3>2, <3>3 DEF Store, Types
  <2>8. CASE Release(r)
    <3>1. req' \in [Requests -> ReqType]
      BY <2>8, MoveType DEF Release, Types, PCs
    <3> QED
      BY <2>8, <3>1 DEF Release, NewRow, Types, RowType
  <2>9. CASE NotRecorded(r)
    <3>1. req' \in [Requests -> ReqType]
      BY <2>9, MoveType DEF NotRecorded, Types, PCs
    <3> QED
      BY <2>9, <3>1 DEF NotRecorded, Same, Slip, Types, RowType
  <2>10. CASE Die(r)
    <3>1. req' \in [Requests -> ReqType]
      BY <2>10, MoveType DEF Die, Types, PCs
    <3> QED
      BY <2>10, <3>1 DEF Die, Slip, Types, RowType
  <2> QED
    BY <1>5, <2>1, <2>2, <2>3, <2>4, <2>5, <2>6, <2>7, <2>8, <2>9, <2>10 DEF Proceed
<1> QED
  BY <1>2, <1>3, <1>4, <1>5 DEF Next
-------------------------------------------------------------------------------
(***************************************************************************)
(* What the steps share.                                                   *)
(***************************************************************************)
\* Only r moves, to pc; only an answer touches the other fields.
LEMMA Moves ==
  ASSUME TypeOK, NEW r \in Requests, NEW pc, MoveTo(r, pc)
  PROVE  /\ \A x \in Requests \ {r} : req'[x] = req[x]
         /\ req'[r].pc = pc
         /\ \A x \in Requests : /\ req'[x].body = req[x].body
                               /\ req'[x].answer = req[x].answer
                               /\ req'[x].from = req[x].from
BY TypesAreTypeOK DEF MoveTo, Types, ReqType

LEMMA Answers ==
  ASSUME TypeOK, NEW r \in Requests, NEW pc, NEW what, NEW from, Answer(r, pc, what, from)
  PROVE  /\ \A x \in Requests \ {r} : req'[x] = req[x]
         /\ req'[r].pc = pc /\ req'[r].answer = what /\ req'[r].from = from
         /\ \A x \in Requests : req'[x].body = req[x].body
BY TypesAreTypeOK DEF Answer, Types, ReqType

\* A failure that was not there before is one more.
LEMMA NewSlip ==
  ASSUME IsFiniteSet(slips), NEW kind, NEW r, Slip(kind, r)
  PROVE  /\ IsFiniteSet(slips')
         /\ slips' = slips \cup {<<kind, r>>}
         /\ <<kind, r>> \notin slips => Cardinality(slips') = Cardinality(slips) + 1
         /\ Cardinality(slips') >= Cardinality(slips)
<1> DEFINE new == <<kind, r>>
<1>1. slips' = slips \cup {new}
  BY DEF Slip
<1>2. /\ IsFiniteSet(slips \cup {new})
      /\ Cardinality(slips \cup {new}) =
           IF new \in slips THEN Cardinality(slips) ELSE Cardinality(slips) + 1
  BY FS_AddElement
<1>3. Cardinality(slips) \in Nat
  BY FS_CardinalityType
<1> QED
  BY <1>1, <1>2, <1>3

LEMMA Sizes ==
  ASSUME IInv
  PROVE  /\ IsFiniteSet(effects) /\ IsFiniteSet(Pending)
         /\ Cardinality(effects) \in Nat /\ Cardinality(Pending) \in Nat
         /\ Cardinality(slips) \in Nat
         /\ \A r :
              /\ Cardinality(effects \cup {r}) =
                   IF r \in effects THEN Cardinality(effects) ELSE Cardinality(effects) + 1
              /\ Cardinality(Pending \cup {r}) =
                   IF r \in Pending THEN Cardinality(Pending) ELSE Cardinality(Pending) + 1
              /\ Cardinality(Pending \ {r}) =
                   IF r \in Pending THEN Cardinality(Pending) - 1 ELSE Cardinality(Pending)
<1>1. IsFiniteSet(effects) /\ IsFiniteSet(Pending)
  BY RequestsAssumption, FS_Subset DEF IInv, TypeOK, Pending
<1>2. /\ Cardinality(effects) \in Nat /\ Cardinality(Pending) \in Nat
      /\ Cardinality(slips) \in Nat
  BY <1>1, FS_CardinalityType DEF IInv
<1>3. ASSUME NEW r
      PROVE  /\ Cardinality(effects \cup {r}) =
                  IF r \in effects THEN Cardinality(effects) ELSE Cardinality(effects) + 1
             /\ Cardinality(Pending \cup {r}) =
                  IF r \in Pending THEN Cardinality(Pending) ELSE Cardinality(Pending) + 1
             /\ Cardinality(Pending \ {r}) =
                  IF r \in Pending THEN Cardinality(Pending) - 1 ELSE Cardinality(Pending)
  BY <1>1, FS_AddElement, FS_RemoveElement
<1> QED
  BY <1>1, <1>2, <1>3

\* All of the invariant but the types and the budget.
Shapes == /\ \A r \in Requests : RequestShape(r) /\ SlipShape(r)
          /\ RowShape /\ LostShape /\ ReplayShape
-------------------------------------------------------------------------------
(***************************************************************************)
(* The claim.                                                              *)
(***************************************************************************)
LEMMA LookupStep ==
  ASSUME IInv, NEW r \in Requests, Lookup(r)
  PROVE  Shapes' /\ Budget' /\ IsFiniteSet(slips')
<1>1. /\ \A x \in Requests \ {r} : req'[x] = req[x]
      /\ req[r].pc = "sent" /\ req'[r].pc \in {"create", "takeover", "done"}
      /\ req'[r].body = req[r].body
      /\ UNCHANGED <<row, age, effects, slips>>
  BY Moves, Answers DEF Lookup, IInv
<1>2. \A x \in Requests : Live(x)' = Live(x)
  BY <1>1 DEF Live, Working
<1>3. Pending' = Pending
  BY <1>1 DEF Pending
<1>4. row.state # "none" => row.owner \in Requests \ {r}
  BY <1>1 DEF IInv, RowShape, Before
<1>5. Budget'
  BY <1>1, <1>2, <1>3, <1>4 DEF IInv, Budget, Open
<1>6. \A x \in Requests : RequestShape(x)'
  BY <1>1, Moves, Answers DEF IInv, RequestShape, Lookup, Before
<1>7. \A x \in Requests : SlipShape(x)'
  BY <1>1, <1>4 DEF IInv, SlipShape, Before, Owns
<1>8. RowShape'
  <2>1. current' = current \/ (current' = current \cup {r} /\ age >= Lease /\ row.body = req[r].body)
    BY DEF Lookup, Abandoned
  <2>2. age \in 0..Lease /\ current \subseteq Requests
    BY DEF IInv, TypeOK
  <2> QED
    BY <1>1, <1>4, <2>1, <2>2, LeaseAssumption DEF IInv, RowShape, Before
<1>9. LostShape'
  BY <1>1, <1>2, <1>4 DEF IInv, LostShape, Owns, Outlived
<1>10. ReplayShape'
  <2>1. \A s : \A body : SameWork(s, body) => SameWork(s, body)'
    <3>1. req[r].answer # "ok"
      BY <1>1 DEF IInv, RequestShape
    <3>2. effects \subseteq Requests
      BY DEF IInv, TypeOK
    <3> QED
      BY <1>1, <3>1, <3>2 DEF SameWork, Outlived
  <2>2. req'[r].answer = "replay" => SameWork(req'[r].from, req'[r].body)
    BY <1>1, Moves, Answers DEF Lookup, IInv, ReplayShape
  <2> QED
    BY <1>1, <2>1, <2>2 DEF IInv, ReplayShape
<1> QED
  BY <1>1, <1>5, <1>6, <1>7, <1>8, <1>9, <1>10 DEF Shapes, IInv

\* Who finds the key claimed meanwhile starts again.
LEMMA StartAgain ==
  ASSUME IInv, NEW r \in Requests, req[r].pc \in {"create", "takeover"}, MoveTo(r, "sent"),
         current' \subseteq current, UNCHANGED <<row, age, effects, slips>>
  PROVE  Shapes' /\ Budget' /\ IsFiniteSet(slips')
<1>1. /\ \A x \in Requests \ {r} : req'[x] = req[x]
      /\ req[r].pc \in {"create", "takeover"} /\ req'[r].pc = "sent"
      /\ \A x \in Requests : /\ req'[x].body = req[x].body
                            /\ req'[x].answer = req[x].answer
                            /\ req'[x].from = req[x].from
      /\ UNCHANGED <<row, age, effects, slips>>
  BY Moves DEF IInv
<1>2. \A x \in Requests : Live(x)' = Live(x)
  BY <1>1 DEF Live, Working
<1>3. Pending' = Pending
  BY <1>1 DEF Pending
<1>4. row.state # "none" => row.owner \in Requests \ {r}
  BY <1>1 DEF IInv, RowShape, Before
<1>5. Budget'
  BY <1>1, <1>2, <1>3, <1>4 DEF IInv, Budget, Open
<1>6. \A x \in Requests : RequestShape(x)'
  BY <1>1 DEF IInv, RequestShape, Before
<1>7. \A x \in Requests : SlipShape(x)'
  BY <1>1, <1>4 DEF IInv, SlipShape, Before, Owns
<1>8. RowShape'
  BY <1>1, <1>4 DEF IInv, RowShape, Before, TypeOK
<1>9. LostShape'
  BY <1>1, <1>2, <1>4 DEF IInv, LostShape, Owns, Outlived
<1>10. ReplayShape'
  BY <1>1, TypesAreTypeOK DEF IInv, ReplayShape, SameWork, Outlived, Types
<1> QED
  BY <1>1, <1>5, <1>6, <1>7, <1>8, <1>9, <1>10 DEF Shapes, IInv

LEMMA CreateStep ==
  ASSUME IInv, NEW r \in Requests, Create(r)
  PROVE  Shapes' /\ Budget' /\ IsFiniteSet(slips')
<1>1. CASE row.state # "none"
  BY <1>1, StartAgain DEF Create, Same
<1>2. CASE row.state = "none"
  <2>1. /\ \A x \in Requests \ {r} : req'[x] = req[x]
        /\ req[r].pc = "create" /\ req'[r].pc = "work"
        /\ \A x \in Requests : /\ req'[x].body = req[x].body
                              /\ req'[x].answer = req[x].answer
                              /\ req'[x].from = req[x].from
        /\ row' = [state |-> "claimed", body |-> req[r].body, owner |-> r, response |-> Nobody]
        /\ age' = 0 /\ current' = {}
        /\ UNCHANGED <<effects, slips>>
    BY <1>2, Moves DEF Create, NewRow, Claimed, IInv
  <2>2. Pending' = Pending \cup {r} /\ r \notin Pending
    BY <2>1 DEF Pending
  <2>3. Open /\ ~ Open'
    BY <1>2, <2>1, LeaseAssumption DEF Open, Live, Working
  <2>4. Budget'
    <3>1. Cardinality(Pending') = Cardinality(Pending) + 1
      BY <2>2, Sizes
    <3> QED
      BY <2>1, <2>3, <3>1, Sizes DEF IInv, Budget
  <2>5. \A x \in Requests : RequestShape(x)'
    BY <2>1 DEF IInv, RequestShape, Before
  <2>5a. \A x \in Requests : SlipShape(x)'
    BY <1>2, <2>1 DEF IInv, SlipShape, Before, Owns
  <2>6. RowShape'
    BY <2>1 DEF RowShape, Before
  <2>7. LostShape'
    BY <1>2, <2>1, LeaseAssumption DEF IInv, LostShape, Owns, Outlived, Live
  <2>8. ReplayShape'
    BY <2>1, TypesAreTypeOK DEF IInv, ReplayShape, SameWork, Outlived, Types
  <2> QED
    BY <2>1, <2>4, <2>5, <2>5a, <2>6, <2>7, <2>8 DEF Shapes, IInv
<1> QED
  BY <1>1, <1>2

LEMMA TakeOverStep ==
  ASSUME IInv, NEW r \in Requests, TakeOver(r)
  PROVE  Shapes' /\ Budget' /\ IsFiniteSet(slips')
<1>1. CASE ~ StillAbandoned(r)
  BY <1>1, StartAgain DEF TakeOver
<1>2. CASE StillAbandoned(r)
  <2>1. /\ \A x \in Requests \ {r} : req'[x] = req[x]
        /\ req[r].pc = "takeover" /\ req'[r].pc = "work"
        /\ \A x \in Requests : /\ req'[x].body = req[x].body
                              /\ req'[x].answer = req[x].answer
                              /\ req'[x].from = req[x].from
        /\ age' = 0 /\ current' = {}
        /\ UNCHANGED <<effects, slips>>
    BY <1>2, Moves DEF TakeOver, NewRow, IInv
  <2>2. /\ row.state = "claimed" /\ age = Lease /\ req[r].body = row.body
        /\ row'.state = "claimed" /\ row'.owner = r /\ row'.body = row.body
    <3>1. row.state = "claimed" /\ row' = [row EXCEPT !.owner = r]
      BY <1>2 DEF StillAbandoned, TakeOver, NewRow
    <3>2. row \in [state : {"claimed"}, body : Bodies, owner : Requests, response : {Nobody}]
      BY <3>1, TypesAreTypeOK DEF IInv, Types, RowType, NoRow
    <3> QED
      BY <1>2, <3>1, <3>2 DEF StillAbandoned, IInv, RowShape
  <2>3. Pending' = Pending \cup {r} /\ r \notin Pending
    BY <2>1 DEF Pending
  <2>4. Open /\ ~ Open'
    BY <2>1, <2>2, LeaseAssumption DEF Open, Live, Working
  <2>5. Budget'
    <3>1. Cardinality(Pending') = Cardinality(Pending) + 1
      BY <2>3, Sizes
    <3> QED
      BY <2>1, <2>4, <3>1, Sizes DEF IInv, Budget
  <2>6. \A x \in Requests : RequestShape(x)'
    BY <2>1 DEF IInv, RequestShape, Before
  <2>7. \A x \in Requests : SlipShape(x)'
    BY <2>1, <2>2 DEF IInv, SlipShape, Before, Owns
  <2>8. RowShape'
    BY <2>1, <2>2 DEF RowShape, Before
  <2>9. LostShape'
    BY <2>1, <2>2, LeaseAssumption DEF IInv, LostShape, Owns, Outlived, Live
  <2>10. ReplayShape'
    BY <2>1, <2>2, TypesAreTypeOK DEF IInv, ReplayShape, SameWork, Outlived, Types
  <2> QED
    BY <2>1, <2>5, <2>6, <2>7, <2>8, <2>9, <2>10 DEF Shapes, IInv
<1> QED
  BY <1>1, <1>2
-------------------------------------------------------------------------------
(***************************************************************************)
(* The work and its answer.                                                *)
(***************************************************************************)
LEMMA WorkStep ==
  ASSUME IInv, NEW r \in Requests, Work(r)
  PROVE  Shapes' /\ Budget' /\ IsFiniteSet(slips')
<1>1. /\ \A x \in Requests \ {r} : req'[x] = req[x]
      /\ req[r].pc = "work" /\ req'[r].pc = "worked"
      /\ \A x \in Requests : /\ req'[x].body = req[x].body
                            /\ req'[x].answer = req[x].answer
                            /\ req'[x].from = req[x].from
      /\ effects' = effects \cup {r} /\ r \notin effects
      /\ UNCHANGED <<row, age, current, slips>>
  BY Moves DEF Work, Same, IInv, RequestShape
<1>2. \A x \in Requests : Live(x)' = Live(x)
  BY <1>1 DEF Live, Working
<1>3. row.state # "none" => row.owner \in Requests
  BY DEF IInv, RowShape
<1>4. Open' = Open
  BY <1>1, <1>2, <1>3 DEF Open
<1>5. Pending' = Pending \ {r} /\ r \in Pending
  BY <1>1 DEF Pending
<1>6. Budget'
  <2>1. /\ Cardinality(Pending') = Cardinality(Pending) - 1
        /\ Cardinality(effects') = Cardinality(effects) + 1
    BY <1>1, <1>5, Sizes
  <2> QED
    BY <1>1, <1>4, <2>1, Sizes DEF IInv, Budget
<1>7. \A x \in Requests : RequestShape(x)'
  BY <1>1 DEF IInv, RequestShape, Before
<1>8. \A x \in Requests : SlipShape(x)'
  BY <1>1 DEF IInv, SlipShape, Before, Owns
<1>9. RowShape'
  BY <1>1 DEF IInv, RowShape, Before, TypeOK
<1>10. LostShape'
  BY <1>1, <1>2, <1>3 DEF IInv, LostShape, Owns, Outlived
<1>11. ReplayShape'
  BY <1>1, TypesAreTypeOK DEF IInv, ReplayShape, SameWork, Outlived, Types
<1> QED
  BY <1>1, <1>6, <1>7, <1>8, <1>9, <1>10, <1>11 DEF Shapes, IInv

LEMMA SucceedStep ==
  ASSUME IInv, NEW r \in Requests, Succeed(r)
  PROVE  Shapes' /\ Budget' /\ IsFiniteSet(slips')
<1>1. /\ \A x \in Requests \ {r} : req'[x] = req[x]
      /\ req[r].pc = "worked" /\ req'[r].pc = "store"
      /\ req'[r].answer = "ok" /\ req[r].answer # "ok"
      /\ \A x \in Requests : req'[x].body = req[x].body
      /\ UNCHANGED <<row, age, current, effects, slips>>
  BY Answers DEF Succeed, Same, IInv, RequestShape
<1>2. \A x \in Requests : Live(x)' = Live(x)
  BY <1>1 DEF Live, Working
<1>3. row.state # "none" => row.owner \in Requests
  BY DEF IInv, RowShape
<1>4. Open' = Open
  BY <1>1, <1>2, <1>3 DEF Open
<1>5. Pending' = Pending
  BY <1>1 DEF Pending
<1>6. Budget'
  BY <1>1, <1>4, <1>5 DEF IInv, Budget
<1>7. \A x \in Requests : RequestShape(x)'
  BY <1>1 DEF IInv, RequestShape, Before
<1>8. \A x \in Requests : SlipShape(x)'
  BY <1>1 DEF IInv, SlipShape, Before, Owns
<1>9. RowShape'
  BY <1>1 DEF IInv, RowShape, Before, TypeOK
<1>10. LostShape'
  BY <1>1, <1>2, <1>3 DEF IInv, LostShape, Owns, Outlived
<1>11. ReplayShape'
  BY <1>1, TypesAreTypeOK DEF IInv, ReplayShape, SameWork, Outlived, Types
<1> QED
  BY <1>1, <1>6, <1>7, <1>8, <1>9, <1>10, <1>11 DEF Shapes, IInv

LEMMA FailStep ==
  ASSUME IInv, NEW r \in Requests, Fail(r)
  PROVE  Shapes' /\ Budget' /\ IsFiniteSet(slips')
<1>1. /\ \A x \in Requests \ {r} : req'[x] = req[x]
      /\ req[r].pc \in Working /\ req'[r].pc = "release"
      /\ req'[r].answer = "failed" /\ req[r].answer # "ok"
      /\ \A x \in Requests : req'[x].body = req[x].body
      /\ UNCHANGED <<row, age, current, effects>>
  BY Answers DEF Fail, Same, IInv, RequestShape, Working
<1>2. /\ IsFiniteSet(slips')
      /\ slips \subseteq slips' /\ slips' \subseteq slips \cup {<<"halfway", r>>}
      /\ r \in effects => Cardinality(slips') = Cardinality(slips) + 1
      /\ r \notin effects => slips' = slips
  BY <1>1, NewSlip DEF Fail, IInv, SlipShape, Working
<1>3. \A x \in Requests : Live(x)' = Live(x)
  BY <1>1 DEF Live, Working
<1>4. row.state # "none" => row.owner \in Requests
  BY DEF IInv, RowShape
<1>5. Open' = Open
  BY <1>1, <1>3, <1>4 DEF Open
<1>6. Budget'
  <2>1. CASE req[r].pc = "work"
    <3>1. Pending' = Pending
      BY <1>1, <2>1 DEF Pending
    <3>2. slips' = slips
      BY <1>2, <2>1 DEF IInv, RequestShape
    <3> QED
      BY <1>1, <1>5, <3>1, <3>2 DEF IInv, Budget
  <2>2. CASE req[r].pc = "worked"
    <3>1. Pending' = Pending \cup {r} /\ r \notin Pending
      BY <1>1, <2>2 DEF Pending
    <3>2. Cardinality(Pending') = Cardinality(Pending) + 1
      BY <3>1, Sizes
    <3>3. Cardinality(slips') = Cardinality(slips) + 1
      BY <1>2, <2>2 DEF IInv, RequestShape
    <3> QED
      BY <1>1, <1>5, <3>2, <3>3, Sizes DEF IInv, Budget
  <2> QED
    BY <1>1, <2>1, <2>2 DEF Working
<1>7. \A x \in Requests : RequestShape(x)'
  BY <1>1 DEF IInv, RequestShape, Before
<1>8. \A x \in Requests : SlipShape(x)'
  BY <1>1, <1>2 DEF IInv, SlipShape, Before, Owns, Working
<1>9. RowShape'
  BY <1>1 DEF IInv, RowShape, Before, TypeOK
<1>10. Outlived => Outlived'
  BY <1>2 DEF Outlived
<1>11. LostShape'
  BY <1>1, <1>3, <1>4, <1>10 DEF IInv, LostShape, Owns
<1>12. ReplayShape'
  BY <1>1, <1>10, TypesAreTypeOK DEF IInv, ReplayShape, SameWork, Types
<1> QED
  BY <1>2, <1>6, <1>7, <1>8, <1>9, <1>11, <1>12 DEF Shapes
-------------------------------------------------------------------------------
(***************************************************************************)
(* What is kept of it.                                                     *)
(***************************************************************************)
LEMMA StoreStep ==
  ASSUME IInv, NEW r \in Requests, Store(r)
  PROVE  Shapes' /\ Budget' /\ IsFiniteSet(slips')
<1>1. /\ \A x \in Requests \ {r} : req'[x] = req[x]
      /\ req[r].pc = "store" /\ req'[r].pc = "done"
      /\ \A x \in Requests : /\ req'[x].body = req[x].body
                            /\ req'[x].answer = req[x].answer
                            /\ req'[x].from = req[x].from
      /\ UNCHANGED <<age, current, effects, slips>>
  BY Moves DEF Store, IInv
<1>2. /\ row'.owner = row.owner /\ row'.body = row.body
      /\ row.state = "none" => row'.state = "none"
      /\ row.state # "none" => row'.state = "completed" /\ row'.response = r
  <2>1. CASE row = NoRow
    BY <2>1 DEF Store, NoRow
  <2>2. CASE row \in [state : {"claimed"}, body : Bodies, owner : Requests, response : {Nobody}]
    BY <2>2 DEF Store
  <2>3. CASE row \in [state : {"completed"}, body : Bodies, owner : Requests, response : Requests]
    BY <2>3 DEF Store
  <2> QED
    BY <2>1, <2>2, <2>3, TypesAreTypeOK DEF IInv, Types, RowType
<1>3. Open' => Open
  BY <1>2 DEF Open
<1>4. Pending' = Pending
  BY <1>1 DEF Pending
<1>5. Budget'
  BY <1>1, <1>3, <1>4, Sizes DEF IInv, Budget
<1>6. \A x \in Requests : RequestShape(x)'
  BY <1>1 DEF IInv, RequestShape, Before
<1>7. \A x \in Requests : Owns(x)' <=> Owns(x)
  BY <1>2 DEF Owns
<1>8. \A x \in Requests : SlipShape(x)'
  BY <1>1, <1>7 DEF IInv, SlipShape, Before
<1>9. RowShape'
  BY <1>1, <1>2 DEF IInv, RowShape, Before, TypeOK
<1>10. LostShape'
  <2>1. \A x \in Requests : Live(x)' => Live(x)
    BY <1>1 DEF Live, Working
  <2>2. row'.state # "claimed"
    BY <1>2
  <2> QED
    BY <1>1, <1>7, <2>1, <2>2 DEF IInv, LostShape, Outlived
<1>11. ReplayShape'
  <2>1. \A s \in Requests : \A body : SameWork(s, body) => SameWork(s, body)'
    BY <1>1 DEF SameWork, Outlived
  <2>2. row'.state = "completed" => SameWork(r, row.body)'
    <3>1. row.state # "none" /\ row.owner # r => Outlived
      BY <1>1 DEF IInv, LostShape, Owns, Live
    <3>2. row.state # "none" /\ row.owner = r => row.body = req[r].body
      BY DEF IInv, RowShape
    <3> QED
      BY <1>1, <1>2, <3>1, <3>2 DEF IInv, RequestShape, SameWork, Outlived
  <2>3. \A x \in Requests : req[x].answer = "replay" => req[x].from \in Requests
    BY DEF IInv, ReplayShape, SameWork, TypeOK
  <2> QED
    BY <1>1, <1>2, <2>1, <2>2, <2>3 DEF IInv, ReplayShape
<1> QED
  BY <1>1, <1>5, <1>6, <1>8, <1>9, <1>10, <1>11 DEF Shapes, IInv

LEMMA ReleaseStep ==
  ASSUME IInv, NEW r \in Requests, Release(r)
  PROVE  Shapes' /\ Budget' /\ IsFiniteSet(slips')
<1>1. /\ \A x \in Requests \ {r} : req'[x] = req[x]
      /\ req[r].pc = "release" /\ req'[r].pc = "done"
      /\ \A x \in Requests : /\ req'[x].body = req[x].body
                            /\ req'[x].answer = req[x].answer
                            /\ req'[x].from = req[x].from
      /\ row'.state = "none" /\ current' = {}
      /\ UNCHANGED <<effects, slips>>
  BY Moves DEF Release, NewRow, NoRow, IInv
<1>2. Budget'
  <2>1. Pending' = Pending \ {r} /\ r \in Pending
    BY <1>1 DEF Pending
  <2>2. Cardinality(Pending') = Cardinality(Pending) - 1
    BY <2>1, Sizes
  <2> QED
    BY <1>1, <2>2, Sizes DEF IInv, Budget
<1>3. \A x \in Requests : RequestShape(x)'
  BY <1>1 DEF IInv, RequestShape, Before
<1>4. \A x \in Requests : SlipShape(x)'
  BY <1>1 DEF IInv, SlipShape, Before, Owns
<1>5. RowShape'
  BY <1>1 DEF RowShape
<1>6. LostShape'
  <2>1. ASSUME NEW x \in Requests, Live(x)' PROVE Outlived
    <3>1. x # r /\ Live(x) /\ Live(r)
      BY <1>1, <2>1 DEF Live, Working
    <3> QED
      BY <3>1 DEF IInv, LostShape, Owns
  <2> QED
    BY <1>1, <2>1 DEF LostShape, Outlived
<1>7. ReplayShape'
  BY <1>1, TypesAreTypeOK DEF IInv, ReplayShape, SameWork, Outlived, Types
<1> QED
  BY <1>1, <1>2, <1>3, <1>4, <1>5, <1>6, <1>7 DEF Shapes, IInv

LEMMA NotRecordedStep ==
  ASSUME IInv, NEW r \in Requests, NotRecorded(r)
  PROVE  Shapes' /\ Budget' /\ IsFiniteSet(slips')
<1>1. /\ \A x \in Requests \ {r} : req'[x] = req[x]
      /\ req[r].pc \in {"store", "release"} /\ req'[r].pc = "done"
      /\ \A x \in Requests : /\ req'[x].body = req[x].body
                            /\ req'[x].answer = req[x].answer
                            /\ req'[x].from = req[x].from
      /\ UNCHANGED <<row, age, current, effects>>
  BY Moves DEF NotRecorded, Same, IInv
<1>2. /\ IsFiniteSet(slips')
      /\ slips \subseteq slips' /\ slips' \subseteq slips \cup {<<"unstored", r>>}
      /\ r \in effects => Cardinality(slips') = Cardinality(slips) + 1
      /\ r \notin effects => slips' = slips
  BY <1>1, NewSlip DEF NotRecorded, IInv, SlipShape
<1>3. Budget'
  <2>1. CASE req[r].pc = "store"
    <3>1. Pending' = Pending
      BY <1>1, <2>1 DEF Pending
    <3>2. Cardinality(slips') = Cardinality(slips) + 1
      BY <1>2, <2>1 DEF IInv, RequestShape
    <3> QED
      BY <1>1, <3>1, <3>2, Sizes DEF IInv, Budget
  <2>2. CASE req[r].pc = "release"
    <3>1. Pending' = Pending \ {r} /\ r \in Pending
      BY <1>1, <2>2 DEF Pending
    <3>2. Cardinality(Pending') = Cardinality(Pending) - 1
      BY <3>1, Sizes
    <3>3. Cardinality(slips') = Cardinality(slips) \/ Cardinality(slips') = Cardinality(slips) + 1
      BY <1>2
    <3> QED
      BY <1>1, <3>2, <3>3, Sizes DEF IInv, Budget
  <2> QED
    BY <1>1, <2>1, <2>2
<1>4. \A x \in Requests : RequestShape(x)'
  BY <1>1 DEF IInv, RequestShape, Before
<1>5. \A x \in Requests : SlipShape(x)'
  BY <1>1, <1>2 DEF IInv, SlipShape, Before, Owns
<1>6. RowShape'
  BY <1>1 DEF IInv, RowShape, Before, TypeOK
<1>7. Outlived => Outlived'
  BY <1>2 DEF Outlived
<1>8. LostShape'
  <2>1. \A x \in Requests : Live(x)' => Live(x)
    BY <1>1 DEF Live, Working
  <2>2. row.state # "none" => row.owner \in Requests
    BY DEF IInv, RowShape
  <2> QED
    BY <1>1, <1>7, <2>1, <2>2 DEF IInv, LostShape, Owns
<1>9. ReplayShape'
  BY <1>1, <1>7, TypesAreTypeOK DEF IInv, ReplayShape, SameWork, Types
<1> QED
  BY <1>2, <1>3, <1>4, <1>5, <1>6, <1>8, <1>9 DEF Shapes
-------------------------------------------------------------------------------
(***************************************************************************)
(* Deaths, the clock and the cleanup.                                      *)
(***************************************************************************)
LEMMA DieStep ==
  ASSUME IInv, NEW r \in Requests, Die(r)
  PROVE  Shapes' /\ Budget' /\ IsFiniteSet(slips')
<1>1. /\ \A x \in Requests \ {r} : req'[x] = req[x]
      /\ req[r].pc \notin {"done", "dead"} /\ req'[r].pc = "dead"
      /\ \A x \in Requests : /\ req'[x].body = req[x].body
                            /\ req'[x].answer = req[x].answer
                            /\ req'[x].from = req[x].from
      /\ current' \subseteq current
      /\ UNCHANGED <<row, age, effects>>
  BY Moves DEF Die, IInv
<1>2. /\ IsFiniteSet(slips')
      /\ slips \subseteq slips' /\ slips' \subseteq slips \cup {<<"died", r>>}
      /\ r \in effects => Cardinality(slips') = Cardinality(slips) + 1
      /\ r \notin effects => slips' = slips
  BY <1>1, NewSlip DEF Die, IInv, SlipShape
<1>3. row.state # "none" => row.owner \in Requests /\ req[row.owner].pc \notin Before
  BY DEF IInv, RowShape
<1>4. Pending' = Pending \ {r}
  BY <1>1 DEF Pending
<1>5. Budget'
  <2>1. CASE r \in effects
    <3>1. Cardinality(Pending') <= Cardinality(Pending) /\ Cardinality(Pending') \in Nat
      BY <1>4, Sizes, FS_Subset, FS_CardinalityType
    <3> QED
      BY <1>1, <1>2, <2>1, <3>1, Sizes DEF IInv, Budget
  <2>2. CASE r \notin effects /\ req[r].pc \in {"work", "release"}
    <3>1. r \in Pending
      BY <2>2 DEF Pending
    <3>2. Cardinality(Pending') = Cardinality(Pending) - 1
      BY <1>4, <3>1, Sizes
    <3> QED
      BY <1>1, <1>2, <2>2, <3>2, Sizes DEF IInv, Budget
  <2>3. CASE r \notin effects /\ req[r].pc \in Before
    <3>1. Pending' = Pending
      BY <1>4, <2>3 DEF Pending, Before
    <3>2. Open' = Open
      BY <1>1, <1>3, <2>3 DEF Open, Live, Working, Before
    <3> QED
      BY <1>1, <1>2, <2>3, <3>1, <3>2 DEF IInv, Budget
  <2> QED
    <3>1. r \notin effects => req[r].pc \notin {"worked", "store"}
      BY DEF IInv, RequestShape
    <3>2. req[r].pc \in PCs
      BY TypesAreTypeOK DEF IInv, Types, ReqType
    <3> QED
      BY <1>1, <2>1, <2>2, <2>3, <3>1, <3>2 DEF PCs, Before, Working
<1>6. \A x \in Requests : RequestShape(x)'
  BY <1>1 DEF IInv, RequestShape, Before
<1>7. \A x \in Requests : SlipShape(x)'
  BY <1>1, <1>2 DEF IInv, SlipShape, Before, Owns
<1>8. RowShape'
  BY <1>1 DEF IInv, RowShape, Before, TypeOK
<1>9. Outlived => Outlived'
  BY <1>2 DEF Outlived
<1>10. LostShape'
  <2>1. \A x \in Requests : Live(x)' => Live(x)
    BY <1>1 DEF Live, Working
  <2> QED
    BY <1>1, <1>3, <1>9, <2>1 DEF IInv, LostShape, Owns
<1>11. ReplayShape'
  BY <1>1, <1>9, TypesAreTypeOK DEF IInv, ReplayShape, SameWork, Types
<1> QED
  BY <1>2, <1>5, <1>6, <1>7, <1>8, <1>10, <1>11 DEF Shapes

LEMMA TickStep ==
  ASSUME IInv, Tick
  PROVE  Shapes' /\ Budget' /\ IsFiniteSet(slips')
<1> DEFINE o == row.owner
<1> USE LeaseAssumption
<1>1. /\ row.state = "claimed" /\ age \in Nat /\ age < Lease /\ age' = age + 1
      /\ UNCHANGED <<row, current, req, effects>>
  BY DEF Tick, IInv, TypeOK
<1>2. o \in Requests /\ Owns(o) /\ req[o].pc \notin Before
  BY <1>1 DEF IInv, RowShape, Owns
<1>3. age # Lease /\ current = {}
  BY <1>1 DEF IInv, RowShape
<1>4. Pending' = Pending /\ \A x : Live(x)' = Live(x) /\ Owns(x)' = Owns(x)
  BY <1>1 DEF Pending, Live, Owns
<1>5. CASE age + 1 = Lease /\ Live(o)
  <2>1. slips' = slips \cup {<<"overran", o>>} /\ IsFiniteSet(slips')
    BY <1>5, NewSlip DEF Tick, IInv
  <2>2. Cardinality(slips') = Cardinality(slips) + 1
    BY <1>2, <1>3, <1>5, NewSlip DEF Tick, IInv, SlipShape
  <2>3. ~ Open
    BY <1>1, <1>3, <1>5 DEF Open
  <2>4. Budget'
    BY <1>1, <1>4, <2>2, <2>3, Sizes DEF IInv, Budget
  <2>5. Outlived'
    <3>1. <<"overran", o>> \in slips' /\ <<"overran", o>>[1] = "overran"
      BY <2>1
    <3> QED
      BY <3>1 DEF Outlived
  <2>6. \A x \in Requests : RequestShape(x)'
    BY <1>1 DEF IInv, RequestShape
  <2>7. \A x \in Requests : SlipShape(x)'
    <3>1. \A x \in Requests : <<"overran", x>> \notin slips \/ ~ Owns(x)
      BY <1>3 DEF IInv, SlipShape
    <3> QED
      BY <1>1, <1>2, <1>4, <1>5, <2>1, <3>1 DEF IInv, SlipShape
  <2>8. RowShape'
    BY <1>1, <1>3 DEF IInv, RowShape
  <2>9. LostShape' /\ ReplayShape'
    BY <1>1, <2>5 DEF IInv, LostShape, ReplayShape, SameWork
  <2> QED
    BY <2>1, <2>4, <2>6, <2>7, <2>8, <2>9 DEF Shapes
<1>6. CASE ~ (age + 1 = Lease /\ Live(o))
  <2>1. UNCHANGED slips
    BY <1>6 DEF Tick
  <2>2. Open' => Open
    BY <1>1, <1>4, <1>6 DEF Open
  <2>3. Budget'
    BY <1>1, <1>4, <2>1, <2>2, Sizes DEF IInv, Budget
  <2>4. \A x \in Requests : RequestShape(x)'
    BY <1>1 DEF IInv, RequestShape
  <2>5. \A x \in Requests : SlipShape(x)'
    BY <1>1, <1>3, <1>4, <2>1 DEF IInv, SlipShape, Owns
  <2>6. RowShape'
    BY <1>1, <1>3 DEF IInv, RowShape
  <2>7. LostShape' /\ ReplayShape'
    BY <1>1, <1>4, <1>6, <2>1 DEF IInv, LostShape, ReplayShape, SameWork, Outlived
  <2> QED
    BY <2>1, <2>3, <2>4, <2>5, <2>6, <2>7 DEF Shapes, IInv
<1> QED
  BY <1>5, <1>6

LEMMA CleanupStep ==
  ASSUME IInv, Cleanup
  PROVE  Shapes' /\ Budget' /\ IsFiniteSet(slips')
<1> DEFINE o == row.owner
<1>1. /\ row.state # "none" /\ row'.state = "none" /\ current' = {}
      /\ UNCHANGED <<req, effects>>
  BY DEF Cleanup, NewRow, NoRow
<1>2. o \in Requests /\ Owns(o) /\ req[o].pc \notin Before
  BY <1>1 DEF IInv, RowShape, Owns
<1>3. slips' = slips \cup {<<"expired", o>>} /\ IsFiniteSet(slips')
  BY NewSlip DEF Cleanup, IInv
<1>4. Cardinality(slips') = Cardinality(slips) + 1
  BY <1>2, NewSlip DEF Cleanup, IInv, SlipShape
<1>5. Budget'
  <2>1. Pending' = Pending
    BY <1>1 DEF Pending
  <2> QED
    BY <1>1, <1>4, <2>1, Sizes DEF IInv, Budget
<1>6. Outlived'
  <2>1. <<"expired", o>> \in slips' /\ <<"expired", o>>[1] = "expired"
    BY <1>3
  <2> QED
    BY <2>1 DEF Outlived
<1>7. \A x \in Requests : RequestShape(x)' /\ SlipShape(x)'
  BY <1>1, <1>2, <1>3 DEF IInv, RequestShape, SlipShape, Owns
<1>8. RowShape' /\ LostShape' /\ ReplayShape'
  BY <1>1, <1>6 DEF IInv, RowShape, LostShape, ReplayShape, SameWork
<1> QED
  BY <1>3, <1>5, <1>7, <1>8 DEF Shapes
-------------------------------------------------------------------------------
(***************************************************************************)
(* The invariant and what follows from it.                                 *)
(***************************************************************************)
LEMMA NextIInv == IInv /\ [Next]_vars => IInv'
<1> SUFFICES ASSUME IInv, [Next]_vars PROVE IInv'
  OBVIOUS
<1>1. TypeOK'
  BY TypeStep DEF IInv
<1>2. CASE UNCHANGED vars
  BY <1>1, <1>2 DEF vars, IInv, Budget, Open, Pending, Live, RequestShape, SlipShape, Owns,
                    RowShape, LostShape, ReplayShape, SameWork, Outlived
<1>3. Next => Shapes' /\ Budget' /\ IsFiniteSet(slips')
  BY LookupStep, CreateStep, TakeOverStep, WorkStep, FailStep, SucceedStep, StoreStep,
     ReleaseStep, NotRecordedStep, DieStep, TickStep, CleanupStep DEF Next, Proceed
<1> QED
  BY <1>1, <1>2, <1>3 DEF IInv, Shapes

LEMMA Invariant == Spec => []IInv
BY InitIInv, NextIInv, PTL DEF Spec

\* The row, the requests and the failures keep their types.
THEOREM TypeCorrectness == Spec => []TypeOK
BY Invariant, PTL DEF IInv

\* However many clients send a key, and however often, its work takes effect once
\* and once more for each failure the gate cannot see.  The budget says why: a
\* claim that can be had, or work that is going on, is an effect to come.
THEOREM SingleEffect == Spec => []OneEffect
<1>1. IInv => OneEffect
  <2> SUFFICES ASSUME IInv PROVE OneEffect
    OBVIOUS
  <2> QED
    BY Sizes DEF IInv, Budget, OneEffect
<1> QED
  BY <1>1, Invariant, PTL

\* What a client is answered again is the answer to its own request, unless some
\* request outlived its lease or the key its TTL.
THEOREM Replays == Spec => []ReplaysTheWork
<1>1. IInv => ReplaysTheWork
  BY DEF IInv, ReplayShape, SameWork, ReplaysTheWork
<1> QED
  BY <1>1, Invariant, PTL
===============================================================================
