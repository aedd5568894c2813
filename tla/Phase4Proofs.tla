---------------------------- MODULE Phase4Proofs ----------------------------
(*****************************************************************************)
(* Invariance proofs for parts that share no state: of Phase 4 its calls of  *)
(* Phase 3 (PhaseCalls), the tickets (IncidentDesk), the response playbooks  *)
(* (ResponsePlaybook), the copy of alerts to OpenCTI (AlertPoller), the      *)
(* forensic graph (ForensicGraph) and the watch over its language models     *)
(* (LlmWatch); and of Phase 3, whose pauses those calls answer, the          *)
(* investigation playbooks (Playbooks).                                      *)
(*****************************************************************************)
EXTENDS PhaseCalls, IncidentDesk, ResponsePlaybook, AlertPoller, ForensicGraph, LlmWatch,
        Playbooks, FiniteSetTheorems, SequenceTheorems, TLAPS

-----------------------------------------------------------------------------
(* Greatest and least elements.                                              *)

LEMMA LeastOf ==
    ASSUME NEW T \in SUBSET Nat, T # {}
    PROVE  \E n \in T : \A m \in T : ~(m < n)
<1>1. \E n \in T : \A m \in T : ~(<<m, n>> \in OpToRel(<, Nat))
  BY NatLessThanWellFounded, WFMin
<1> QED BY <1>1 DEF OpToRel

LEMMA MinIsLeast ==
    ASSUME NEW T \in SUBSET Nat, T # {}
    PROVE  Min(T) \in T /\ \A n \in T : Min(T) <= n
<1>1. \E n \in T : \A m \in T : n <= m
  BY LeastOf
<1> QED BY <1>1 DEF Min

\* The greatest of numbers that have a bound is the least of their bounds.
LEMMA MaxIsGreatest ==
    ASSUME NEW bound \in Nat, NEW T \in SUBSET (0 .. bound), T # {}
    PROVE  Max(T) \in T /\ \A n \in T : Max(T) >= n
<1> DEFINE Bounds == {n \in 0 .. bound : \A m \in T : m <= n}
<1>1. bound \in Bounds
  OBVIOUS
<1>2. PICK n \in Bounds : \A m \in Bounds : ~(m < n)
  <2>1. Bounds \in SUBSET Nat /\ Bounds # {}
    BY <1>1
  <2> HIDE DEF Bounds
  <2> QED BY <2>1, LeastOf
<1>3. n \in T
  <2>1. SUFFICES ASSUME n \notin T PROVE FALSE
    OBVIOUS
  <2>2. \A m \in T : m <= n - 1
    BY <1>2, <2>1
  <2>3. n - 1 \in Bounds
    <3>1. PICK m \in T : m <= n - 1
      BY <2>2
    <3>2. m \in Nat /\ n \in 0 .. bound
      BY <1>2
    <3>3. n - 1 \in 0 .. bound
      BY <3>1, <3>2
    <3> QED BY <2>2, <3>3
  <2> QED BY <1>2, <2>3
<1>4. \E m \in T : \A k \in T : m >= k
  BY <1>2, <1>3
<1> QED BY <1>4 DEF Max

\* Sizes of intervals, of subsets, and of what is matched one to one.
LEMMA IntervalSize ==
  ASSUME NEW n \in Nat
  PROVE  IsFiniteSet(1 .. n) /\ Cardinality(1 .. n) = n
<1>1. n \in Int /\ 1 \in Int /\ (IF 1 > n THEN 0 ELSE n - 1 + 1) = n
  OBVIOUS
<1> QED BY <1>1, FS_Interval

LEMMA SubsetSize ==
  ASSUME NEW S, IsFiniteSet(S), NEW T \in SUBSET S
  PROVE  /\ IsFiniteSet(T) /\ Cardinality(T) \in Nat /\ Cardinality(S) \in Nat
         /\ Cardinality(T) <= Cardinality(S)
<1>1. IsFiniteSet(T) /\ Cardinality(T) <= Cardinality(S)
  BY FS_Subset
<1> QED BY <1>1, FS_CardinalityType

LEMMA MatchedSize ==
  ASSUME NEW S, IsFiniteSet(S), NEW T, NEW f \in [S -> T],
         \A a, b \in S : f[a] = f[b] => a = b,
         \A t \in T : \E s \in S : f[s] = t
  PROVE  IsFiniteSet(T) /\ Cardinality(T) = Cardinality(S)
<1>1. f \in Bijection(S, T)
  BY DEF Bijection, Injection, Surjection, IsInjective
<1> QED BY <1>1, FS_Bijection DEF ExistsBijection

-----------------------------------------------------------------------------
(* PhaseCalls.                                                               *)

Call == [kind : CallKinds, pc : {"working", "posting", "over"}, ask : 1 .. MaxAsks]

CallsTypes ==
    /\ caller \in [pc : {"idle", "trying", "waiting"}, kind : CallKinds,
                   address : 1 .. AddressCount]
    /\ work \in Seq(Call)
    /\ inbox \union rows \union heard \subseteq PhaseCallIds
    /\ waits \in BOOLEAN
    /\ asks \in 0 .. MaxAsks

\* Calls that Phase 3 may have taken so far: the addresses of the requests that
\* are over, and those this one has tried
Budget ==
    IF caller.pc = "idle" THEN AddressCount * asks
    ELSE AddressCount * (asks - 1)
         + (IF caller.pc = "waiting" THEN caller.address ELSE caller.address - 1)

\* A call under way belongs to the latest request, of which nothing was heard
CallOfThisAsk ==
    caller.pc # "idle" =>
        /\ asks >= 1
        /\ \A k \in PhaseCallIds : work[k].ask = asks => k \notin heard
        /\ caller.pc = "waiting" => work # << >>

\* At most one confirmation was taken, and none while the grouping waits
ConfirmedAtMostOnce ==
    \A j \in PhaseCallIds : work[j].kind = "resume" =>
        /\ ~waits
        /\ \A k \in PhaseCallIds : work[k].kind = "resume" => k = j

CallsInv ==
    /\ CallsTypes
    /\ Len(work) <= Budget
    /\ \A k \in PhaseCallIds : work[k].ask <= asks
    /\ CallOfThisAsk
    /\ NothingBegunAfterAnAnswer
    /\ ConfirmedAtMostOnce

LEMMA AddressesOfAsks ==
    /\ \A n \in Nat \ {0} : AddressCount * (n - 1) + AddressCount = AddressCount * n
    /\ \A m, n \in Nat : m <= n => AddressCount * m <= AddressCount * n
    /\ \A n \in Nat : AddressCount * n \in Nat
<1>1. AddressCount \in Nat
  BY CallsAssumption
<1>2. ASSUME NEW n \in Nat \ {0}
      PROVE  AddressCount * (n - 1) + AddressCount = AddressCount * n
  BY <1>1
<1>3. ASSUME NEW n \in Nat PROVE AddressCount * n \in Nat
  BY <1>1
<1>4. ASSUME NEW m \in Nat, NEW n \in Nat, m <= n
      PROVE  AddressCount * m <= AddressCount * n
  BY <1>1, <1>4
<1> QED BY <1>2, <1>3, <1>4

LEMMA CallsInitially == CallsInit => CallsInv
<1> SUFFICES ASSUME CallsInit PROVE CallsInv
  OBVIOUS
<1> USE DEF CallsInit
<1>1. CallsTypes
  BY CallsAssumption, EmptySeq DEF CallsTypes, IdleLoop, CallKinds, PhaseCallIds
<1>2. Len(work) = 0 /\ Budget = AddressCount * 0 /\ AddressCount * 0 = 0
  BY CallsAssumption DEF Budget, IdleLoop
<1>3. PhaseCallIds = {}
  BY <1>2 DEF PhaseCallIds
<1> QED BY <1>1, <1>2, <1>3
        DEF CallsInv, CallOfThisAsk, NothingBegunAfterAnAnswer, ConfirmedAtMostOnce, IdleLoop

\* What becomes of the loop and of its budget when a call at an address fails.
LEMMA OnwardStays ==
    ASSUME CallsTypes, CallOfThisAsk, Len(work) <= Budget, caller.pc # "idle",
           caller' = Onward, UNCHANGED <<work, asks>>
    PROVE  /\ caller' \in [pc : {"idle", "trying", "waiting"}, kind : CallKinds,
                           address : 1 .. AddressCount]
           /\ caller'.pc \in {"idle", "trying"}
           /\ Len(work') <= Budget'
<1>1. /\ AddressCount \in Nat \ {0} /\ caller.address \in 1 .. AddressCount
      /\ asks \in Nat \ {0} /\ Len(work) \in Nat
  BY CallsAssumption, LenProperties DEF CallsTypes, CallOfThisAsk
<1> DEFINE before == AddressCount * (asks - 1)
<1>2. before \in Nat /\ before + AddressCount = AddressCount * asks
  <2>1. asks - 1 \in Nat
    BY <1>1
  <2>2. AddressCount * (asks - 1) \in Nat
    BY <2>1, AddressesOfAsks, Zenon
  <2>3. AddressCount * (asks - 1) + AddressCount = AddressCount * asks
    BY <1>1, AddressesOfAsks, Zenon
  <2> QED BY <2>2, <2>3
<1>3. Len(work) <= before + caller.address
  BY <1>1, <1>2 DEF Budget
<1>4. CASE caller.address < AddressCount
  <2>1. caller' = [caller EXCEPT !.pc = "trying", !.address = caller.address + 1]
    BY <1>4 DEF Onward
  <2>2. /\ caller' \in [pc : {"idle", "trying", "waiting"}, kind : CallKinds,
                        address : 1 .. AddressCount]
        /\ caller'.pc = "trying" /\ caller'.address = caller.address + 1
    <3>1. caller.address + 1 \in 1 .. AddressCount
      BY <1>1, <1>4
    <3> DEFINE next == caller.address + 1
    <3> HIDE DEF next
    <3>2. caller' = [caller EXCEPT !.pc = "trying", !.address = next] /\ next \in 1 .. AddressCount
      BY <2>1, <3>1 DEF next
    <3>3. /\ caller' \in [pc : {"idle", "trying", "waiting"}, kind : CallKinds,
                          address : 1 .. AddressCount]
          /\ caller'.pc = "trying" /\ caller'.address = next
      BY <3>2 DEF CallsTypes
    <3> QED BY <3>3 DEF next
  <2>3. Budget' = before + caller.address
    <3>1. asks' = asks /\ caller'.pc # "idle" /\ caller'.pc # "waiting"
      BY <2>2
    <3>2. Budget' = before + (caller'.address - 1)
      BY <3>1, Zenon DEF Budget
    <3> HIDE DEF before
    <3> QED BY <1>1, <1>2, <2>2, <3>2
  <2> QED BY <1>1, <1>2, <1>3, <2>2, <2>3
<1>5. CASE ~(caller.address < AddressCount)
  <2>1. caller' = IdleLoop
    BY <1>5 DEF Onward
  <2>2. Budget' = AddressCount * asks
    BY <2>1 DEF Budget, IdleLoop
  <2>3. IdleLoop \in [pc : {"idle", "trying", "waiting"}, kind : CallKinds,
                      address : 1 .. AddressCount]
    BY <1>1 DEF IdleLoop, CallKinds
  <2>4. IdleLoop.pc = "idle"
    BY DEF IdleLoop
  <2> HIDE DEF before
  <2> QED BY <1>1, <1>2, <1>3, <2>1, <2>2, <2>3, <2>4
<1> QED BY <1>4, <1>5

LEMMA CallsNextKeeps ==
    ASSUME CallsInv, CallsNext
    PROVE  CallsInv'
<1> USE DEF CallsInv, CallsTypes, PhaseCallIds
<1>1. /\ AddressCount \in Nat \ {0} /\ Len(work) \in Nat /\ asks \in Nat
      /\ MaxAsks \in Nat
      /\ \A k \in PhaseCallIds : work[k] \in Call
  BY CallsAssumption, LenProperties, ElementOfSeq
\* A step of the loop that takes up no call
<1>2. ASSUME UNCHANGED <<work, waits, rows, asks>>,
             caller' \in [pc : {"idle", "trying", "waiting"}, kind : CallKinds,
                          address : 1 .. AddressCount],
             Len(work') <= Budget', inbox' \subseteq PhaseCallIds,
             \/ heard' = heard
             \/ caller'.pc = "idle" /\ work # << >> /\ heard' = heard \union {Len(work)},
             caller'.pc # "idle" => caller.pc # "idle" /\ (caller'.pc = "waiting" => work # << >>)
      PROVE  CallsInv'
  <2>1. CallsTypes'
    <3>1. work # << >> => Len(work) \in PhaseCallIds
      BY <1>1, EmptySeq
    <3> QED BY <1>2, <3>1
  <2>2. CallOfThisAsk'
    BY <1>2 DEF CallOfThisAsk
  <2>3. NothingBegunAfterAnAnswer'
    BY <1>1, <1>2 DEF NothingBegunAfterAnAnswer
  <2>4. ConfirmedAtMostOnce'
    BY <1>2 DEF ConfirmedAtMostOnce
  <2> QED BY <1>2, <2>1, <2>2, <2>3, <2>4
\* A step of Phase 3 or of its approvals: calls go on, and no new ones come
<1>3. ASSUME NEW k \in PhaseCallIds, NEW pc \in {"posting", "over"},
             work' = [work EXCEPT ![k].pc = pc],
             UNCHANGED <<caller, waits, heard, asks>>,
             inbox' \union rows' \subseteq PhaseCallIds
      PROVE  CallsInv'
  <2> DEFINE later == [work[k] EXCEPT !.pc = pc]
  <2>1. /\ later \in Call /\ later.kind = work[k].kind /\ later.ask = work[k].ask
    BY <1>1 DEF Call
  <2>2. work' = [work EXCEPT ![k] = later]
    BY <1>3
  <2> HIDE DEF later
  <2>3. /\ work' \in Seq(Call) /\ Len(work') = Len(work)
        /\ \A j \in 1 .. Len(work) : work'[j] = IF j = k THEN later ELSE work[j]
    BY <2>1, <2>2, ExceptSeq
  <2>4. \A j \in 1 .. Len(work) :
           work'[j].kind = work[j].kind /\ work'[j].ask = work[j].ask
    BY <2>1, <2>3
  <2>5. Budget' = Budget
    BY <1>3 DEF Budget
  <2>6. work' # << >> <=> work # << >>
    BY <2>3, EmptySeq, LenProperties
  <2>7. CallOfThisAsk'
    BY <1>3, <2>3, <2>4, <2>6 DEF CallOfThisAsk
  <2>8. NothingBegunAfterAnAnswer'
    BY <1>3, <2>3, <2>4 DEF NothingBegunAfterAnAnswer
  <2>9. ConfirmedAtMostOnce'
    BY <1>3, <2>3, <2>4 DEF ConfirmedAtMostOnce
  <2>10. \A j \in PhaseCallIds' : work'[j].ask <= asks'
    BY <1>3, <2>3, <2>4
  <2> QED BY <1>3, <2>3, <2>5, <2>7, <2>8, <2>9, <2>10
<1>4. CASE \E kind \in CallKinds : Ask(kind)
  <2>1. PICK kind \in CallKinds : Ask(kind)
    BY <1>4
  <2>2. /\ caller.pc = "idle" /\ asks < MaxAsks /\ asks' = asks + 1
        /\ caller' = [pc |-> "trying", kind |-> kind, address |-> 1]
        /\ UNCHANGED <<work, waits, inbox, rows, heard>>
    BY <2>1 DEF Ask
  <2>3. Budget' = AddressCount * (asks + 1 - 1) + (1 - 1) /\ Budget = AddressCount * asks
    BY <2>2 DEF Budget
  <2>4. Budget' = Budget
    <3> DEFINE x == (asks + 1) - 1
               y == AddressCount * asks
    <3>1. asks \in Nat /\ x = asks
      BY <1>1
    <3>2. y \in Nat
      BY <3>1, AddressesOfAsks, Zenon
    <3>3. Budget' = AddressCount * x + (1 - 1) /\ Budget = y
      BY <2>3
    <3>4. Budget' = y + (1 - 1)
      BY <3>1, <3>3, Zenon
    <3> HIDE DEF x, y
    <3>5. y + (1 - 1) = y
      BY <3>2
    <3> QED BY <3>3, <3>4, <3>5
  <2>5. CallsTypes'
    BY <1>1, <2>2
  <2>6. \A j \in PhaseCallIds : work[j].ask \in Nat /\ work[j].ask # asks + 1
    <3>1. \A j \in PhaseCallIds : work[j] \in Call
      BY <1>1, ElementOfSeq, LenProperties DEF PhaseCallIds
    <3>2. \A j \in PhaseCallIds : work[j].ask \in Nat /\ work[j].ask <= asks
      BY <1>1, <3>1 DEF Call
    <3>3. asks \in Nat
      BY <1>1
    <3> QED BY <3>2, <3>3
  <2>7. CallOfThisAsk'
    BY <1>1, <2>2, <2>6 DEF CallOfThisAsk
  <2>8. NothingBegunAfterAnAnswer' /\ ConfirmedAtMostOnce'
    BY <2>2 DEF NothingBegunAfterAnAnswer, ConfirmedAtMostOnce
  <2>9. \A j \in PhaseCallIds' : work'[j].ask <= asks'
    BY <1>1, <2>2, <2>6
  <2> QED BY <2>2, <2>4, <2>5, <2>7, <2>8, <2>9
<1>5. CASE AddressRefuses \/ TimedOut
  <2>1. /\ caller.pc # "idle" /\ caller' = Onward
        /\ UNCHANGED <<work, waits, inbox, rows, heard, asks>>
    BY <1>5 DEF AddressRefuses, TimedOut
  <2>2. /\ caller' \in [pc : {"idle", "trying", "waiting"}, kind : CallKinds,
                        address : 1 .. AddressCount]
        /\ caller'.pc \in {"idle", "trying"}
        /\ Len(work') <= Budget'
    BY <2>1, OnwardStays
  <2> QED BY <1>2, <2>1, <2>2
<1>6. CASE AnswerArrives
  <2>1. /\ caller.pc = "waiting" /\ caller' = IdleLoop /\ heard' = heard \union {Len(work)}
        /\ UNCHANGED <<work, waits, inbox, rows, asks>>
    BY <1>6 DEF AnswerArrives, AfterAnswer, LastCall
  <2>2. asks \in Nat \ {0} /\ work # << >>
    BY <1>1, <2>1 DEF CallOfThisAsk
  <2>3. Len(work') <= Budget'
    <3> DEFINE before == AddressCount * (asks - 1)
    <3>1. before \in Nat /\ before + AddressCount = AddressCount * asks
      <4>1. asks - 1 \in Nat
        BY <2>2
      <4>2. AddressCount * (asks - 1) \in Nat
        BY <4>1, AddressesOfAsks, Zenon
      <4>3. AddressCount * (asks - 1) + AddressCount = AddressCount * asks
        BY <2>2, AddressesOfAsks, Zenon
      <4> QED BY <4>2, <4>3
    <3>2. Budget = before + caller.address /\ Budget' = AddressCount * asks
      BY <2>1 DEF Budget, IdleLoop
    <3> HIDE DEF before
    <3> QED BY <1>1, <2>1, <3>1, <3>2
  <2>4. /\ IdleLoop \in [pc : {"idle", "trying", "waiting"}, kind : CallKinds,
                         address : 1 .. AddressCount]
        /\ IdleLoop.pc = "idle"
    BY <1>1 DEF IdleLoop, CallKinds
  <2> QED BY <1>2, <2>1, <2>2, <2>3, <2>4
<1>7. CASE TakenUp
  <2> DEFINE new == [kind |-> caller.kind, pc |-> "working", ask |-> asks]
  <2>1. /\ caller.pc = "trying" /\ (caller.kind = "resume" => waits)
        /\ work' = Append(work, new)
        /\ waits' = (waits /\ caller.kind # "resume")
        /\ caller' = [caller EXCEPT !.pc = "waiting"]
        /\ UNCHANGED <<inbox, rows, heard, asks>>
    BY <1>7 DEF TakenUp, StillWaits
  <2>2. asks \in Nat \ {0}
    BY <1>1, <2>1 DEF CallOfThisAsk
  <2>3. new \in Call /\ new.kind = caller.kind /\ new.ask = asks
    BY <1>1, <2>2 DEF Call
  <2> HIDE DEF new
  <2>4. /\ work' \in Seq(Call) /\ Len(work') = Len(work) + 1
        /\ \A j \in 1 .. Len(work) : work'[j] = work[j]
        /\ work'[Len(work) + 1] = new
    BY <2>1, <2>3, AppendProperties
  <2>5. /\ caller' \in [pc : {"idle", "trying", "waiting"}, kind : CallKinds,
                        address : 1 .. AddressCount]
        /\ caller'.pc = "waiting" /\ caller'.address = caller.address
    BY <2>1
  <2>6. CallsTypes'
    <3>1. waits' \in BOOLEAN
      BY <2>1
    <3>2. PhaseCallIds \subseteq PhaseCallIds'
      BY <1>1, <2>4
    <3> QED BY <2>1, <2>4, <2>5, <3>1, <3>2
  <2>7. Len(work') <= Budget'
    <3> DEFINE before == AddressCount * (asks - 1)
    <3>1. before \in Nat
      <4>1. asks - 1 \in Nat
        BY <2>2
      <4> QED BY <4>1, AddressesOfAsks
    <3>2. Budget = before + (caller.address - 1) /\ Budget' = before + caller.address
      BY <2>1, <2>5 DEF Budget
    <3> HIDE DEF before
    <3> QED BY <1>1, <2>4, <3>1, <3>2
  <2>8. \A j \in PhaseCallIds' : j \in PhaseCallIds \/ j = Len(work) + 1
    BY <1>1, <2>4
  <2>9. \A j \in PhaseCallIds' : work'[j].ask <= asks'
    BY <1>1, <2>1, <2>3, <2>4, <2>8
  <2>10. \A j \in PhaseCallIds : work[j].ask = asks => j \notin heard
    BY <2>1 DEF CallOfThisAsk
  <2>11. Len(work) + 1 \notin heard
    BY <1>1
  <2>12. CallOfThisAsk'
    <3>1. work' # << >>
      BY <1>1, <2>4, EmptySeq
    <3> QED BY <2>1, <2>2, <2>4, <2>8, <2>10, <2>11, <3>1 DEF CallOfThisAsk
  <2>13. NothingBegunAfterAnAnswer'
    <3> SUFFICES ASSUME NEW j \in PhaseCallIds', NEW k \in PhaseCallIds', j < k,
                        work'[j].ask = work'[k].ask
                 PROVE  j \notin heard'
      BY DEF NothingBegunAfterAnAnswer
    <3>1. j \in PhaseCallIds /\ work'[j] = work[j]
      BY <1>1, <2>4, <2>8
    <3>2. CASE k \in PhaseCallIds
      BY <2>1, <2>4, <3>1, <3>2 DEF NothingBegunAfterAnAnswer
    <3>3. CASE k = Len(work) + 1
      BY <2>1, <2>3, <2>4, <2>10, <3>1, <3>3
    <3> QED BY <2>8, <3>2, <3>3
  <2>14. ConfirmedAtMostOnce'
    <3> SUFFICES ASSUME NEW j \in PhaseCallIds', work'[j].kind = "resume"
                 PROVE  ~waits' /\ \A k \in PhaseCallIds' : work'[k].kind = "resume" => k = j
      BY DEF ConfirmedAtMostOnce
    <3>1. CASE j \in PhaseCallIds
      <4>1. ~waits /\ work[j].kind = "resume"
        BY <2>4, <3>1 DEF ConfirmedAtMostOnce
      <4>2. new.kind # "resume" /\ ~waits'
        BY <2>1, <2>3, <4>1
      <4> QED BY <2>4, <2>8, <3>1, <4>1, <4>2 DEF ConfirmedAtMostOnce
    <3>2. CASE j = Len(work) + 1
      <4>1. caller.kind = "resume"
        BY <2>3, <2>4, <3>2
      <4>2. ~waits' /\ waits
        BY <2>1, <4>1
      <4>3. \A k \in PhaseCallIds : work'[k].kind # "resume"
        BY <2>4, <4>2 DEF ConfirmedAtMostOnce
      <4> QED BY <2>8, <3>2, <4>2, <4>3
    <3> QED BY <2>8, <3>1, <3>2
  <2> QED BY <2>6, <2>7, <2>9, <2>12, <2>13, <2>14
<1>8. CASE \E k \in PhaseCallIds : Pause(k) \/ Finish(k) \/ GiveUpPost(k) \/ CreateRow(k)
  <2>1. PICK k \in PhaseCallIds : Pause(k) \/ Finish(k) \/ GiveUpPost(k) \/ CreateRow(k)
    BY <1>8
  <2>2. CASE Pause(k)
    BY <1>3, <2>2 DEF Pause
  <2>3. CASE Finish(k) \/ GiveUpPost(k)
    BY <1>3, <2>3 DEF Finish, GiveUpPost
  <2>4. CASE CreateRow(k)
    BY <1>3, <2>4 DEF CreateRow
  <2> QED BY <2>1, <2>2, <2>3, <2>4
<1> QED BY <1>4, <1>5, <1>6, <1>7, <1>8 DEF CallsNext

\* A request of Phase 4 begins a run again only while it heard of none, and a
\* grouping is confirmed once, however many addresses and requests there are:
\* CallsBeginOnce, about _run_phase3_workflow and _phase3_request.
THEOREM CallsBeginOnceOnly == CallsSpec => []CallsBeginOnce
<1>1. CallsInv /\ [CallsNext]_callsVars => CallsInv'
  <2>1. CallsInv /\ UNCHANGED callsVars => CallsInv'
    BY DEF CallsInv, CallsTypes, Budget, CallOfThisAsk, NothingBegunAfterAnAnswer,
           ConfirmedAtMostOnce, PhaseCallIds, callsVars
  <2> QED BY <2>1, CallsNextKeeps
<1>2. CallsInv => CallsBeginOnce
  <2> SUFFICES ASSUME CallsInv PROVE CallsBeginOnce
    OBVIOUS
  <2>1. /\ AddressCount \in Nat \ {0} /\ Len(work) \in Nat /\ asks \in 0 .. MaxAsks
        /\ MaxAsks \in Nat /\ caller.address \in 1 .. AddressCount
        /\ \A k \in PhaseCallIds : work[k] \in Call
    BY CallsAssumption, LenProperties, ElementOfSeq DEF CallsInv, CallsTypes, PhaseCallIds
  <2>2. Len(work) <= MaxCalls
    <3>1. Budget <= AddressCount * asks
      <4>1. CASE caller.pc = "idle"
        BY <2>1, <4>1, AddressesOfAsks DEF Budget
      <4>2. CASE caller.pc # "idle"
        <5> DEFINE before == AddressCount * (asks - 1)
        <5>1. asks \in Nat \ {0}
          BY <2>1, <4>2 DEF CallsInv, CallOfThisAsk
        <5>2. before \in Nat /\ before + AddressCount = AddressCount * asks
          BY <5>1, AddressesOfAsks
        <5>3. Budget \in {before + caller.address, before + (caller.address - 1)}
          BY <4>2 DEF Budget
        <5> HIDE DEF before
        <5> QED BY <2>1, <5>2, <5>3
      <4> QED BY <4>1, <4>2
    <3>2. AddressCount * asks <= MaxCalls /\ AddressCount * asks \in Nat /\ MaxCalls \in Nat
      BY <2>1, AddressesOfAsks DEF MaxCalls
    <3>3. Budget \in Int
      BY <2>1 DEF Budget
    <3>4. Len(work) <= Budget
      BY DEF CallsInv
    <3> QED BY <2>1, <3>1, <3>2, <3>3, <3>4
  <2>3. CallsTypeOK
    BY <2>1, <2>2 DEF CallsInv, CallsTypes, CallsTypeOK, Call
  <2>4. GroupingConfirmedOnce
    <3> DEFINE S == {k \in PhaseCallIds : work[k].kind = "resume"}
    <3>1. CASE S = {}
      BY <3>1, FS_EmptySet DEF GroupingConfirmedOnce
    <3>2. CASE S # {}
      <4>1. PICK j \in S : TRUE
        BY <3>2
      <4>2. S = {j}
        BY <4>1 DEF CallsInv, ConfirmedAtMostOnce
      <4>3. Cardinality(S) = 1
        BY <4>2, FS_Singleton
      <4> QED BY <4>3 DEF GroupingConfirmedOnce
    <3> QED BY <3>1, <3>2
  <2> QED BY <2>3, <2>4 DEF CallsInv, CallsBeginOnce
<1> QED BY <1>1, <1>2, CallsInitially, PTL DEF CallsSpec

-----------------------------------------------------------------------------
(* AlertPoller.                                                              *)

PollerTypes ==
    /\ time \in 0 .. MaxTime
    /\ raised \in [IndexedAlerts -> -1 .. MaxTime]
    /\ indexed \union pushed \union excused \subseteq IndexedAlerts
    /\ pushed \union poll.batch \subseteq indexed
    /\ poll \in [pc : {"rest", "fetch", "push"}, began : 0 .. MaxTime,
                 batch : SUBSET IndexedAlerts]
    /\ watermark \in -1 .. MaxTime + 1

Accounted == pushed \union excused

\* Nothing is dated later than now, the index holds what was raised, and what it
\* does not hold yet is excused
DatesInv ==
    /\ poll.began <= time
    /\ \A a \in IndexedAlerts : raised[a] <= time
    /\ \A a \in indexed : raised[a] # Never
    /\ \A a \in IndexedAlerts \ indexed : raised[a] # Never => a \in excused

\* The watermark is never further ahead than the cycle that begins next
WatermarkInv ==
    /\ watermark # Never => watermark <= poll.began + 1
    /\ poll.pc \in {"fetch", "push"} => watermark # Never /\ watermark <= poll.began

\* What lies below the watermark's second is accounted for at all times
BelowInv ==
    watermark # Never =>
        \A a \in indexed : raised[a] < Second(watermark) => a \in Accounted

\* and so is, while a batch is under way, what will lie below the next one's
BatchInv ==
    poll.pc = "push" =>
        /\ \A a \in poll.batch : raised[a] >= Second(watermark)
        /\ \A a \in indexed :
              /\ poll.batch = {} /\ raised[a] < poll.began => a \in Accounted
              /\ poll.batch # {} /\ raised[a] <= NewestSecond(poll.batch) =>
                    a \in Accounted \union poll.batch

PollerInv == PollerTypes /\ DatesInv /\ WatermarkInv /\ BelowInv /\ BatchInv

\* The second of a time is not after it, and is the last second that is not.
LEMMA SecondIsFloor ==
    /\ \A t \in Nat : Second(t) \in Nat /\ Second(t) <= t
    /\ \A s, t \in Nat : Second(s) <= t => Second(s) <= Second(t)
<1>1. PerSecond \in Nat \ {0}
  BY PollerAssumption
<1>2. ASSUME NEW t \in Nat
      PROVE  /\ t % PerSecond \in 0 .. PerSecond - 1
             /\ t = (t \div PerSecond) * PerSecond + (t % PerSecond)
             /\ t \div PerSecond \in Int
  <2>1. t \div PerSecond \in Int
    BY <1>1
  <2>2. t % PerSecond \in 0 .. PerSecond - 1
    BY <1>1
  <2>3. t = (t \div PerSecond) * PerSecond + (t % PerSecond)
    BY <1>1, SMTT(30)
  <2> QED BY <2>1, <2>2, <2>3
<1>3. ASSUME NEW t \in Nat
      PROVE  Second(t) = (t \div PerSecond) * PerSecond /\ t < Second(t) + PerSecond
  <2> DEFINE whole == (t \div PerSecond) * PerSecond
             rest == t % PerSecond
  <2>1. /\ rest \in 0 .. PerSecond - 1 /\ whole \in Int /\ t = whole + rest
        /\ Second(t) = t - rest
    BY <1>1, <1>2 DEF Second
  <2> HIDE DEF whole, rest
  <2>2. Second(t) = whole /\ t < Second(t) + PerSecond
    BY <1>1, <2>1
  <2> QED BY <2>2 DEF whole
<1>4. \A t \in Nat : t % PerSecond <= t
  BY <1>1
<1>5. ASSUME NEW m \in Int, NEW n \in Int, m * PerSecond < n * PerSecond
      PROVE  m * PerSecond + PerSecond <= n * PerSecond
  <2>1. m < n
    BY <1>1, <1>5
  <2>2. m + 1 <= n
    BY <2>1
  <2>3. (m + 1) * PerSecond <= n * PerSecond
    BY <1>1, <2>2
  <2> QED BY <1>1, <2>3
<1>6. ASSUME NEW s \in Nat, NEW t \in Nat, Second(s) <= t
      PROVE  Second(s) <= Second(t)
  <2> DEFINE m == s \div PerSecond
             n == t \div PerSecond
  <2>1. m \in Int /\ n \in Int
    BY <1>2
  <2> HIDE DEF m, n
  <2>2. /\ Second(s) = m * PerSecond /\ Second(t) = n * PerSecond
        /\ t < n * PerSecond + PerSecond
    BY <1>3 DEF m, n
  <2>3. m * PerSecond \in Int /\ n * PerSecond \in Int
    BY <1>1, <2>1
  <2>4. CASE n * PerSecond < m * PerSecond
    BY <1>1, <1>5, <1>6, <2>1, <2>2, <2>3, <2>4
  <2> QED BY <2>2, <2>3, <2>4
<1>7. \A t \in Nat : Second(t) \in Nat /\ Second(t) <= t
  BY <1>1, <1>2, <1>4 DEF Second
<1> QED BY <1>6, <1>7

LEMMA NewestIsGreatest ==
    ASSUME PollerTypes, DatesInv, NEW S \in SUBSET indexed, S # {}
    PROVE  /\ NewestSecond(S) \in 0 .. time
           /\ \E a \in S : raised[a] = NewestSecond(S)
           /\ \A a \in S : raised[a] <= NewestSecond(S)
<1> DEFINE T == {raised[a] : a \in S}
<1>1. time \in Nat
  BY PollerAssumption DEF PollerTypes
<1>2. \A a \in S : raised[a] \in 0 .. time
  BY <1>1 DEF PollerTypes, DatesInv, Never
<1>3. T \in SUBSET (0 .. time) /\ T # {}
  BY <1>2
<1>4. Max(T) \in T /\ \A n \in T : Max(T) >= n
  <2> HIDE DEF T
  <2> QED BY <1>1, <1>3, MaxIsGreatest
<1>5. NewestSecond(S) = Max(T)
  BY DEF NewestSecond
<1>6. \A a \in S : raised[a] <= Max(T)
  BY <1>2, <1>3, <1>4
<1> QED BY <1>3, <1>4, <1>5, <1>6

-----------------------------------------------------------------------------

LEMMA PollerInitially == PollerInit => PollerInv
<1> SUFFICES ASSUME PollerInit PROVE PollerInv
  OBVIOUS
<1> USE PollerAssumption DEF PollerInit, Never
<1>1. PollerTypes
  BY DEF PollerTypes
<1>2. DatesInv /\ WatermarkInv
  BY DEF DatesInv, WatermarkInv
<1>3. BelowInv /\ BatchInv
  BY DEF BelowInv, BatchInv
<1> QED BY <1>1, <1>2, <1>3 DEF PollerInv

LEMMA PollerTypesKept ==
    ASSUME PollerInv, PollerNext
    PROVE  PollerTypes'
<1> USE PollerAssumption DEF PollerTypes, Never
<1>0. PollerTypes /\ DatesInv
  BY DEF PollerInv
<1>1. Resting \in [pc : {"rest", "fetch", "push"}, began : 0 .. MaxTime,
                   batch : SUBSET IndexedAlerts] /\ Resting.batch = {}
  BY <1>0 DEF Resting
<1>2. CASE Millisecond
  BY <1>0, <1>2 DEF Millisecond
<1>3. CASE StartCycle
  <2>1. FirstWatermark \in 0 .. MaxTime
    BY <1>0 DEF FirstWatermark
  <2>2. /\ poll' = [poll EXCEPT !.pc = "fetch", !.began = time]
        /\ watermark' \in {FirstWatermark, watermark}
        /\ excused' \subseteq excused \union IndexedAlerts
        /\ UNCHANGED <<time, raised, indexed, pushed, pollerStarts>>
    BY <1>3 DEF StartCycle
  <2>3. poll' \in [pc : {"rest", "fetch", "push"}, began : 0 .. MaxTime,
                   batch : SUBSET IndexedAlerts] /\ poll'.batch = poll.batch
    BY <1>0, <2>2
  <2>4. watermark' \in -1 .. MaxTime + 1
    BY <1>0, <2>1, <2>2
  <2> QED BY <1>0, <2>2, <2>3, <2>4
<1>4. CASE FetchFails
  BY <1>0, <1>1, <1>4 DEF FetchFails
<1>5. CASE RestartPoller
  BY <1>0, <1>1, <1>5 DEF RestartPoller
<1>6. CASE \E a \in IndexedAlerts : Index(a) \/ \E prompt \in BOOLEAN : Raise(a, prompt)
  BY <1>0, <1>6 DEF Index, Raise
<1>7. CASE \E batch \in SUBSET indexed : Fetch(batch)
  <2>1. PICK batch \in SUBSET indexed : Fetch(batch)
    BY <1>7
  <2>2. From(Start) \subseteq IndexedAlerts
    BY <1>0 DEF From
  <2>3. poll' \in [pc : {"rest", "fetch", "push"}, began : 0 .. MaxTime,
                   batch : SUBSET IndexedAlerts] /\ poll'.batch = batch
    BY <1>0, <2>1 DEF Fetch
  <2> QED BY <1>0, <2>1, <2>2, <2>3 DEF Fetch
<1>8. CASE \E batch \in SUBSET indexed : \E failed \in SUBSET batch : Backfill(batch, failed)
  BY <1>0, <1>8 DEF Backfill
<1>9. CASE \E failed \in SUBSET poll.batch : Push(failed)
  <2>1. PICK failed \in SUBSET poll.batch : Push(failed)
    BY <1>9
  <2>2. watermark' \in -1 .. MaxTime + 1
    <3>1. poll.batch # {} => NewestSecond(poll.batch) \in 0 .. time
      BY <1>0, NewestIsGreatest
    <3>2. poll.began \in 0 .. MaxTime /\ time \in 0 .. MaxTime
      BY <1>0
    <3> QED BY <2>1, <3>1, <3>2 DEF Push, AfterEmpty, AfterBatch
  <2> QED BY <1>0, <1>1, <2>1, <2>2 DEF Push
<1> QED BY <1>2, <1>3, <1>4, <1>5, <1>6, <1>7, <1>8, <1>9 DEF PollerNext

LEMMA DatesKept ==
    ASSUME PollerInv, PollerNext
    PROVE  DatesInv' /\ WatermarkInv'
<1>0. PollerTypes /\ DatesInv /\ WatermarkInv
  BY DEF PollerInv
<1>1. /\ time \in Nat /\ poll.began \in Nat /\ watermark \in Int /\ MaxTime \in Nat
      /\ Lookback \in Nat /\ \A a \in IndexedAlerts : raised[a] \in Int
  BY <1>0, PollerAssumption DEF PollerTypes
<1> USE DEF DatesInv, WatermarkInv
<1>2. CASE Millisecond
  BY <1>0, <1>1, <1>2 DEF Millisecond
<1>3. CASE StartCycle
  <2>1. /\ poll.pc = "rest" /\ (watermark # Never => time > poll.began)
        /\ poll' = [poll EXCEPT !.pc = "fetch", !.began = time]
        /\ watermark' = IF watermark = Never THEN FirstWatermark ELSE watermark
        /\ excused \subseteq excused'
        /\ UNCHANGED <<time, raised, indexed, pushed, pollerStarts>>
    BY <1>3 DEF StartCycle
  <2>2. FirstWatermark \in 0 .. time
    BY <1>1 DEF FirstWatermark
  <2>3. poll'.pc = "fetch" /\ poll'.began = time
    BY <1>0, <2>1 DEF PollerTypes
  <2>4. watermark' # Never /\ watermark' <= time /\ watermark' \in Int
    BY <1>0, <1>1, <2>1, <2>2 DEF Never
  <2> QED BY <1>0, <1>1, <2>1, <2>3, <2>4
<1>4. CASE FetchFails \/ RestartPoller
  <2>1. /\ poll'.pc = "rest" /\ poll'.began = time
        /\ UNCHANGED <<time, raised, indexed, excused>>
        /\ watermark' \in {watermark, Never}
    BY <1>4 DEF FetchFails, RestartPoller, Resting
  <2> QED BY <1>0, <1>1, <2>1
<1>5. CASE \E a \in IndexedAlerts : Index(a)
  BY <1>0, <1>5 DEF Index
<1>6. CASE \E a \in IndexedAlerts : \E prompt \in BOOLEAN : Raise(a, prompt)
  <2>1. PICK a \in IndexedAlerts, prompt \in BOOLEAN : Raise(a, prompt)
    BY <1>6
  <2>2. /\ raised' = [raised EXCEPT ![a] = time]
        /\ indexed' = IF prompt THEN indexed \union {a} ELSE indexed
        /\ excused \subseteq excused' /\ (~prompt => a \in excused')
        /\ UNCHANGED <<time, poll, watermark>>
    BY <2>1 DEF Raise
  <2>3. \A b \in IndexedAlerts : raised'[b] = IF b = a THEN time ELSE raised[b]
    BY <1>0, <2>2 DEF PollerTypes
  <2>4. time # Never
    BY <1>1 DEF Never
  <2>5. \A b \in IndexedAlerts : raised'[b] <= time'
    BY <1>0, <1>1, <2>2, <2>3
  <2>6. \A b \in indexed' : raised'[b] # Never
    BY <1>0, <2>2, <2>3, <2>4 DEF PollerTypes
  <2>7. \A b \in IndexedAlerts \ indexed' : raised'[b] # Never => b \in excused'
    BY <1>0, <2>2, <2>3
  <2> QED BY <1>0, <2>2, <2>5, <2>6, <2>7
<1>7. CASE \E batch \in SUBSET indexed : Fetch(batch)
  <2>1. PICK batch \in SUBSET indexed : Fetch(batch)
    BY <1>7
  <2>2. /\ poll.pc = "fetch" /\ poll' = [poll EXCEPT !.pc = "push", !.batch = batch]
        /\ excused \subseteq excused'
        /\ UNCHANGED <<time, raised, indexed, watermark>>
    BY <2>1 DEF Fetch
  <2>3. poll'.pc = "push" /\ poll'.began = poll.began
    BY <1>0, <2>2 DEF PollerTypes
  <2> QED BY <1>0, <2>2, <2>3
<1>8. CASE \E batch \in SUBSET indexed : \E failed \in SUBSET batch : Backfill(batch, failed)
  BY <1>0, <1>8 DEF Backfill
<1>9. CASE \E failed \in SUBSET poll.batch : Push(failed)
  <2>1. PICK failed \in SUBSET poll.batch : Push(failed)
    BY <1>9
  <2>2. /\ poll'.pc = "rest" /\ poll'.began = time
        /\ UNCHANGED <<time, raised, indexed>> /\ excused \subseteq excused'
        /\ watermark' = IF poll.batch = {} THEN poll.began ELSE NewestSecond(poll.batch) + 1
    BY <2>1 DEF Push, Resting, AfterEmpty, AfterBatch
  <2>3. poll.batch # {} => NewestSecond(poll.batch) \in 0 .. time
    BY <1>0, NewestIsGreatest DEF PollerTypes
  <2>4. watermark' <= time + 1
    BY <1>0, <1>1, <2>2, <2>3
  <2> QED BY <1>0, <1>1, <2>2, <2>4
<1> QED BY <1>2, <1>3, <1>4, <1>5, <1>6, <1>7, <1>8, <1>9 DEF PollerNext

LEMMA BelowKept ==
    ASSUME PollerInv, PollerNext
    PROVE  BelowInv'
<1>0. PollerTypes /\ DatesInv /\ WatermarkInv /\ BelowInv /\ BatchInv
  BY DEF PollerInv
<1>1. /\ time \in Nat /\ poll.began \in Nat /\ watermark \in Int
      /\ \A a \in IndexedAlerts : raised[a] \in Int
      /\ watermark # Never => watermark \in Nat
      /\ indexed \subseteq IndexedAlerts
  BY <1>0, PollerAssumption DEF PollerTypes, Never
<1> USE DEF BelowInv, Accounted
<1>2. ASSUME UNCHANGED <<raised, watermark>>, Accounted \subseteq Accounted',
             \A a \in indexed' \ indexed : a \in excused'
      PROVE  BelowInv'
  BY <1>0, <1>2 DEF Second
<1>3. CASE Millisecond \/ FetchFails
  BY <1>2, <1>3 DEF Millisecond, FetchFails
<1>4. CASE StartCycle
  <2>1. CASE watermark # Never
    BY <1>2, <1>4, <2>1 DEF StartCycle
  <2>2. CASE watermark = Never
    <3>1. /\ watermark' = FirstWatermark
          /\ excused' = excused \union {a \in IndexedAlerts :
                                 raised[a] # Never /\ raised[a] < Second(FirstWatermark)}
          /\ UNCHANGED <<raised, indexed>>
      BY <1>4, <2>2 DEF StartCycle
    <3>2. Second(watermark') = Second(FirstWatermark)
      BY <3>1
    <3>3. \A a \in indexed : raised[a] # Never
      BY <1>0 DEF DatesInv
    <3> QED BY <1>1, <3>1, <3>2, <3>3 DEF Second
  <2> QED BY <2>1, <2>2
<1>5. CASE RestartPoller
  BY <1>5 DEF RestartPoller
<1>6. CASE \E a \in IndexedAlerts : Index(a)
  <2>1. PICK a \in IndexedAlerts : Index(a)
    BY <1>6
  <2>2. a \in excused
    BY <1>0, <2>1 DEF Index, DatesInv
  <2> QED BY <1>2, <2>1, <2>2 DEF Index
<1>7. CASE \E a \in IndexedAlerts : \E prompt \in BOOLEAN : Raise(a, prompt)
  <2>1. PICK a \in IndexedAlerts, prompt \in BOOLEAN : Raise(a, prompt)
    BY <1>7
  <2>2. /\ raised' = [raised EXCEPT ![a] = time] /\ raised[a] = Never
        /\ indexed' = IF prompt THEN indexed \union {a} ELSE indexed
        /\ excused \subseteq excused' /\ (~prompt \/ Overtaken => a \in excused')
        /\ UNCHANGED <<watermark, pushed>>
    BY <2>1 DEF Raise, NextRaised
  <2>3. \A b \in IndexedAlerts : raised'[b] = IF b = a THEN time ELSE raised[b]
    BY <1>0, <2>2 DEF PollerTypes
  <2>4. Second(watermark') = Second(watermark)
    BY <2>2
  <2>5. watermark # Never /\ time < Second(watermark) => a \in excused'
    <3>1. watermark # Never => Second(watermark) \in Nat
      BY <1>1, SecondIsFloor
    <3> QED BY <1>1, <2>2, <3>1 DEF Overtaken
  <2> SUFFICES ASSUME watermark' # Never, NEW b \in indexed', raised'[b] < Second(watermark')
               PROVE  b \in Accounted'
    OBVIOUS
  <2>6. CASE b = a
    BY <2>2, <2>3, <2>4, <2>5, <2>6
  <2>7. CASE b # a
    BY <1>0, <1>1, <2>2, <2>3, <2>4, <2>7
  <2> QED BY <2>6, <2>7
<1>8. CASE \E batch \in SUBSET indexed : Fetch(batch)
  BY <1>2, <1>8 DEF Fetch
<1>9. CASE \E batch \in SUBSET indexed : \E failed \in SUBSET batch : Backfill(batch, failed)
  BY <1>2, <1>9 DEF Backfill
<1>10. CASE \E failed \in SUBSET poll.batch : Push(failed)
  <2>1. PICK failed \in SUBSET poll.batch : Push(failed)
    BY <1>10
  <2>2. /\ poll.pc = "push" /\ UNCHANGED <<raised, indexed>>
        /\ pushed' = pushed \union (poll.batch \ failed) /\ excused' = excused \union failed
        /\ watermark' = IF poll.batch = {} THEN poll.began ELSE NewestSecond(poll.batch) + 1
    BY <2>1 DEF Push, AfterEmpty, AfterBatch
  <2>3. Accounted' = Accounted \union poll.batch
    BY <2>2
  <2> SUFFICES ASSUME NEW a \in indexed, raised[a] < Second(watermark')
               PROVE  a \in Accounted'
    BY <2>2 DEF Second
  <2>4. raised[a] \in Int
    BY <1>1
  <2>5. CASE poll.batch = {}
    <3>1. Second(poll.began) \in Nat /\ Second(poll.began) <= poll.began
      BY <1>1, SecondIsFloor
    <3>2. Second(watermark') = Second(poll.began)
      BY <2>2, <2>5
    <3>3. raised[a] < poll.began
      BY <1>1, <2>4, <3>1, <3>2
    <3> QED BY <1>0, <2>2, <2>3, <2>5, <3>3 DEF BatchInv
  <2>6. CASE poll.batch # {}
    <3> DEFINE newest == NewestSecond(poll.batch)
    <3>1. newest \in Nat
      BY <1>0, <1>1, <2>6, NewestIsGreatest DEF PollerTypes
    <3>2. watermark' = newest + 1
      BY <2>2, <2>6
    <3> HIDE DEF newest
    <3>3. Second(newest + 1) \in Nat /\ Second(newest + 1) <= newest + 1
      BY <3>1, SecondIsFloor
    <3>4. Second(watermark') = Second(newest + 1)
      BY <3>2
    <3>5. raised[a] <= newest
      BY <2>4, <3>1, <3>3, <3>4
    <3> QED BY <1>0, <2>2, <2>3, <2>6, <3>5 DEF BatchInv, newest
  <2> QED BY <2>5, <2>6
<1> QED BY <1>3, <1>4, <1>5, <1>6, <1>7, <1>8, <1>9, <1>10 DEF PollerNext

LEMMA BatchKept ==
    ASSUME PollerInv, PollerNext
    PROVE  BatchInv'
<1>0. PollerTypes /\ DatesInv /\ WatermarkInv /\ BelowInv /\ BatchInv
  BY DEF PollerInv
<1>1. /\ time \in Nat /\ poll.began \in Nat /\ watermark \in Int
      /\ \A a \in IndexedAlerts : raised[a] \in Int
      /\ watermark # Never => watermark \in Nat
      /\ indexed \subseteq IndexedAlerts
  BY <1>0, PollerAssumption DEF PollerTypes, Never
<1> USE DEF Accounted
<1>2. ASSUME UNCHANGED <<raised, watermark, poll>>, Accounted \subseteq Accounted',
             \A a \in indexed' \ indexed : a \in excused'
      PROVE  BatchInv'
  <2>1. /\ Second(watermark') = Second(watermark)
        /\ NewestSecond(poll.batch)' = NewestSecond(poll.batch)
    BY <1>2 DEF Second, NewestSecond
  <2> QED BY <1>0, <1>2, <2>1 DEF BatchInv
<1>3. poll'.pc # "push" => BatchInv'
  BY DEF BatchInv
<1>4. CASE Millisecond
  BY <1>2, <1>4 DEF Millisecond
<1>5. CASE StartCycle
  <2>1. poll'.pc = "fetch"
    BY <1>0, <1>5 DEF StartCycle, PollerTypes
  <2> QED BY <1>3, <2>1
<1>10. CASE FetchFails \/ RestartPoller \/ \E failed \in SUBSET poll.batch : Push(failed)
  <2>1. poll'.pc = "rest"
    BY <1>10 DEF FetchFails, RestartPoller, Push, Resting
  <2> QED BY <1>3, <2>1
<1>6. CASE \E a \in IndexedAlerts : Index(a)
  <2>1. PICK a \in IndexedAlerts : Index(a)
    BY <1>6
  <2>2. a \in excused
    BY <1>0, <2>1 DEF Index, DatesInv
  <2> QED BY <1>2, <2>1, <2>2 DEF Index
<1>7. CASE \E a \in IndexedAlerts : \E prompt \in BOOLEAN : Raise(a, prompt)
  <2>1. PICK a \in IndexedAlerts, prompt \in BOOLEAN : Raise(a, prompt)
    BY <1>7
  <2>2. /\ raised' = [raised EXCEPT ![a] = time] /\ raised[a] = Never
        /\ indexed' = IF prompt THEN indexed \union {a} ELSE indexed
        /\ excused \subseteq excused' /\ (~prompt \/ Overtaken => a \in excused')
        /\ UNCHANGED <<watermark, poll, pushed>>
    BY <2>1 DEF Raise, NextRaised
  <2>3. \A b \in IndexedAlerts : raised'[b] = IF b = a THEN time ELSE raised[b]
    BY <1>0, <2>2 DEF PollerTypes
  <2>4. a \notin indexed
    BY <1>0, <2>2 DEF DatesInv
  <2>5. \A b \in poll.batch : b # a /\ raised'[b] = raised[b] /\ b \in indexed
    BY <1>0, <2>3, <2>4 DEF PollerTypes
  <2>6. {raised'[b] : b \in poll.batch} = {raised[b] : b \in poll.batch}
    BY <2>5
  <2>7. /\ NewestSecond(poll.batch)' = NewestSecond(poll.batch)
        /\ Second(watermark') = Second(watermark)
    BY <2>2, <2>6 DEF NewestSecond
  <2>8. poll.batch # {} => NewestSecond(poll.batch) \in 0 .. time
    BY <1>0, NewestIsGreatest DEF PollerTypes
  <2>9. poll.batch # {} /\ time <= NewestSecond(poll.batch) => a \in excused'
    BY <1>1, <2>2, <2>8 DEF Overtaken
  <2>10. ~(time < poll.began)
    BY <1>0, <1>1 DEF DatesInv
  <2> SUFFICES ASSUME poll.pc = "push"
               PROVE  /\ \A b \in poll.batch : raised'[b] >= Second(watermark)
                      /\ \A b \in indexed' :
                            /\ poll.batch = {} /\ raised'[b] < poll.began => b \in Accounted'
                            /\ poll.batch # {} /\ raised'[b] <= NewestSecond(poll.batch) =>
                                  b \in Accounted' \union poll.batch
    BY <2>2, <2>7 DEF BatchInv
  <2>11. \A b \in poll.batch : raised'[b] >= Second(watermark)
    BY <1>0, <2>5 DEF BatchInv
  <2>12. ASSUME NEW b \in indexed', b # a
         PROVE  /\ poll.batch = {} /\ raised'[b] < poll.began => b \in Accounted'
                /\ poll.batch # {} /\ raised'[b] <= NewestSecond(poll.batch) =>
                      b \in Accounted' \union poll.batch
    <3>1. b \in indexed /\ raised'[b] = raised[b] /\ Accounted \subseteq Accounted'
      BY <1>1, <2>2, <2>3, <2>12
    <3> QED BY <1>0, <3>1 DEF BatchInv
  <2>13. ASSUME a \in indexed'
         PROVE  /\ poll.batch = {} /\ raised'[a] < poll.began => a \in Accounted'
                /\ poll.batch # {} /\ raised'[a] <= NewestSecond(poll.batch) =>
                      a \in Accounted' \union poll.batch
    BY <2>3, <2>9, <2>10
  <2> QED BY <2>11, <2>12, <2>13
<1>8. CASE \E batch \in SUBSET indexed : Fetch(batch)
  <2>1. PICK batch \in SUBSET indexed : Fetch(batch)
    BY <1>8
  <2>2. /\ poll.pc = "fetch" /\ Fetched(From(Start), batch)
        /\ excused' = excused \union (From(Start) \ batch)
        /\ poll' = [poll EXCEPT !.pc = "push", !.batch = batch]
        /\ UNCHANGED <<time, raised, indexed, watermark, pushed>>
    BY <2>1 DEF Fetch
  <2>3. poll'.pc = "push" /\ poll'.batch = batch /\ poll'.began = poll.began
    BY <1>0, <2>2 DEF PollerTypes
  <2>4. watermark \in Nat /\ watermark <= poll.began /\ Second(watermark) \in Nat
        /\ watermark # Never
    BY <1>0, <1>1, <2>2, SecondIsFloor DEF WatermarkInv
  <2>5. batch \subseteq From(Start) /\ \A a \in batch : raised[a] >= Second(watermark)
    BY <2>2 DEF Fetched, From, Start
  <2>6. \A a \in indexed : a \notin From(Start) => a \in Accounted
    <3> SUFFICES ASSUME NEW a \in indexed, a \notin From(Start) PROVE a \in Accounted
      OBVIOUS
    <3>1. raised[a] < Second(watermark)
      BY <1>1, <2>4 DEF From, Start
    <3> QED BY <1>0, <2>4, <3>1 DEF BelowInv
  <2>7. \A a \in indexed : a \in Accounted' \union batch
    BY <2>2, <2>6
  <2>8. batch = {} => \A a \in indexed : a \in Accounted'
    BY <2>7
  <2>9. Second(watermark') = Second(watermark) /\ raised' = raised /\ indexed' = indexed
    BY <2>2
  <2> QED BY <2>3, <2>5, <2>7, <2>8, <2>9 DEF BatchInv
<1>9. CASE \E batch \in SUBSET indexed : \E failed \in SUBSET batch : Backfill(batch, failed)
  BY <1>2, <1>9 DEF Backfill
<1> QED BY <1>4, <1>5, <1>6, <1>7, <1>8, <1>9, <1>10 DEF PollerNext

\* What the watermark leaves behind is accounted for, and the watermark never
\* falls back below its second, for any number of alerts, any batch size and any
\* length of a second: PollerHolds, about OpenCTISyncService.
THEOREM PollerPassesNothingOver == PollerSpec => PollerHolds
<1>1. PollerInv /\ [PollerNext]_pollerVars => PollerInv'
  <2>1. PollerInv /\ UNCHANGED pollerVars => PollerInv'
    BY DEF PollerInv, PollerTypes, DatesInv, WatermarkInv, BelowInv, BatchInv, Accounted,
           Second, NewestSecond, pollerVars
  <2>2. PollerInv /\ PollerNext => PollerInv'
    BY PollerTypesKept, DatesKept, BelowKept, BatchKept DEF PollerInv
  <2> QED BY <2>1, <2>2
<1>2. PollerInv => PollerTypeOK /\ NothingIsPassedOver
  BY DEF PollerInv, PollerTypes, PollerTypeOK, BelowInv, Accounted, NothingIsPassedOver
<1> DEFINE Kept == watermark # Never /\ watermark' # Never
                      => Second(watermark') >= Second(watermark)
<1>3. PollerInv /\ [PollerNext]_pollerVars => [Kept]_pollerVars
  <2> SUFFICES ASSUME PollerInv, PollerNext, watermark # Never, watermark' # Never
               PROVE  Second(watermark') >= Second(watermark)
    OBVIOUS
  <2>1. PollerTypes /\ DatesInv /\ WatermarkInv /\ BatchInv
    BY DEF PollerInv
  <2>2. /\ watermark \in Nat /\ poll.began \in Nat
        /\ Second(watermark) \in Nat /\ Second(watermark) <= watermark
    BY <2>1, PollerAssumption, SecondIsFloor DEF PollerTypes, Never
  <2>3. CASE UNCHANGED watermark
    BY <2>2, <2>3
  <2>4. CASE \E failed \in SUBSET poll.batch : Push(failed)
    <3>1. PICK failed \in SUBSET poll.batch : Push(failed)
      BY <2>4
    <3>2. /\ poll.pc = "push" /\ watermark <= poll.began
          /\ watermark' = IF poll.batch = {} THEN poll.began ELSE NewestSecond(poll.batch) + 1
      BY <2>1, <3>1 DEF Push, AfterEmpty, AfterBatch, WatermarkInv
    <3>3. watermark' \in Nat /\ Second(watermark) <= watermark'
      <4>1. CASE poll.batch = {}
        BY <2>2, <3>2, <4>1
      <4>2. CASE poll.batch # {}
        <5>1. PICK a \in poll.batch : raised[a] = NewestSecond(poll.batch)
          BY <2>1, <4>2, NewestIsGreatest DEF PollerTypes
        <5>2. NewestSecond(poll.batch) \in Nat
          BY <2>1, <4>2, NewestIsGreatest, PollerAssumption DEF PollerTypes
        <5>3. NewestSecond(poll.batch) >= Second(watermark)
          BY <2>1, <3>2, <5>1 DEF BatchInv
        <5> QED BY <2>2, <3>2, <4>2, <5>2, <5>3
      <4> QED BY <4>1, <4>2
    <3>4. Second(watermark) <= Second(watermark') /\ Second(watermark') \in Nat
      BY <2>2, <3>3, SecondIsFloor
    <3> QED BY <2>2, <3>4
  <2>5. CASE StartCycle
    BY <2>3, <2>5 DEF StartCycle
  <2>6. CASE RestartPoller
    BY <2>6 DEF RestartPoller
  <2>7. Millisecond \/ FetchFails
        \/ (\E a \in IndexedAlerts : Index(a) \/ \E prompt \in BOOLEAN : Raise(a, prompt))
        \/ (\E batch \in SUBSET indexed :
               Fetch(batch) \/ \E failed \in SUBSET batch : Backfill(batch, failed))
           => UNCHANGED watermark
    BY DEF Millisecond, FetchFails, Index, Raise, Fetch, Backfill
  <2> QED BY <2>3, <2>4, <2>5, <2>6, <2>7 DEF PollerNext
<1> QED BY <1>1, <1>2, <1>3, PollerInitially, PTL
        DEF PollerSpec, PollerHolds, WatermarkKeepsItsSecond

-----------------------------------------------------------------------------
(* IncidentDesk.                                                             *)

\* What is true of the tickets.
TicketsInv ==
    /\ tickets \in [Given -> Ticket]
    /\ Cardinality(Given) \in 0 .. MaxTickets /\ IdsAreDense
    /\ LateIsMarked /\ ClosureLeavesTrace /\ RaisesStopAtHighest

\* What a request under way has read stays good enough: the id it means to give
\* is taken or the next one, and the ticket it means to change is there.
Sound(r, ids) ==
    /\ r.pc = "create" => r.id \in 1 .. Cardinality(ids) + 1 /\ r.id <= MaxTickets
    /\ r.pc = "change" => r.id \in ids /\ r.op \in Changes
RequestInv == desk \in [Desks -> DeskType] /\ \A d \in Desks : Sound(desk[d], Given)

IngestRow == [pc : {"idle", "alert", "commit", "over"}, left : Nat, made : Nat, skipped : Nat,
              candidate : Nat]

\* An ingest counts what it made, and never runs out of alerts it did not count.
IngestInv ==
    /\ ingest \in IngestRow
    /\ ingested \subseteq Given /\ IsFiniteSet(ingested) /\ Cardinality(ingested) = ingest.made
    /\ ingest.pc = "idle" => ingested = {}
    /\ ingest.pc = "commit" =>
          /\ ingest.candidate \in 1 .. Cardinality(Given) + 1
          /\ ingest.candidate <= MaxTickets /\ ingest.left > 0
    /\ ingest.pc # "idle" => ingest.made + ingest.skipped + ingest.left > 0
    /\ ingest.pc = "over" => ingest.left = 0

DeskInv == hour \in 0 .. MaxHours /\ TicketsInv /\ RequestInv /\ IngestInv

\* No ticket goes, none is created anew, no activity is forgotten.
Kept ==
    \A i \in Given :
        /\ i \in DOMAIN tickets'
        /\ tickets[i].trail \subseteq tickets'[i].trail
        /\ tickets'[i].created = tickets[i].created
        /\ tickets[i].breach => tickets'[i].breach

LEMMA NewTicketIsOne ==
    ASSUME NEW tier \in Tiers, hour \in 0 .. MaxHours
    PROVE  NewTicket(tier) \in Ticket /\ NewTicket(tier).priority >= 1
<1>1. tier \in {"low", "medium", "high", "critical"}
  BY DeskAssumption
<1>2. SlaHours(tier) \in 1 .. 24
  BY <1>1 DEF SlaHours
<1>3. PriorityFromRisk(tier) \in 1 .. 5
  BY <1>1 DEF PriorityFromRisk
<1>4. NoHour \in 0 .. NoHour
  BY DeskAssumption DEF NoHour
<1> HIDE DEF NoHour
<1> QED BY <1>2, <1>3, <1>4 DEF NewTicket, Ticket, Statuses

\* The first guess of an id is always right: it is one more than there are.
LEMMA CandidateIsNext ==
    ASSUME TicketsInv
    PROVE  Candidate = Cardinality(Given) + 1
<1> DEFINE n == Cardinality(Given)
           free == {k \in 1 .. MaxTickets + 1 : k > n /\ k \notin Given}
<1>1. n \in 0 .. MaxTickets /\ Given = 1 .. n /\ MaxTickets \in Nat
  BY DeskAssumption DEF TicketsInv, IdsAreDense
<1>2. Candidate = Min(free)
  BY DEF Candidate
<1> HIDE DEF n
<1>3. free \in SUBSET Nat /\ n + 1 \in free /\ \A k \in free : k >= n + 1
  BY <1>1
<1> HIDE DEF free
<1>4. Min(free) \in free /\ Min(free) <= n + 1
  BY <1>3, MinIsLeast
<1>5. Min(free) \in Nat /\ Min(free) >= n + 1 /\ n + 1 \in Nat
  BY <1>3, <1>4
<1> QED BY <1>2, <1>4, <1>5 DEF n

\* A ticket inserted under an id that was free is the next one.
LEMMA InsertAddsTheNext ==
    ASSUME DeskInv, NEW tier \in Tiers, NEW id \in 1 .. Cardinality(Given) + 1,
           id <= MaxTickets, AcceptsTicket(id), Inserted(id, tier)
    PROVE  /\ TicketsInv' /\ Kept
           /\ Given' = Given \union {id} /\ id \notin Given
           /\ Cardinality(Given') = Cardinality(Given) + 1
<1> DEFINE n == Cardinality(Given)
           new == NewTicket(tier)
<1>1. n \in 0 .. MaxTickets /\ Given = 1 .. n /\ MaxTickets \in Nat
  BY DeskAssumption DEF DeskInv, TicketsInv, IdsAreDense
<1>2. id \notin Given
  BY DEF AcceptsTicket
<1>3. id = n + 1 /\ n + 1 <= MaxTickets
  BY <1>1, <1>2
<1>4. /\ DOMAIN tickets' = Given \union {id}
      /\ tickets' = [i \in Given \union {id} |-> IF i = id THEN new ELSE tickets[i]]
  BY <1>2 DEF Inserted
<1>5. new \in Ticket
  BY NewTicketIsOne DEF DeskInv
<1> HIDE DEF n
<1>6. Given' = 1 .. n + 1
  BY <1>1, <1>3, <1>4 DEF Given
<1>7. Cardinality(Given') = n + 1
  BY <1>1, <1>6, FS_Interval
<1>8. tickets[id] = tickets[id] /\ tickets'[id] = new /\ \A i \in Given : tickets'[i] = tickets[i]
  BY <1>2, <1>4
<1>9. tickets' \in [Given' -> Ticket]
  <2> HIDE DEF new
  <2> QED BY <1>4, <1>5, <1>6 DEF DeskInv, TicketsInv, Given
<1>10. LateIsMarked'
  <2>1. new.resolved = NoHour
    BY DEF NewTicket
  <2> HIDE DEF new
  <2> QED BY <1>4, <1>8, <2>1 DEF DeskInv, TicketsInv, LateIsMarked, Given, NoHour
<1>11. ClosureLeavesTrace'
  <2>1. new.status = "open"
    BY DEF NewTicket
  <2> HIDE DEF new
  <2> QED BY <1>4, <1>8, <2>1 DEF DeskInv, TicketsInv, ClosureLeavesTrace, Given
<1>12. IdsAreDense' /\ Cardinality(Given') \in 0 .. MaxTickets
  BY <1>1, <1>3, <1>6, <1>7 DEF IdsAreDense
<1>15. RaisesStopAtHighest'
  <2>1. new.priority >= 1
    BY NewTicketIsOne DEF DeskInv
  <2> HIDE DEF new
  <2>2. \A i \in Given' : i = id \/ i \in Given
    BY <1>4 DEF Given
  <2>3. RaisesStopAtHighest
    BY DEF DeskInv, TicketsInv
  <2> SUFFICES ASSUME NEW i \in Given', tickets'[i].priority < 1
               PROVE  tickets'[i].priority \in PutPriorities
    BY DEF RaisesStopAtHighest
  <2>4. CASE i = id
    <3>1. new.priority \in Int
      BY <1>5 DEF Ticket
    <3> QED BY <1>8, <2>1, <2>4, <3>1
  <2>5. CASE i # id
    BY <1>8, <2>2, <2>3, <2>5 DEF RaisesStopAtHighest
  <2> QED BY <2>4, <2>5
<1>13. Kept
  BY <1>4, <1>8 DEF Kept
<1>14. Given' = Given \union {id}
  BY <1>4 DEF Given
<1> QED BY <1>2, <1>7, <1>9, <1>10, <1>11, <1>12, <1>13, <1>14, <1>15 DEF TicketsInv, n

\* A change writes what the invariant asks over any row it finds.
LEMMA ChangedIsSound ==
    ASSUME NEW t \in Ticket, NEW c \in DeskType, c.op \in Changes
    PROVE  LET new == Changed(t, c)
           IN  /\ new \in Ticket
               /\ new.created = t.created /\ t.trail \subseteq new.trail
               /\ t.breach => new.breach
               /\ new.status = t.status \/ (c.op \in new.trail /\ new.status = StatusAfter(c.op))
               /\ new.sla = t.sla
               /\ new.priority = t.priority \/ new.priority >= 1
               /\ \/ new.resolved = t.resolved
                  \/ new.resolved > new.created + new.sla => new.breach
<1> DEFINE new == Changed(t, c)
           status == IF StatusAfter(c.op) = c.seen THEN t.status ELSE StatusAfter(c.op)
           trail == Logged(t, c.op)
           resolved == IF c.op = "resolve" THEN c.at ELSE t.resolved
           breach == IF c.op = "resolve" THEN Marked(t, c.at) ELSE t.breach
           priority == IF c.op = "escalate" /\ Raised(c.priority) # c.priority
                       THEN Raised(c.priority) ELSE t.priority
<1>1. /\ t.status \in Statuses /\ t.trail \in SUBSET Changes /\ t.resolved \in 0 .. NoHour
      /\ t.breach \in BOOLEAN /\ t.priority \in Int /\ t.created \in 0 .. MaxHours
      /\ t.sla \in 1 .. 24
      /\ t = [t EXCEPT !.status = t.status]
  BY DEF Ticket
<1>2. c.at \in 0 .. MaxHours /\ c.priority \in Int
  BY DEF DeskType
<1>3. /\ status \in Statuses
      /\ status = t.status \/ status = StatusAfter(c.op)
  BY <1>1 DEF StatusAfter, Statuses, Changes
<1>4. trail \in SUBSET Changes /\ t.trail \subseteq trail /\ c.op \in trail
  BY <1>1 DEF Logged
<1>5. resolved \in 0 .. NoHour
  BY <1>1, <1>2, DeskAssumption DEF NoHour
<1>6. breach \in BOOLEAN
  <2>1. Marked(t, c.at) \in BOOLEAN
    BY DEF Marked
  <2> HIDE DEF Marked
  <2> QED BY <1>1, <2>1
<1>7. t.breach => breach
  BY DEF Marked
<1>8. priority \in Int /\ (priority = t.priority \/ priority >= 1)
  BY <1>1, <1>2 DEF Raised
<1>9. new = [[[[[t EXCEPT !.status = status] EXCEPT !.trail = trail]
                 EXCEPT !.resolved = resolved] EXCEPT !.breach = breach]
                 EXCEPT !.priority = priority]
  BY DEF Changed
<1>10. resolved = t.resolved \/ (resolved > t.created + t.sla => breach)
  BY DEF Marked, Late
<1> HIDE DEF status, trail, resolved, breach, priority, new
<1>11. /\ new \in Ticket /\ new.created = t.created /\ new.sla = t.sla /\ new.status = status
       /\ new.trail = trail /\ new.resolved = resolved /\ new.breach = breach
       /\ new.priority = priority
  BY <1>3, <1>4, <1>5, <1>6, <1>8, <1>9 DEF Ticket
<1>12. t.breach => new.breach
  BY <1>7, <1>11, Zenon
<1>13. new.resolved = t.resolved \/ (new.resolved > new.created + new.sla => new.breach)
  BY <1>10, <1>11, Zenon
<1>14. new.status = t.status \/ (c.op \in new.trail /\ new.status = StatusAfter(c.op))
  BY <1>3, <1>4, <1>11, Zenon
<1>15. new.priority = t.priority \/ new.priority >= 1
  BY <1>8, <1>11, Zenon
<1> QED BY <1>4, <1>11, <1>12, <1>13, <1>14, <1>15 DEF new


\* A write over a ticket that is there leaves the others and the ids alone.
LEMMA OverwriteKeeps ==
    ASSUME TicketsInv, NEW id \in Given, NEW new \in Ticket,
           tickets' = [tickets EXCEPT ![id] = new],
           new.created = tickets[id].created, tickets[id].trail \subseteq new.trail,
           tickets[id].breach => new.breach, new.sla = tickets[id].sla,
           \/ new.status \notin {"closed", "archived"} \ PutStatuses
           \/ new.trail \intersect {"close", "archive"} # {},
           new.resolved # NoHour /\ new.resolved > new.created + new.sla => new.breach,
           new.priority < 1 => new.priority \in PutPriorities
    PROVE  TicketsInv' /\ Kept /\ Given' = Given
<1>1. /\ Given' = Given /\ tickets' \in [Given -> Ticket]
      /\ \A i \in Given : tickets'[i] = IF i = id THEN new ELSE tickets[i]
  BY DEF TicketsInv, Given
<1>2. LateIsMarked'
  <2> SUFFICES ASSUME NEW i \in Given, tickets'[i].resolved # NoHour,
                      tickets'[i].resolved > tickets'[i].created + tickets'[i].sla
               PROVE  tickets'[i].breach
    BY <1>1 DEF LateIsMarked, NoHour
  <2>1. CASE i = id
    BY <1>1, <2>1
  <2>2. CASE i # id
    <3>1. tickets'[i] = tickets[i]
      BY <1>1, <2>2
    <3> QED BY <3>1 DEF TicketsInv, LateIsMarked
  <2> QED BY <2>1, <2>2
<1>3. ClosureLeavesTrace'
  BY <1>1 DEF TicketsInv, ClosureLeavesTrace
<1>4. Kept
  <2> SUFFICES ASSUME NEW i \in Given
               PROVE  /\ i \in DOMAIN tickets'
                      /\ tickets[i].trail \subseteq tickets'[i].trail
                      /\ tickets'[i].created = tickets[i].created
                      /\ tickets[i].breach => tickets'[i].breach
    BY DEF Kept
  <2>1. i \in DOMAIN tickets'
    BY <1>1
  <2>2. CASE i = id
    BY <1>1, <2>1, <2>2
  <2>3. CASE i # id
    BY <1>1, <2>1, <2>3
  <2> QED BY <2>2, <2>3
<1>5. RaisesStopAtHighest'
  BY <1>1 DEF TicketsInv, RaisesStopAtHighest
<1> QED BY <1>1, <1>2, <1>3, <1>4, <1>5 DEF TicketsInv, IdsAreDense

\* Requests and the ingest that do not move stand when tickets are added.
LEMMA OthersStand ==
    ASSUME DeskInv, Given \subseteq Given', Cardinality(Given') \in Nat,
           Cardinality(Given) <= Cardinality(Given')
    PROVE  /\ \A r \in DeskType : Sound(r, Given) => Sound(r, Given')
           /\ UNCHANGED <<ingest, ingested>> => IngestInv'
           /\ UNCHANGED desk => RequestInv'
<1>1. Cardinality(Given) \in Nat /\ MaxTickets \in Nat
  BY DeskAssumption DEF DeskInv, TicketsInv
<1>2. 1 .. Cardinality(Given) + 1 \subseteq 1 .. Cardinality(Given') + 1
  BY <1>1
<1>3. \A r \in DeskType : Sound(r, Given) => Sound(r, Given')
  BY <1>2 DEF Sound
<1>4. UNCHANGED desk => RequestInv'
  BY <1>3 DEF DeskInv, RequestInv
<1>5. ASSUME UNCHANGED <<ingest, ingested>> PROVE IngestInv'
  BY <1>2, <1>5 DEF DeskInv, IngestInv
<1> QED BY <1>3, <1>4, <1>5

LEMMA RequestsKept ==
    ASSUME DeskInv, NEW d \in Desks, NEW r \in DeskType, desk' = [desk EXCEPT ![d] = r],
           Sound(r, Given'), Given \subseteq Given', Cardinality(Given') \in Nat,
           Cardinality(Given) <= Cardinality(Given')
    PROVE  RequestInv'
<1>1. \A e \in Desks : desk'[e] = IF e = d THEN r ELSE desk[e]
  BY DEF DeskInv, RequestInv
<1>2. \A e \in Desks : Sound(desk'[e], Given') 
  <2> SUFFICES ASSUME NEW e \in Desks PROVE Sound(desk'[e], Given')
    OBVIOUS
  <2>1. CASE e = d
    BY <1>1, <2>1 DEF Sound
  <2>2. CASE e # d
    <3>1. desk'[e] = desk[e] /\ desk[e] \in DeskType /\ Sound(desk[e], Given)
      BY <1>1, <2>2 DEF DeskInv, RequestInv
    <3>2. Cardinality(Given) \in Nat /\ MaxTickets \in Nat
      BY DeskAssumption DEF DeskInv, TicketsInv
    <3> QED BY <3>1, <3>2 DEF Sound
  <2> QED BY <2>1, <2>2
<1> QED BY <1>2 DEF DeskInv, RequestInv

LEMMA IdleIsOne == Idle \in DeskType /\ Sound(Idle, Given')
<1>1. 0 \in 0 .. MaxTickets + 1 /\ 0 \in 0 .. MaxHours /\ 1 \in 1 .. 5
  BY DeskAssumption
<1> QED BY <1>1 DEF Idle, DeskType, Sound, Statuses

\* The steps of requests.
LEMMA RequestsKeep ==
    ASSUME DeskInv, NEW d \in Desks,
           \/ \E origin \in Origins : StartCreate(d, origin)
           \/ \E tier \in Tiers : CommitCreate(d, tier)
           \/ LoseCreate(d)
           \/ \E op \in Changes, id \in Given : StartChange(d, op, id)
           \/ CommitChange(d)
    PROVE  DeskInv' /\ Kept
<1>0. /\ hour \in 0 .. MaxHours /\ TicketsInv /\ RequestInv /\ IngestInv
      /\ desk \in [Desks -> DeskType] /\ desk[d] \in DeskType /\ Sound(desk[d], Given)
      /\ Cardinality(Given) \in Nat /\ MaxTickets \in Nat
  BY DeskAssumption DEF DeskInv, RequestInv, TicketsInv
<1>1. ASSUME UNCHANGED tickets
      PROVE  TicketsInv' /\ Kept /\ Given' = Given /\ Cardinality(Given') = Cardinality(Given)
  <2>1. Given' = Given
    BY <1>1 DEF Given
  <2>2. LateIsMarked' /\ ClosureLeavesTrace' /\ RaisesStopAtHighest'
    BY <1>0, <1>1, <2>1 DEF TicketsInv, LateIsMarked, ClosureLeavesTrace, RaisesStopAtHighest,
                            NoHour
  <2>3. Kept
    BY <1>1, <2>1 DEF Kept, Given
  <2> QED BY <1>0, <1>1, <2>1, <2>2, <2>3 DEF TicketsInv, IdsAreDense
<1>7. ASSUME NEW r \in DeskType, desk' = [desk EXCEPT ![d] = r], Sound(r, Given'),
             Given \subseteq Given', UNCHANGED <<ingest, ingested>>,
             \/ Cardinality(Given') = Cardinality(Given)
             \/ Cardinality(Given') = Cardinality(Given) + 1
      PROVE  RequestInv' /\ IngestInv'
  <2>1. Cardinality(Given') \in Nat /\ Cardinality(Given) <= Cardinality(Given')
    BY <1>0, <1>7
  <2>2. IngestInv'
    BY <1>7, <2>1, OthersStand
  <2> QED BY <1>7, <2>1, <2>2, RequestsKept
<1>2. ASSUME NEW origin \in Origins, StartCreate(d, origin)
      PROVE  DeskInv' /\ Kept
  <2> DEFINE r == [Idle EXCEPT !.pc = "create", !.op = origin, !.id = Candidate]
  <2>1. /\ desk[d] = Idle /\ Candidate <= MaxTickets
        /\ desk' = [desk EXCEPT ![d] = r] /\ UNCHANGED <<hour, tickets, ingest, ingested>>
    BY <1>2, <1>0 DEF StartCreate
  <2>2. Candidate = Cardinality(Given) + 1
    BY <1>0, CandidateIsNext
  <2>3. r.pc = "create" /\ r.id = Candidate
    BY DEF Idle
  <2>4. r \in DeskType
    <3>1. Candidate \in 0 .. MaxTickets + 1 /\ origin \in Changes \union Origins \union {"none"}
      BY <1>0, <1>2, <2>1, <2>2
    <3> HIDE DEF Candidate
    <3> QED BY <3>1, IdleIsOne DEF DeskType, Idle
  <2> HIDE DEF r
  <2>5. TicketsInv' /\ Kept /\ Given' = Given /\ Cardinality(Given') = Cardinality(Given)
    BY <1>1, <2>1
  <2>6. Sound(r, Given')
    BY <1>0, <2>1, <2>2, <2>3, <2>5 DEF Sound
  <2>7. RequestInv' /\ IngestInv'
    BY <1>7, <2>1, <2>4, <2>5, <2>6
  <2> QED BY <1>0, <2>1, <2>5, <2>7 DEF DeskInv
<1>3. ASSUME NEW tier \in Tiers, CommitCreate(d, tier)
      PROVE  DeskInv' /\ Kept
  <2>1. /\ desk[d].pc = "create" /\ AcceptsTicket(desk[d].id) /\ Inserted(desk[d].id, tier)
        /\ desk' = [desk EXCEPT ![d] = Idle] /\ UNCHANGED <<hour, ingest, ingested>>
    BY <1>3 DEF CommitCreate
  <2>2. desk[d].id \in 1 .. Cardinality(Given) + 1 /\ desk[d].id <= MaxTickets
    BY <1>0, <2>1 DEF Sound
  <2>3. /\ TicketsInv' /\ Kept /\ Given \subseteq Given'
        /\ Cardinality(Given') = Cardinality(Given) + 1
    BY <2>1, <2>2, InsertAddsTheNext
  <2>4. RequestInv' /\ IngestInv'
    BY <1>0, <1>7, <2>1, <2>3, IdleIsOne
  <2> QED BY <1>0, <2>1, <2>3, <2>4 DEF DeskInv
<1>4. ASSUME LoseCreate(d) PROVE DeskInv' /\ Kept
  <2>1. /\ desk' = [desk EXCEPT ![d] = Idle] /\ UNCHANGED <<hour, tickets, ingest, ingested>>
    BY <1>4 DEF LoseCreate
  <2>2. TicketsInv' /\ Kept /\ Given' = Given /\ Cardinality(Given') = Cardinality(Given)
    BY <1>1, <2>1
  <2>3. RequestInv' /\ IngestInv'
    BY <1>7, <2>1, <2>2, IdleIsOne
  <2> QED BY <1>0, <2>1, <2>2, <2>3 DEF DeskInv
<1>5. ASSUME NEW op \in Changes, NEW id \in Given, StartChange(d, op, id)
      PROVE  DeskInv' /\ Kept
  <2> DEFINE r == [pc |-> "change", op |-> op, id |-> id, at |-> hour,
                   priority |-> tickets[id].priority, seen |-> tickets[id].status]
  <2>1. desk' = [desk EXCEPT ![d] = r] /\ UNCHANGED <<hour, tickets, ingest, ingested>>
    BY <1>5 DEF StartChange
  <2>2. r.pc = "change" /\ r.id = id /\ r.op = op
    OBVIOUS
  <2>3. r \in DeskType
    <3>1. tickets[id] \in Ticket /\ id \in 0 .. MaxTickets + 1
      BY <1>0, DeskAssumption DEF TicketsInv, IdsAreDense
    <3>2. tickets[id].priority \in Int /\ tickets[id].status \in Statuses
      BY <3>1 DEF Ticket
    <3> QED BY <1>0, <3>1, <3>2 DEF DeskType
  <2> HIDE DEF r
  <2>4. TicketsInv' /\ Kept /\ Given' = Given /\ Cardinality(Given') = Cardinality(Given)
    BY <1>1, <2>1
  <2>5. Sound(r, Given')
    BY <1>5, <2>2, <2>4 DEF Sound
  <2>6. RequestInv' /\ IngestInv'
    BY <1>7, <2>1, <2>3, <2>4, <2>5
  <2> QED BY <1>0, <2>1, <2>4, <2>6 DEF DeskInv
<1>6. ASSUME CommitChange(d) PROVE DeskInv' /\ Kept
  <2> DEFINE id == desk[d].id
             new == Changed(tickets[id], desk[d])
  <2>1. /\ desk[d].pc = "change" /\ tickets' = [tickets EXCEPT ![id] = new]
        /\ desk' = [desk EXCEPT ![d] = Idle] /\ UNCHANGED <<hour, ingest, ingested>>
    BY <1>6 DEF CommitChange
  <2>2. id \in Given /\ desk[d].op \in Changes /\ tickets[id] \in Ticket
    BY <1>0, <2>1 DEF Sound, TicketsInv
  <2>3. /\ new \in Ticket
        /\ new.created = tickets[id].created /\ tickets[id].trail \subseteq new.trail
        /\ tickets[id].breach => new.breach
        /\ \/ new.status = tickets[id].status
           \/ (desk[d].op \in new.trail /\ new.status = StatusAfter(desk[d].op))
        /\ new.sla = tickets[id].sla
        /\ new.priority = tickets[id].priority \/ new.priority >= 1
        /\ new \in Ticket => new.priority \in Int
        /\ \/ new.resolved = tickets[id].resolved
           \/ new.resolved > new.created + new.sla => new.breach
    BY <1>0, <2>2, ChangedIsSound DEF Ticket
  <2> HIDE DEF new, id
  <2>4. \/ new.status \notin {"closed", "archived"} \ PutStatuses
        \/ new.trail \intersect {"close", "archive"} # {}
    <3>1. CASE new.status = tickets[id].status
      BY <1>0, <2>2, <2>3, <3>1 DEF TicketsInv, ClosureLeavesTrace
    <3>2. CASE desk[d].op \in new.trail /\ new.status = StatusAfter(desk[d].op)
      <4>1. CASE desk[d].op \in {"close", "archive"}
        BY <3>2, <4>1
      <4>2. CASE desk[d].op \in {"assign", "resolve", "escalate"}
        BY <3>2, <4>2 DEF StatusAfter
      <4> QED BY <2>2, <4>1, <4>2 DEF Changes
    <3> QED BY <2>3, <3>1, <3>2
  <2>5. new.resolved # NoHour /\ new.resolved > new.created + new.sla => new.breach
    <3>1. tickets[id].resolved # NoHour
             /\ tickets[id].resolved > tickets[id].created + tickets[id].sla
          => tickets[id].breach
      BY <1>0, <2>2 DEF TicketsInv, LateIsMarked
    <3> QED BY <2>3, <3>1
  <2>8. new.priority < 1 => new.priority \in PutPriorities
    <3>1. tickets[id].priority < 1 => tickets[id].priority \in PutPriorities
      BY <1>0, <2>2 DEF TicketsInv, RaisesStopAtHighest
    <3>2. new.priority \in Int
      BY <2>3
    <3> QED BY <2>3, <3>1, <3>2
  <2>6. TicketsInv' /\ Kept /\ Given' = Given
    BY <1>0, <2>1, <2>2, <2>3, <2>4, <2>5, <2>8, OverwriteKeeps
  <2>7. RequestInv' /\ IngestInv'
    BY <1>7, <2>1, <2>6, IdleIsOne
  <2> QED BY <1>0, <2>1, <2>6, <2>7 DEF DeskInv
<1> QED BY <1>2, <1>3, <1>4, <1>5, <1>6


\* The other steps: the ingest, PUT and the hours.
LEMMA IngestKeeps ==
    ASSUME DeskInv,
           \/ \E id \in Given :
                 \E status \in PutStatuses \union {tickets[id].status},
                    tier \in PutTiers \union {tickets[id].tier},
                    priority \in PutPriorities \union {tickets[id].priority} :
                      UpdateIncident(id, status, tier, priority)
           \/ \E count \in 1 .. MaxFetched : StartIngest(count)
           \/ IngestRead
           \/ \E tier \in Tiers : IngestCommit(tier)
           \/ EndIngest
           \/ PassHour
    PROVE  DeskInv' /\ Kept
<1>0. /\ hour \in 0 .. MaxHours /\ TicketsInv /\ RequestInv /\ IngestInv /\ MaxHours \in Nat
      /\ Cardinality(Given) \in Nat /\ MaxTickets \in Nat /\ ingest \in IngestRow
  BY DeskAssumption DEF DeskInv, TicketsInv, IngestInv
<1>1. ASSUME UNCHANGED <<hour, tickets, desk>>, IngestInv'
      PROVE  DeskInv' /\ Kept
  <2>1. Given' = Given
    BY <1>1 DEF Given
  <2>2. TicketsInv'
    BY <1>0, <1>1, <2>1
       DEF TicketsInv, IdsAreDense, LateIsMarked, ClosureLeavesTrace, RaisesStopAtHighest, NoHour
  <2>3. RequestInv' /\ Kept
    BY <1>0, <1>1, <2>1 DEF RequestInv, Sound, Kept, Given
  <2> QED BY <1>0, <1>1, <2>2, <2>3 DEF DeskInv
<1>2. ASSUME NEW id \in Given, NEW status \in PutStatuses \union {tickets[id].status},
             NEW tier \in PutTiers \union {tickets[id].tier},
             NEW priority \in PutPriorities \union {tickets[id].priority},
             UpdateIncident(id, status, tier, priority)
      PROVE  DeskInv' /\ Kept
  <2> DEFINE t == tickets[id]
             new == [t EXCEPT !.status = status, !.tier = tier, !.priority = priority]
  <2>1. tickets' = [tickets EXCEPT ![id] = new] /\ UNCHANGED <<hour, desk, ingest, ingested>>
    BY <1>2 DEF UpdateIncident
  <2>2. t \in Ticket
    BY <1>0 DEF TicketsInv
  <2>3. /\ status \in Statuses /\ tier \in Tiers \union PutTiers /\ priority \in Int
        /\ status = t.status \/ status \in PutStatuses
        /\ priority < 1 => priority \in PutPriorities
    <3>1. t.priority < 1 => t.priority \in PutPriorities
      BY <1>0 DEF TicketsInv, RaisesStopAtHighest, t
    <3> QED BY <2>2, <3>1, DeskAssumption DEF Ticket, t
  <2>4. /\ t.resolved # NoHour /\ t.resolved > t.created + t.sla => t.breach
    BY <1>0 DEF TicketsInv, LateIsMarked
  <2> HIDE DEF t
  <2>5. /\ new \in Ticket /\ new.status = status /\ new.created = t.created
        /\ new.trail = t.trail /\ new.breach = t.breach /\ new.sla = t.sla
        /\ new.resolved = t.resolved /\ new.priority = priority
    BY <2>2, <2>3 DEF Ticket
  <2> HIDE DEF new
  <2>6. new.resolved # NoHour /\ new.resolved > new.created + new.sla => new.breach
    BY <2>4, <2>5, Zenon
  <2>7. t.breach => new.breach
    BY <2>5, Zenon
  <2>8. TicketsInv' /\ Kept /\ Given' = Given
    <3>1. \/ new.status \notin {"closed", "archived"} \ PutStatuses
          \/ new.trail \intersect {"close", "archive"} # {}
      <4>1. t.status \in {"closed", "archived"} \ PutStatuses =>
              t.trail \intersect {"close", "archive"} # {}
        BY <1>0 DEF TicketsInv, ClosureLeavesTrace, t
      <4> QED BY <2>3, <2>5, <4>1
    <3>2. new.priority < 1 => new.priority \in PutPriorities
      BY <2>3, <2>5
    <3> QED BY <1>0, <2>1, <2>5, <2>6, <2>7, <3>1, <3>2, OverwriteKeeps DEF t
  <2>9. RequestInv' /\ IngestInv'
    BY <1>0, <2>1, <2>8, OthersStand
  <2> QED BY <1>0, <2>1, <2>8, <2>9 DEF DeskInv
<1>3. ASSUME NEW count \in 1 .. MaxFetched, StartIngest(count)
      PROVE  DeskInv' /\ Kept
  <2>1. /\ ingest.pc = "idle" /\ ingest' = [NoIngest EXCEPT !.pc = "alert", !.left = count]
        /\ UNCHANGED <<hour, tickets, desk, ingested>>
    BY <1>3 DEF StartIngest
  <2>2. /\ ingest' \in IngestRow /\ ingest'.pc = "alert" /\ ingest'.left = count
        /\ ingest'.made = 0 /\ ingest'.skipped = 0
    <3>1. count \in Nat
      BY DeskAssumption
    <3>2. NoIngest \in IngestRow /\ NoIngest.made = 0 /\ NoIngest.skipped = 0
      BY DEF NoIngest, IngestRow
    <3> HIDE DEF NoIngest
    <3> QED BY <2>1, <3>1, <3>2 DEF IngestRow
  <2>3. ingested' = {}
    BY <1>0, <2>1 DEF IngestInv
  <2>4. IsFiniteSet({}) /\ Cardinality({}) = 0
    BY FS_EmptySet
  <2>5. IngestInv'
    BY <2>2, <2>3, <2>4, DeskAssumption DEF IngestInv
  <2> QED BY <1>1, <2>1, <2>5
<1>4. ASSUME IngestRead PROVE DeskInv' /\ Kept
  <2>1. /\ ingest.pc = "alert" /\ ingest.left > 0 /\ Candidate <= MaxTickets
        /\ ingest' = [ingest EXCEPT !.pc = "commit", !.candidate = Candidate]
        /\ UNCHANGED <<hour, tickets, desk, ingested>>
    BY <1>4 DEF IngestRead
  <2>2. Candidate = Cardinality(Given) + 1 /\ Candidate \in Nat
    BY <1>0, CandidateIsNext
  <2>3. /\ ingest' \in IngestRow /\ ingest'.pc = "commit" /\ ingest'.left = ingest.left
        /\ ingest'.made = ingest.made /\ ingest'.skipped = ingest.skipped
        /\ ingest'.candidate = Candidate
    <3> HIDE DEF Candidate
    <3> QED BY <1>0, <2>1, <2>2 DEF IngestRow
  <2>4. Given' = Given
    BY <2>1 DEF Given
  <2>5. ingest.made + ingest.skipped + ingest.left > 0
    BY <1>0, <2>1 DEF IngestInv
  <2>6. IngestInv'
    BY <1>0, <2>1, <2>2, <2>3, <2>4, <2>5 DEF IngestInv
  <2> QED BY <1>1, <2>1, <2>6
<1>5. ASSUME NEW tier \in Tiers, IngestCommit(tier)
      PROVE  DeskInv' /\ Kept
  <2>1. /\ ingest.candidate \in 1 .. Cardinality(Given) + 1
        /\ ingest.candidate <= MaxTickets /\ ingest.left > 0 /\ ingest.pc = "commit"
        /\ ingest.made \in Nat /\ ingest.skipped \in Nat /\ ingest.left \in Nat
        /\ ingested \subseteq Given /\ IsFiniteSet(ingested)
        /\ Cardinality(ingested) = ingest.made
    BY <1>0, <1>5 DEF IngestInv, IngestRow, IngestCommit
  <2>2. CASE ~AcceptsTicket(ingest.candidate)
    <3>1. /\ ingest' = [ingest EXCEPT !.pc = "alert", !.left = @ - 1, !.skipped = @ + 1]
          /\ UNCHANGED <<hour, tickets, desk, ingested>>
      BY <1>5, <2>2 DEF IngestCommit, Losing
    <3>2. /\ ingest' \in IngestRow /\ ingest'.pc = "alert" /\ ingest'.left = ingest.left - 1
          /\ ingest'.made = ingest.made /\ ingest'.skipped = ingest.skipped + 1
      <4> DEFINE left == ingest.left - 1
                 skipped == ingest.skipped + 1
      <4>1. left \in Nat /\ skipped \in Nat
        BY <2>1
      <4>2. ingest' = [ingest EXCEPT !.pc = "alert", !.left = left, !.skipped = skipped]
        BY <3>1
      <4> HIDE DEF left, skipped
      <4>3. /\ ingest' \in IngestRow /\ ingest'.pc = "alert" /\ ingest'.left = left
            /\ ingest'.made = ingest.made /\ ingest'.skipped = skipped
        BY <1>0, <4>1, <4>2 DEF IngestRow
      <4> QED BY <4>3 DEF left, skipped
    <3>3. Given' = Given
      BY <3>1 DEF Given
    <3>4. IngestInv'
      BY <2>1, <3>1, <3>2, <3>3 DEF IngestInv
    <3> QED BY <1>1, <3>1, <3>4
  <2>3. CASE AcceptsTicket(ingest.candidate)
    <3>1. /\ Inserted(ingest.candidate, tier)
          /\ ingested' = ingested \union {ingest.candidate}
          /\ ingest' = [ingest EXCEPT !.pc = "alert", !.left = @ - 1, !.made = @ + 1]
          /\ UNCHANGED <<hour, desk>>
      BY <1>5, <2>3 DEF IngestCommit
    <3>2. /\ TicketsInv' /\ Kept
          /\ Given' = Given \union {ingest.candidate} /\ ingest.candidate \notin Given
          /\ Cardinality(Given') = Cardinality(Given) + 1
      BY <2>1, <2>3, <3>1, InsertAddsTheNext
    <3>3. /\ ingest' \in IngestRow /\ ingest'.pc = "alert" /\ ingest'.left = ingest.left - 1
          /\ ingest'.made = ingest.made + 1 /\ ingest'.skipped = ingest.skipped
      <4> DEFINE left == ingest.left - 1
                 made == ingest.made + 1
      <4>1. left \in Nat /\ made \in Nat
        BY <2>1
      <4>2. ingest' = [ingest EXCEPT !.pc = "alert", !.left = left, !.made = made]
        BY <3>1
      <4> HIDE DEF left, made
      <4>3. /\ ingest' \in IngestRow /\ ingest'.pc = "alert" /\ ingest'.left = left
            /\ ingest'.made = made /\ ingest'.skipped = ingest.skipped
        BY <1>0, <4>1, <4>2 DEF IngestRow
      <4> QED BY <4>3 DEF left, made
    <3>4. /\ IsFiniteSet(ingested') /\ Cardinality(ingested') = ingest.made + 1
          /\ ingested' \subseteq Given'
      <4> DEFINE id == ingest.candidate
      <4>1. id \notin ingested
        BY <2>1, <3>2
      <4>2. ingested' = ingested \union {id} /\ ingested' \subseteq Given'
        BY <2>1, <3>1, <3>2
      <4> HIDE DEF id
      <4> QED BY <2>1, <4>1, <4>2, FS_AddElement
    <3>5. IngestInv'
      BY <2>1, <3>3, <3>4 DEF IngestInv
    <3>6. RequestInv'
      BY <1>0, <3>1, <3>2, OthersStand
    <3> QED BY <1>0, <3>1, <3>2, <3>5, <3>6 DEF DeskInv
  <2> QED BY <2>2, <2>3
<1>6. ASSUME EndIngest PROVE DeskInv' /\ Kept
  <2>1. /\ ingest.pc = "alert" /\ ingest.left = 0 /\ ingest' = [ingest EXCEPT !.pc = "over"]
        /\ UNCHANGED <<hour, tickets, desk, ingested>>
    BY <1>6 DEF EndIngest
  <2>2. /\ ingest' \in IngestRow /\ ingest'.pc = "over" /\ ingest'.left = ingest.left
        /\ ingest'.made = ingest.made /\ ingest'.skipped = ingest.skipped
    BY <1>0, <2>1 DEF IngestRow
  <2>3. Given' = Given
    BY <2>1 DEF Given
  <2>4. IngestInv'
    BY <1>0, <2>1, <2>2, <2>3 DEF IngestInv
  <2> QED BY <1>1, <2>1, <2>4
<1>7. ASSUME PassHour PROVE DeskInv' /\ Kept
  <2>1. hour' \in 0 .. MaxHours /\ UNCHANGED <<tickets, desk, ingest, ingested>>
    BY <1>0, <1>7 DEF PassHour
  <2>2. Given' = Given
    BY <2>1 DEF Given
  <2>3. TicketsInv' /\ Kept
    BY <1>0, <2>1, <2>2
       DEF TicketsInv, IdsAreDense, LateIsMarked, ClosureLeavesTrace, RaisesStopAtHighest, NoHour, Kept, Given
  <2>4. RequestInv' /\ IngestInv'
    BY <1>0, <2>1, <2>2, OthersStand
  <2> QED BY <2>1, <2>3, <2>4 DEF DeskInv
<1> QED BY <1>2, <1>3, <1>4, <1>5, <1>6, <1>7

\* Tickets under requests that race, for any number of requests and tickets: the
\* ids stay dense and replace nothing, an ingest accounts for its alerts, a late
\* resolution is marked and stays so, a closure leaves its trace, escalations stop at
\* the highest priority: TicketsHold,
\* about IncidentService and generate_incident_id.
THEOREM TicketsStaySound == DeskSpec => TicketsHold
<1>1. DeskInit => DeskInv
  <2> SUFFICES ASSUME DeskInit PROVE DeskInv
    OBVIOUS
  <2>1. /\ hour = 0 /\ tickets = << >> /\ desk = [d \in Desks |-> Idle]
        /\ ingest = NoIngest /\ ingested = {}
    BY DEF DeskInit
  <2>2. Given = {} /\ IsFiniteSet({}) /\ Cardinality({}) = 0
    BY <2>1, FS_EmptySet DEF Given
  <2>3. TicketsInv
    <3>1. tickets \in [Given -> Ticket]
      BY <2>1, <2>2
    <3>2. Given = 1 .. Cardinality(Given)
      BY <2>2
    <3> QED BY <2>2, <3>1, <3>2, DeskAssumption
            DEF TicketsInv, IdsAreDense, LateIsMarked, ClosureLeavesTrace, RaisesStopAtHighest
  <2>4. RequestInv
    <3>1. Idle \in DeskType /\ Idle.pc = "idle"
      BY IdleIsOne DEF Idle
    <3> HIDE DEF Idle
    <3> QED BY <2>1, <3>1 DEF RequestInv, Sound
  <2>5. IngestInv
    <3>1. NoIngest \in IngestRow /\ NoIngest.pc = "idle" /\ NoIngest.made = 0
      BY DEF NoIngest, IngestRow
    <3> HIDE DEF NoIngest
    <3> QED BY <2>1, <2>2, <3>1 DEF IngestInv
  <2> QED BY <2>1, <2>3, <2>4, <2>5, DeskAssumption DEF DeskInv
<1>2. DeskInv /\ [DeskNext]_deskVars => DeskInv' /\ Kept
  <2>1. ASSUME DeskInv, UNCHANGED deskVars PROVE DeskInv' /\ Kept
    <3>1. UNCHANGED <<hour, tickets, desk, ingest, ingested>> /\ Given' = Given
      BY <2>1 DEF deskVars, Given
    <3>2. TicketsInv' /\ Kept
      BY <2>1, <3>1 DEF DeskInv, TicketsInv, IdsAreDense, LateIsMarked, ClosureLeavesTrace,
                        RaisesStopAtHighest, NoHour, Kept, Given
    <3>3. RequestInv' /\ IngestInv'
      BY <2>1, <3>1 DEF DeskInv, RequestInv, IngestInv, Sound
    <3> QED BY <2>1, <3>1, <3>2, <3>3 DEF DeskInv
  <2>2. ASSUME DeskInv, DeskNext PROVE DeskInv' /\ Kept
    BY <2>2, RequestsKeep, IngestKeeps DEF DeskNext
  <2> QED BY <2>1, <2>2
<1>3. DeskInv => /\ DeskTypeOK /\ IdsAreDense /\ IngestAccounts /\ LateIsMarked
                 /\ ClosureLeavesTrace /\ RaisesStopAtHighest
  <2> SUFFICES ASSUME DeskInv
               PROVE  /\ DeskTypeOK /\ IdsAreDense /\ IngestAccounts /\ LateIsMarked
                      /\ ClosureLeavesTrace /\ RaisesStopAtHighest
    OBVIOUS
  <2>1. TicketsInv /\ RequestInv /\ IngestInv /\ hour \in 0 .. MaxHours
    BY DEF DeskInv
  <2>2. Given \subseteq Ids
    BY <2>1, DeskAssumption DEF TicketsInv, IdsAreDense, Ids
  <2>3. DeskTypeOK
    BY <2>1, <2>2 DEF DeskTypeOK, TicketsInv, RequestInv, IngestInv, IngestRow
  <2>4. IngestAccounts
    BY <2>1 DEF IngestAccounts, IngestInv, IngestRow
  <2> QED BY <2>1, <2>3, <2>4 DEF TicketsInv
<1> DEFINE NotReplaced ==
        \A i \in Given :
            /\ i \in DOMAIN tickets'
            /\ tickets[i].trail \subseteq tickets'[i].trail
            /\ tickets'[i].created = tickets[i].created
           Breaches == \A i \in Given : tickets[i].breach => tickets'[i].breach
<1>4. DeskInv /\ [DeskNext]_deskVars => [NotReplaced]_deskVars /\ [Breaches]_deskVars
  BY <1>2 DEF Kept
<1> QED BY <1>1, <1>2, <1>3, <1>4, PTL
        DEF DeskSpec, TicketsHold, TicketsAreNeverReplaced, BreachStays
-----------------------------------------------------------------------------
(* ResponsePlaybook.                                                         *)

Ways == {"completed", "failed"}
ExecRow == [pc : {"new", "step", "sleep", "over"}, plan : Plans \union {NoPlan},
            step : 0 .. MaxSteps, endpoint : 0 .. EndpointCount,
            status : {"pending", "running", "success", "failed"}]

Aborting(plan, r, s) == r[s] = "failed" /\ plan[s].onFailure = "abort"

\* Where an execution x is and what became of its steps, r, go together: while it
\* goes on no step aborted it, and when it is over its last one may have.
Course(x, r) ==
    /\ x.pc \in {"step", "sleep"} =>
          /\ x.plan \in Plans /\ x.step \in 1 .. Len(x.plan) /\ x.endpoint >= 1
          /\ Len(r) = x.step - 1
          /\ \A s \in 1 .. Len(r) : ~Aborting(x.plan, r, s)
    /\ x.pc = "over" =>
          /\ \A s \in 1 .. Len(r) : Aborting(x.plan, r, s) => s = Len(r)
          /\ x.status = "failed" <=> \E s \in 1 .. Len(r) : Aborting(x.plan, r, s)
    /\ x.pc = "new" => r = << >>

\* What the endpoints before the one that is asked next did, they answered to.
Tries(x, did, answered) ==
    x.pc = "step" /\ x.endpoint > 1 =>
        did \subseteq answered /\ did \subseteq 1 .. x.endpoint - 1
Repeats(did, answered) == \A p, q \in did : p < q => p \in answered

ResponseTypes ==
    /\ exec \in [Executions -> ExecRow]
    /\ results \in [Executions -> Seq(Ways)]
    /\ carried \in [Executions -> SUBSET Endpoints]
    /\ didAnswer \in [Executions -> SUBSET Endpoints]
    /\ holder \in Executions \union {Nobody} /\ session \in {"ok", "broken"}

Orderly(e) ==
    /\ Course(exec[e], results[e])
    /\ Tries(exec[e], carried[e], didAnswer[e])
    /\ Repeats(carried[e], didAnswer[e])

ResponseInv == ResponseTypes /\ \A e \in Executions : Orderly(e)

\* What a step of e does to the others, and to an incident it creates.
Only(e) ==
    \A f \in Executions \ {e} :
        /\ exec'[f] = exec[f] /\ results'[f] = results[f]
        /\ carried'[f] = carried[f] /\ didAnswer'[f] = didAnswer[f]
FailsWhenBroken(e) ==
    session = "broken" =>
        /\ session' = "broken"
        /\ At(e, "create_incident") /\ results'[e] # results[e] =>
               results'[e][exec[e].step] = "failed"

LEMMA PlanLengths ==
    MaxSteps \in Nat /\ \A plan \in Plans : Len(plan) \in 1 .. MaxSteps
<1>1. Len(Ransomware) = 7
  BY DEF Ransomware
<1>2. Len(BruteForce) = 4
  BY DEF BruteForce
<1> QED BY <1>1, <1>2 DEF Plans, MaxSteps

\* Executions that do not move stay orderly.
LEMMA OthersStayOrderly ==
    ASSUME ResponseInv, NEW e \in Executions, Only(e), ResponseTypes', Orderly(e)'
    PROVE  ResponseInv'
<1>1. ASSUME NEW f \in Executions, f # e PROVE Orderly(f)'
  <2>1. /\ exec'[f] = exec[f] /\ results'[f] = results[f]
        /\ carried'[f] = carried[f] /\ didAnswer'[f] = didAnswer[f]
    BY <1>1 DEF Only
  <2> QED BY <2>1 DEF ResponseInv, Orderly
<1> QED BY <1>1 DEF ResponseInv

\* The end of a step, whatever its way.
LEMMA EndingIsOrderly ==
    ASSUME ResponseInv, NEW e \in Executions, exec[e].pc \in {"step", "sleep"},
           NEW how \in Ways, Ended(e, how),
           session' \in {"ok", "broken"},
           carried' \in [Executions -> SUBSET Endpoints],
           didAnswer' \in [Executions -> SUBSET Endpoints],
           \A f \in Executions \ {e} : carried'[f] = carried[f] /\ didAnswer'[f] = didAnswer[f],
           Repeats(carried'[e], didAnswer'[e])
    PROVE  ResponseInv' /\ Only(e) /\ results'[e][exec[e].step] = how
<1> DEFINE x == exec[e]
           r == results[e]
           aborted == how = "failed" /\ Aborts(e)
           last == aborted \/ x.step = Len(x.plan)
           status == Final(e, how, aborted)
           next == IF last THEN [x EXCEPT !.pc = "over", !.status = status]
                   ELSE [x EXCEPT !.pc = "step", !.step = @ + 1, !.endpoint = 1]
<1>1. /\ results' = [results EXCEPT ![e] = Append(r, how)]
      /\ exec' = [exec EXCEPT ![e] = next]
      /\ holder' = IF last THEN Nobody ELSE e
  BY Zenon DEF Ended
<1>2. /\ x \in ExecRow /\ r \in Seq(Ways) /\ Course(x, r)
      /\ x.plan \in Plans /\ x.step \in 1 .. Len(x.plan) /\ x.endpoint >= 1
      /\ Len(r) = x.step - 1 /\ \A s \in 1 .. Len(r) : ~Aborting(x.plan, r, s)
  BY DEF ResponseInv, ResponseTypes, Orderly, Course
<1>3. aborted <=> how = "failed" /\ x.plan[x.step].onFailure = "abort"
  BY DEF Aborts, Current
<1>4. status = IF aborted THEN "failed" ELSE "success"
  BY DEF Final
<1> HIDE DEF x, r, aborted, status
<1>5. /\ Append(r, how) \in Seq(Ways) /\ Len(Append(r, how)) = x.step
      /\ Append(r, how)[x.step] = how
      /\ \A s \in 1 .. x.step - 1 : Append(r, how)[s] = r[s]
  <2>1. x.step \in Nat /\ Len(r) \in Nat /\ Len(r) + 1 = x.step
    BY <1>2, PlanLengths, LenProperties
  <2> QED BY <1>2, <2>1, AppendProperties
<1> DEFINE a == Append(r, how)
<1>6. \A s \in 1 .. x.step : Aborting(x.plan, a, s) <=> s = x.step /\ aborted
  <2> SUFFICES ASSUME NEW s \in 1 .. x.step
               PROVE  Aborting(x.plan, a, s) <=> s = x.step /\ aborted
    OBVIOUS
  <2> HIDE DEF a
  <2>1. CASE s = x.step
    BY <1>3, <1>5, <2>1 DEF Aborting, a
  <2>2. CASE s # x.step
    <3>1. s \in 1 .. x.step - 1 /\ s \in 1 .. Len(r)
      BY <1>2, <2>2, PlanLengths
    <3>2. a[s] = r[s] /\ ~Aborting(x.plan, r, s)
      BY <1>2, <1>5, <3>1 DEF a
    <3> QED BY <2>2, <3>2 DEF Aborting
  <2> QED BY <2>1, <2>2
<1> HIDE DEF a
<1>7. next \in ExecRow /\ Course(next, a) /\ (next.pc = "step" => next.endpoint = 1)
  <2>1. CASE last
    <3>1. /\ next \in ExecRow /\ next.pc = "over" /\ next.status = status
          /\ next.plan = x.plan
      BY <1>2, <1>4, <2>1 DEF ExecRow
    <3>2. x.step \in 1 .. x.step
      BY <1>2, PlanLengths
    <3>3. status = "failed" <=> aborted
      BY <1>4
    <3> HIDE DEF next, last
    <3>4. Len(a) = x.step
      BY <1>5 DEF a
    <3>5. \A s \in 1 .. Len(a) : Aborting(x.plan, a, s) => s = Len(a)
      BY <1>6, <3>4
    <3>6. next.status = "failed" <=> \E s \in 1 .. Len(a) : Aborting(x.plan, a, s)
      BY <1>6, <3>1, <3>2, <3>3, <3>4
    <3> QED BY <3>1, <3>5, <3>6 DEF Course
  <2>2. CASE ~last
    <3> DEFINE step == x.step + 1
    <3>1. step \in 1 .. Len(x.plan) /\ step \in 0 .. MaxSteps /\ step - 1 = x.step
      BY SMTT(30), <1>2, <2>2, PlanLengths
    <3>2. next = [x EXCEPT !.pc = "step", !.step = step, !.endpoint = 1]
      BY <2>2
    <3>3. 1 \in 0 .. EndpointCount
      BY ResponseAssumption
    <3> HIDE DEF step, next
    <3>4. /\ next \in ExecRow /\ next.pc = "step" /\ next.plan = x.plan /\ next.step = step
          /\ next.endpoint = 1
      BY <1>2, <3>1, <3>2, <3>3 DEF ExecRow
    <3>5. \A s \in 1 .. Len(a) : ~Aborting(x.plan, a, s)
      BY <1>5, <1>6, <2>2 DEF a
    <3>6. Len(a) = step - 1
      BY <1>5, <3>1 DEF a
    <3> QED BY <1>2, <3>1, <3>4, <3>5, <3>6 DEF Course
  <2> QED BY <2>1, <2>2
<1> HIDE DEF next, last
<1>8. exec'[e] = next /\ results'[e] = a
  BY <1>1 DEF ResponseInv, ResponseTypes, a
<1>9. Only(e)
  BY <1>1 DEF ResponseInv, ResponseTypes, Only
<1>10. ResponseTypes'
  <2>1. results' \in [Executions -> Seq(Ways)]
    BY <1>1, <1>5 DEF ResponseInv, ResponseTypes
  <2>2. exec' \in [Executions -> ExecRow]
    BY <1>1, <1>7 DEF ResponseInv, ResponseTypes
  <2> QED BY <1>1, <2>1, <2>2 DEF ResponseTypes
<1>11. Orderly(e)'
  <2>1. Tries(exec'[e], carried'[e], didAnswer'[e])
    BY <1>7, <1>8 DEF Tries
  <2> QED BY <1>7, <1>8, <2>1 DEF Orderly
<1>12. results'[e][exec[e].step] = how
  BY <1>5, <1>8 DEF a, x
<1> QED BY <1>9, <1>10, <1>11, <1>12, OthersStayOrderly


\* A call of a tool: what is done before an endpoint is asked was answered.
LEMMA CallIsOrderly ==
    ASSUME ResponseInv, NEW e \in Executions, At(e, "tool"),
           NEW does \in BOOLEAN, NEW answers \in BOOLEAN, CallTool(e, does, answers)
    PROVE  /\ carried' \in [Executions -> SUBSET Endpoints]
           /\ didAnswer' \in [Executions -> SUBSET Endpoints]
           /\ \A f \in Executions \ {e} :
                 carried'[f] = carried[f] /\ didAnswer'[f] = didAnswer[f]
           /\ Repeats(carried'[e], didAnswer'[e])
           /\ carried'[e] \subseteq 1 .. exec[e].endpoint
           /\ does => (answers => carried'[e] \subseteq didAnswer'[e])
           /\ ~does => carried'[e] \subseteq didAnswer'[e]
<1> DEFINE point == exec[e].endpoint
           did == SoFar(e, carried)
           answered == SoFar(e, didAnswer)
<1>1. /\ exec[e] \in ExecRow /\ exec[e].pc = "step"
      /\ carried[e] \in SUBSET Endpoints /\ didAnswer[e] \in SUBSET Endpoints
      /\ Course(exec[e], results[e]) /\ Tries(exec[e], carried[e], didAnswer[e])
  BY DEF ResponseInv, ResponseTypes, Orderly, At
<1>2. point \in 1 .. EndpointCount /\ EndpointCount \in Nat
  BY <1>1, ResponseAssumption DEF ExecRow, Course
<1>3. /\ did \subseteq answered /\ did \subseteq 1 .. point - 1
      /\ did \subseteq Endpoints /\ answered \subseteq Endpoints
  <2>1. CASE point = 1
    BY <2>1 DEF SoFar
  <2>2. CASE point # 1
    <3>1. point > 1
      BY <1>2, <2>2
    <3> QED BY <1>1, <2>2, <3>1 DEF SoFar, Tries
  <2> QED BY <2>1, <2>2
<1>4. /\ carried' = [carried EXCEPT ![e] = did \union (IF does THEN {point} ELSE {})]
      /\ didAnswer' = [didAnswer EXCEPT ![e] = answered \union (IF answers THEN {point} ELSE {})]
  BY DEF CallTool, Mark
<1> HIDE DEF point, did, answered
<1>5. point \in Endpoints
  BY <1>2 DEF Endpoints
<1>6. /\ carried'[e] = did \union (IF does THEN {point} ELSE {})
      /\ didAnswer'[e] = answered \union (IF answers THEN {point} ELSE {})
      /\ carried' \in [Executions -> SUBSET Endpoints]
      /\ didAnswer' \in [Executions -> SUBSET Endpoints]
      /\ \A f \in Executions \ {e} : carried'[f] = carried[f] /\ didAnswer'[f] = didAnswer[f]
  <2> DEFINE newDid == did \union (IF does THEN {point} ELSE {})
             newAnswered == answered \union (IF answers THEN {point} ELSE {})
  <2>1. newDid \in SUBSET Endpoints /\ newAnswered \in SUBSET Endpoints
    BY <1>3, <1>5
  <2>2. /\ carried' = [carried EXCEPT ![e] = newDid]
        /\ didAnswer' = [didAnswer EXCEPT ![e] = newAnswered]
    BY <1>4
  <2>3. /\ carried \in [Executions -> SUBSET Endpoints]
        /\ didAnswer \in [Executions -> SUBSET Endpoints]
    BY DEF ResponseInv, ResponseTypes
  <2> HIDE DEF newDid, newAnswered
  <2>4. /\ carried'[e] = newDid /\ didAnswer'[e] = newAnswered
        /\ carried' \in [Executions -> SUBSET Endpoints]
        /\ didAnswer' \in [Executions -> SUBSET Endpoints]
        /\ \A f \in Executions \ {e} : carried'[f] = carried[f] /\ didAnswer'[f] = didAnswer[f]
    BY <2>1, <2>2, <2>3
  <2> QED BY <2>4, Zenon DEF newDid, newAnswered
<1>7. carried'[e] \subseteq 1 .. point
  <2>1. carried'[e] \subseteq did \union {point}
    BY <1>6
  <2>2. 1 .. point - 1 \subseteq 1 .. point /\ point \in 1 .. point
    BY <1>2
  <2> QED BY <1>3, <2>1, <2>2
<1>8. Repeats(carried'[e], didAnswer'[e])
  <2> SUFFICES ASSUME NEW p \in carried'[e], NEW q \in carried'[e], p < q
               PROVE  p \in didAnswer'[e]
    BY DEF Repeats
  <2>1. p \in 1 .. point /\ q \in 1 .. point /\ p # point
    BY <1>2, <1>7
  <2>2. p \in did
    BY <1>6, <2>1
  <2> QED BY <1>3, <1>6, <2>2
<1>9. /\ does => (answers => carried'[e] \subseteq didAnswer'[e])
      /\ ~does => carried'[e] \subseteq didAnswer'[e]
  BY <1>3, <1>6
<1> QED BY <1>6, <1>7, <1>8, <1>9 DEF point

LEMMA StepIsOrderly ==
    ASSUME ResponseInv, NEW e \in Executions, ResponseStep(e)
    PROVE  ResponseInv' /\ Only(e) /\ FailsWhenBroken(e)
<1>0. /\ ResponseTypes /\ Orderly(e) /\ exec[e] \in ExecRow /\ results[e] \in Seq(Ways)
      /\ carried[e] \in SUBSET Endpoints /\ didAnswer[e] \in SUBSET Endpoints
  BY DEF ResponseInv, ResponseTypes
<1>1. ASSUME NEW plan \in Plans, Execute(e, plan)
      PROVE  ResponseInv' /\ Only(e) /\ FailsWhenBroken(e)
  <2> DEFINE x == [pc |-> "step", plan |-> plan, step |-> 1, endpoint |-> 1,
                   status |-> "running"]
  <2>1. /\ exec[e].pc = "new" /\ exec' = [exec EXCEPT ![e] = x] /\ holder' = e
        /\ UNCHANGED <<results, carried, didAnswer, session>>
    BY <1>1 DEF Execute
  <2>2. /\ x \in ExecRow /\ x.pc = "step" /\ x.plan = plan /\ x.step = 1 /\ x.endpoint = 1
    <3>1. 1 \in 0 .. MaxSteps /\ 1 \in 0 .. EndpointCount
      BY PlanLengths, ResponseAssumption
    <3> QED BY <3>1 DEF ExecRow
  <2> HIDE DEF x
  <2>3. results[e] = << >> /\ Len(<< >>) = 0
    BY <1>0, <2>1, EmptySeq DEF Orderly, Course
  <2>4. Course(x, results[e]) /\ Tries(x, carried[e], didAnswer[e])
    BY <2>2, <2>3, PlanLengths DEF Course, Tries
  <2>5. exec'[e] = x /\ \A f \in Executions \ {e} : exec'[f] = exec[f]
    BY <1>0, <2>1 DEF ResponseTypes
  <2>6. ResponseTypes'
    BY <1>0, <2>1, <2>2 DEF ResponseTypes
  <2>7. Orderly(e)' /\ Only(e)
    BY <1>0, <2>1, <2>4, <2>5 DEF Orderly, Only
  <2>8. FailsWhenBroken(e)
    BY <2>1 DEF FailsWhenBroken
  <2> QED BY <2>6, <2>7, <2>8, OthersStayOrderly
<1>2. ASSUME NEW answer \in {"refused", "http_error", "tool_error", "lost"},
             NEW does \in BOOLEAN, CallFails(e, answer, does)
      PROVE  ResponseInv' /\ Only(e) /\ FailsWhenBroken(e)
  <2> DEFINE answers == answer \in {"http_error", "tool_error"}
  <2>1. /\ At(e, "tool") /\ (answer = "refused" => ~does) /\ CallTool(e, does, answers)
        /\ UNCHANGED session
        /\ IF MovesOn(answer) THEN TryNext(e) ELSE Ended(e, "failed")
    BY <1>2 DEF CallFails
  <2>2. answers \in BOOLEAN
    OBVIOUS
  <2>3. MovesOn(answer) /\ does => answers
    BY <2>1 DEF MovesOn
  <2> HIDE DEF answers
  <2>4. /\ carried' \in [Executions -> SUBSET Endpoints]
        /\ didAnswer' \in [Executions -> SUBSET Endpoints]
        /\ \A f \in Executions \ {e} : carried'[f] = carried[f] /\ didAnswer'[f] = didAnswer[f]
        /\ Repeats(carried'[e], didAnswer'[e])
        /\ carried'[e] \subseteq 1 .. exec[e].endpoint
        /\ MovesOn(answer) => carried'[e] \subseteq didAnswer'[e]
    BY <2>1, <2>2, <2>3, CallIsOrderly
  <2>5. FailsWhenBroken(e)
    BY <2>1 DEF FailsWhenBroken, At
  <2>6. CASE Ended(e, "failed")
    <3>1. exec[e].pc \in {"step", "sleep"} /\ session' \in {"ok", "broken"} /\ "failed" \in Ways
      BY <1>0, <2>1 DEF At, ResponseTypes, Ways
    <3> QED BY <2>4, <2>5, <2>6, <3>1, EndingIsOrderly
  <2>7. CASE MovesOn(answer) /\ HasNext(e) /\ TryNext(e)
    <3> DEFINE x == [exec[e] EXCEPT !.endpoint = @ + 1]
    <3>1. /\ exec' = [exec EXCEPT ![e] = x] /\ UNCHANGED <<results, holder>>
          /\ exec[e].endpoint < EndpointCount
      BY <2>7 DEF TryNext, HasNext
    <3> DEFINE point == exec[e].endpoint + 1
    <3>2. point \in 0 .. EndpointCount /\ point - 1 = exec[e].endpoint /\ point >= 1
      BY <1>0, <3>1, ResponseAssumption DEF ExecRow
    <3>3. x = [exec[e] EXCEPT !.endpoint = point]
      OBVIOUS
    <3> HIDE DEF point, x
    <3>4. /\ x \in ExecRow /\ x.endpoint = point /\ x.pc = exec[e].pc /\ x.plan = exec[e].plan
          /\ x.step = exec[e].step /\ x.status = exec[e].status
      BY <1>0, <3>2, <3>3 DEF ExecRow
    <3>5. Course(x, results[e])
      BY <1>0, <3>2, <3>4 DEF Orderly, Course
    <3>6. Tries(x, carried'[e], didAnswer'[e])
      BY <2>4, <2>7, <3>2, <3>4 DEF Tries
    <3>7. exec'[e] = x /\ \A f \in Executions \ {e} : exec'[f] = exec[f]
      BY <1>0, <3>1 DEF ResponseTypes
    <3>8. ResponseTypes'
      BY <1>0, <2>1, <2>4, <3>1, <3>4 DEF ResponseTypes
    <3>9. Orderly(e)' /\ Only(e)
      BY <2>4, <3>1, <3>5, <3>6, <3>7 DEF Orderly, Only
    <3> QED BY <2>5, <3>8, <3>9, OthersStayOrderly
  <2> QED BY <2>1, <2>6, <2>7 DEF TryNext
<1>3. ASSUME NEW does \in BOOLEAN, CallReturns(e, does)
      PROVE  ResponseInv' /\ Only(e) /\ FailsWhenBroken(e)
  <2>1. /\ At(e, "tool") /\ CallTool(e, does, TRUE) /\ Ended(e, "completed")
        /\ UNCHANGED session
    BY <1>3 DEF CallReturns
  <2>2. /\ carried' \in [Executions -> SUBSET Endpoints]
        /\ didAnswer' \in [Executions -> SUBSET Endpoints]
        /\ \A f \in Executions \ {e} : carried'[f] = carried[f] /\ didAnswer'[f] = didAnswer[f]
        /\ Repeats(carried'[e], didAnswer'[e])
    BY <2>1, CallIsOrderly
  <2>3. /\ exec[e].pc \in {"step", "sleep"} /\ session' \in {"ok", "broken"}
        /\ "completed" \in Ways
    BY <1>0, <2>1 DEF At, ResponseTypes, Ways
  <2>4. FailsWhenBroken(e)
    BY <2>1 DEF FailsWhenBroken, At
  <2> QED BY <2>1, <2>2, <2>3, <2>4, EndingIsOrderly
<1>4. ASSUME Log(e) \/ EndWait(e)
      PROVE  ResponseInv' /\ Only(e) /\ FailsWhenBroken(e)
  <2>1. /\ Ended(e, "completed") /\ exec[e].pc \in {"step", "sleep"}
        /\ ~At(e, "create_incident") /\ UNCHANGED <<carried, didAnswer, session>>
    BY <1>4 DEF Log, EndWait, At
  <2>2. session' \in {"ok", "broken"} /\ "completed" \in Ways
    BY <1>0, <2>1 DEF ResponseTypes, Ways
  <2>3. /\ carried' \in [Executions -> SUBSET Endpoints]
        /\ didAnswer' \in [Executions -> SUBSET Endpoints]
        /\ \A f \in Executions \ {e} : carried'[f] = carried[f] /\ didAnswer'[f] = didAnswer[f]
        /\ Repeats(carried'[e], didAnswer'[e])
    BY <1>0, <2>1 DEF ResponseTypes, Orderly
  <2>4. FailsWhenBroken(e)
    BY <2>1 DEF FailsWhenBroken
  <2> QED BY <2>1, <2>2, <2>3, <2>4, EndingIsOrderly
<1>5. ASSUME StartWait(e)
      PROVE  ResponseInv' /\ Only(e) /\ FailsWhenBroken(e)
  <2> DEFINE x == [exec[e] EXCEPT !.pc = "sleep"]
  <2>1. /\ exec[e].pc = "step" /\ ~At(e, "create_incident")
        /\ exec' = [exec EXCEPT ![e] = x] /\ holder' = Nobody
        /\ UNCHANGED <<results, carried, didAnswer, session>>
    BY <1>5 DEF StartWait, At
  <2>2. /\ x \in ExecRow /\ x.pc = "sleep" /\ x.plan = exec[e].plan /\ x.step = exec[e].step
        /\ x.endpoint = exec[e].endpoint
    BY <1>0 DEF ExecRow
  <2> HIDE DEF x
  <2>3. Course(x, results[e]) /\ Tries(x, carried[e], didAnswer[e])
    BY <1>0, <2>1, <2>2 DEF Orderly, Course, Tries
  <2>4. exec'[e] = x /\ \A f \in Executions \ {e} : exec'[f] = exec[f]
    BY <1>0, <2>1 DEF ResponseTypes
  <2>5. ResponseTypes'
    BY <1>0, <2>1, <2>2 DEF ResponseTypes
  <2>6. Orderly(e)' /\ Only(e)
    BY <1>0, <2>1, <2>3, <2>4 DEF Orderly, Only
  <2>7. FailsWhenBroken(e)
    BY <2>1 DEF FailsWhenBroken
  <2> QED BY <2>5, <2>6, <2>7, OthersStayOrderly
<1>6. ASSUME NEW taken \in BOOLEAN, CreateIncident(e, taken)
      PROVE  ResponseInv' /\ Only(e) /\ FailsWhenBroken(e)
  <2> DEFINE how == IF Created(taken) THEN "completed" ELSE "failed"
  <2>1. /\ At(e, "create_incident") /\ Ended(e, how)
        /\ session' = IF taken THEN "broken" ELSE session
        /\ UNCHANGED <<carried, didAnswer>>
    BY <1>6 DEF CreateIncident, AfterFlush
  <2>2. /\ how \in Ways /\ session' \in {"ok", "broken"} /\ exec[e].pc \in {"step", "sleep"}
        /\ session = "broken" => how = "failed" /\ session' = "broken"
    BY <1>0, <2>1 DEF ResponseTypes, Ways, At, Created
  <2> HIDE DEF how
  <2>3. /\ carried' \in [Executions -> SUBSET Endpoints]
        /\ didAnswer' \in [Executions -> SUBSET Endpoints]
        /\ \A f \in Executions \ {e} : carried'[f] = carried[f] /\ didAnswer'[f] = didAnswer[f]
        /\ Repeats(carried'[e], didAnswer'[e])
    BY <1>0, <2>1 DEF ResponseTypes, Orderly
  <2>4. ResponseInv' /\ Only(e) /\ results'[e][exec[e].step] = how
    BY <2>1, <2>2, <2>3, EndingIsOrderly
  <2> QED BY <2>2, <2>4 DEF FailsWhenBroken
<1> QED BY <1>1, <1>2, <1>3, <1>4, <1>5, <1>6 DEF ResponseStep

\* A response is repeated only on an error that came back, stops where it must,
\* says so, and creates nothing through a broken session, for any number of
\* executions and endpoints: ResponseHolds, about PlaybookEngine and execute_tool.
THEOREM ResponsesStayOrderly == ResponseSpec => ResponseHolds
<1>1. ResponseInit => ResponseInv
  <2> SUFFICES ASSUME ResponseInit PROVE ResponseInv
    OBVIOUS
  <2>1. /\ exec = [e \in Executions |-> Waiting] /\ results = [e \in Executions |-> << >>]
        /\ carried = [e \in Executions |-> {}] /\ didAnswer = [e \in Executions |-> {}]
        /\ holder = Nobody /\ session = "ok"
    BY DEF ResponseInit
  <2>2. Waiting \in ExecRow /\ Waiting.pc = "new"
    BY PlanLengths, ResponseAssumption DEF Waiting, ExecRow
  <2>3. << >> \in Seq(Ways)
    BY EmptySeq
  <2> HIDE DEF Waiting
  <2>4. ResponseTypes
    BY <2>1, <2>2, <2>3 DEF ResponseTypes
  <2>5. \A e \in Executions : Orderly(e)
    BY <2>1, <2>2 DEF Orderly, Course, Tries, Repeats
  <2> QED BY <2>4, <2>5 DEF ResponseInv
<1>2. ResponseInv /\ [ResponseNext]_responseVars => ResponseInv'
  <2>1. ASSUME ResponseInv, UNCHANGED responseVars PROVE ResponseInv'
    BY <2>1 DEF ResponseInv, ResponseTypes, Orderly, responseVars
  <2> QED BY <2>1, StepIsOrderly DEF ResponseNext
<1>3. ResponseInv => /\ ResponseTypeOK /\ RepeatsFollowAnAnswer /\ NothingFollowsAnAbort
                     /\ StatusTellsAbort
  <2> SUFFICES ASSUME ResponseInv
               PROVE  /\ ResponseTypeOK /\ RepeatsFollowAnAnswer /\ NothingFollowsAnAbort
                      /\ StatusTellsAbort
    OBVIOUS
  <2>1. \A e \in Executions : DOMAIN results[e] = 1 .. Len(results[e])
    BY LenProperties DEF ResponseInv, ResponseTypes
  <2>2. ResponseTypeOK
    BY DEF ResponseInv, ResponseTypes, ResponseTypeOK, ExecRow, Ways
  <2>3. RepeatsFollowAnAnswer
    BY DEF ResponseInv, Orderly, Repeats, RepeatsFollowAnAnswer
  <2>4. ASSUME NEW e \in Executions
        PROVE  /\ exec[e].pc \in {"new", "step", "sleep", "over"}
               /\ Course(exec[e], results[e]) /\ (results[e] = << >> => Len(results[e]) = 0)
    BY EmptySeq DEF ResponseInv, ResponseTypes, Orderly, ExecRow
  <2>5. NothingFollowsAnAbort
    BY <2>1, <2>4 DEF NothingFollowsAnAbort, Course, Aborting
  <2>6. StatusTellsAbort
    BY <2>1, <2>4 DEF StatusTellsAbort, Course, Aborting
  <2> QED BY <2>2, <2>3, <2>5, <2>6
<1> DEFINE CreatesNothing ==
        session = "broken" =>
            /\ session' = "broken"
            /\ \A e \in Executions : At(e, "create_incident") /\ results'[e] # results[e] =>
                   results'[e][exec[e].step] = "failed"
<1>4. ResponseInv /\ [ResponseNext]_responseVars => [CreatesNothing]_responseVars
  <2> SUFFICES ASSUME ResponseInv, NEW e \in Executions, ResponseStep(e)
               PROVE  CreatesNothing
    BY DEF ResponseNext
  <2> QED BY StepIsOrderly DEF Only, FailsWhenBroken
<1> QED BY <1>1, <1>2, <1>3, <1>4, PTL
        DEF ResponseSpec, ResponseHolds, BrokenSessionCreatesNothing

-----------------------------------------------------------------------------
(* Playbooks.                                                                *)

\* Evidence that says less: no count is larger and no sign is added.
Weaker(e, w) ==
    /\ e.count <= w.count /\ e.other <= w.other
    /\ (e.mark => w.mark) /\ (e.shell => w.shell) /\ (e.bad => w.bad)

LEMMA CountsRaise ==
    ASSUME NEW m \in Nat, NEW n \in Nat, m <= n, NEW th \in [medium : Nat, high : Nat]
    PROVE  /\ ByCount(m, th) \in Tier /\ ByCount(n, th) \in Tier
           /\ ByCount(m, th) <= ByCount(n, th)
<1>1. th.medium \in Nat /\ th.high \in Nat
  OBVIOUS
<1> QED BY <1>1 DEF ByCount, Tier, Low, Medium, High, Critical

LEMMA SignsRaise ==
    ASSUME NEW a \in BOOLEAN, NEW b \in BOOLEAN, a => b, NEW t \in Tier
    PROVE  If(a, t) \in Tier /\ If(b, t) \in Tier /\ If(a, t) <= If(b, t)
BY DEF If, Tier, Low, Critical

\* The highest of some tiers rises with each of them.
LEMMA HighestRises ==
    ASSUME NEW S \in SUBSET Tier, S # {}, NEW T \in SUBSET Tier, T # {},
           \A x \in S : \E y \in T : x <= y
    PROVE  Max(S) \in Tier /\ Max(T) \in Tier /\ Max(S) <= Max(T)
<1>1. S \in SUBSET (0 .. 3) /\ T \in SUBSET (0 .. 3) /\ Tier = 0 .. 3
  BY DEF Tier, Low, Critical
<1>2. Max(S) \in S /\ Max(T) \in T /\ \A y \in T : Max(T) >= y
  BY <1>1, MaxIsGreatest
<1>3. PICK y \in T : Max(S) <= y
  BY <1>2
<1>4. Max(T) >= y
  BY <1>2
<1>5. Max(S) \in 0 .. 3 /\ Max(T) \in 0 .. 3 /\ y \in 0 .. 3
  BY <1>1, <1>2
<1> QED BY <1>1, <1>3, <1>4, <1>5

\* Weaker evidence is classified no higher.
LEMMA WeakerIsNoHigher ==
    ASSUME NEW p \in Playbook, NEW e \in Evidence, NEW w \in Evidence, Weaker(e, w),
           NEW th \in [medium : Nat, high : Nat]
    PROVE  /\ Classify(p, e, th) \in Tier /\ Classify(p, w, th) \in Tier
           /\ Classify(p, e, th) <= Classify(p, w, th)
<1>1. /\ e.count \in Nat /\ w.count \in Nat /\ e.other \in Nat /\ w.other \in Nat
      /\ e.mark \in BOOLEAN /\ w.mark \in BOOLEAN /\ e.shell \in BOOLEAN
      /\ w.shell \in BOOLEAN /\ e.bad \in BOOLEAN /\ w.bad \in BOOLEAN
      /\ th.medium \in Nat /\ th.high \in Nat
  BY PlaybooksAssumption DEF Evidence
<1>2. /\ e.count <= w.count /\ e.other <= w.other
      /\ (e.mark => w.mark) /\ (e.shell => w.shell) /\ (e.bad => w.bad)
  BY DEF Weaker
<1>3. Medium \in Tier /\ High \in Tier /\ Critical \in Tier
  BY DEF Tier, Low, Medium, High, Critical
<1>4. /\ ByCount(e.count, th) \in Tier /\ ByCount(w.count, th) \in Tier
      /\ ByCount(e.count, th) <= ByCount(w.count, th)
  BY <1>1, <1>2, CountsRaise
<1> DEFINE Rises(a, b) == a \in Tier /\ b \in Tier /\ a <= b
<1>5. /\ Rises(If(e.mark, Medium), If(w.mark, Medium))
      /\ Rises(If(e.mark, High), If(w.mark, High))
      /\ Rises(If(e.shell, Critical), If(w.shell, Critical))
      /\ Rises(If(e.bad, Critical), If(w.bad, Critical))
  BY <1>1, <1>2, <1>3, SignsRaise
<1>6. /\ Rises(If(e.count >= th.medium /\ e.other > 0, Critical),
               If(w.count >= th.medium /\ w.other > 0, Critical))
      /\ Rises(If(e.other > 0, Critical), If(w.other > 0, Critical))
      /\ Rises(If(e.other >= th.high, Medium), If(w.other >= th.high, Medium))
      /\ Rises(If(e.other >= 1 /\ e.count >= th.medium, High),
               If(w.other >= 1 /\ w.count >= th.medium, High))
  BY <1>1, <1>2, <1>3 DEF If, Tier, Low, Critical
<1>7. ASSUME NEW a, NEW b, NEW c, NEW x, NEW y, NEW z,
             Rises(a, x), Rises(b, y), Rises(c, z)
      PROVE  Rises(Max({a, b, c}), Max({x, y, z}))
  <2> DEFINE S == {a, b, c}
             T == {x, y, z}
  <2>1. S \in SUBSET Tier /\ S # {} /\ T \in SUBSET Tier /\ T # {}
    BY <1>7
  <2>2. \A u \in S : \E v \in T : u <= v
    BY <1>7
  <2> QED BY <2>1, <2>2, HighestRises
<1>8. ASSUME NEW a, NEW b, NEW c, NEW d, NEW x, NEW y, NEW z, NEW u,
             Rises(a, x), Rises(b, y), Rises(c, z), Rises(d, u)
      PROVE  Rises(Max({a, b, c, d}), Max({x, y, z, u}))
  <2> DEFINE S == {a, b, c, d}
             T == {x, y, z, u}
  <2>1. S \in SUBSET Tier /\ S # {} /\ T \in SUBSET Tier /\ T # {}
    BY <1>8
  <2>2. \A v \in S : \E t \in T : v <= t
    BY <1>8
  <2> QED BY <2>1, <2>2, HighestRises
<1>9. Rises(ByCount(e.count, th), ByCount(w.count, th))
  BY <1>4
<1>10. CASE p = "brute_force"
  <2>1. Rises(ClassifyBruteForce(e, th), ClassifyBruteForce(w, th))
    <3> HIDE DEF Rises
    <3> QED BY <1>5, <1>6, <1>7, <1>9 DEF ClassifyBruteForce
  <2> QED BY <1>10, <2>1 DEF Classify
<1>11. CASE p = "beaconing"
  <2>1. Rises(ClassifyBeaconing(e, th), ClassifyBeaconing(w, th))
    <3> HIDE DEF Rises
    <3> QED BY <1>5, <1>6, <1>7, <1>9 DEF ClassifyBeaconing
  <2> QED BY <1>11, <2>1 DEF Classify
<1>12. CASE p = "malware"
  <2>1. Rises(ClassifyMalware(e, th), ClassifyMalware(w, th))
    <3> HIDE DEF Rises
    <3> QED BY <1>5, <1>6, <1>7, <1>9 DEF ClassifyMalware
  <2> QED BY <1>12, <2>1 DEF Classify
<1>13. CASE p = "privilege_escalation"
  <2>1. Rises(ClassifyPrivilegeEscalation(e, th), ClassifyPrivilegeEscalation(w, th))
    <3> HIDE DEF Rises
    <3> QED BY <1>5, <1>6, <1>8, <1>9 DEF ClassifyPrivilegeEscalation
  <2> QED BY <1>13, <2>1 DEF Classify
<1>14. CASE p = "exfiltration"
  <2>1. Rises(ClassifyExfiltration(e, th), ClassifyExfiltration(w, th))
    <3> HIDE DEF Rises
    <3> QED BY <1>5, <1>6, <1>7, <1>9 DEF ClassifyExfiltration
  <2> QED BY <1>14, <2>1 DEF Classify
<1> QED BY <1>10, <1>11, <1>12, <1>13, <1>14 DEF Playbook

\* Queries that are not answered, or whose answer is not read, take evidence away.
LEMMA SilenceTakesAway ==
    ASSUME NEW p \in Playbook, NEW truth \in Evidence, NEW hint \in BOOLEAN,
           NEW readable \in SUBSET Queries
    PROVE  /\ Collect(p, truth, hint, readable) \in Evidence
           /\ Collect(p, truth, hint, Queries) \in Evidence
           /\ Weaker(Collect(p, truth, hint, readable), Collect(p, truth, hint, Queries))
<1>1. /\ truth.count \in 0 .. MaxHits /\ truth.other \in 0 .. MaxHits
      /\ truth.mark \in BOOLEAN /\ truth.shell \in BOOLEAN /\ truth.bad \in BOOLEAN
      /\ MaxHits \in Nat /\ 0 \in 0 .. MaxHits
  BY PlaybooksAssumption DEF Evidence
<1>2. "first" \in Queries /\ "second" \in Queries /\ "cti" \in Queries
  BY DEF Queries
<1>3. ASSUME NEW R \in SUBSET Queries, NEW n \in 0 .. MaxHits, NEW q
      PROVE  Hits(n, q, R) \in 0 .. MaxHits
  BY <1>1 DEF Hits
<1>4. ASSUME NEW n \in 0 .. MaxHits, NEW q \in Queries
      PROVE  Hits(n, q, readable) <= Hits(n, q, Queries)
  BY <1>1 DEF Hits
<1>5. ASSUME NEW R \in SUBSET Queries
      PROVE  /\ KnownBad(truth.bad, hint, R) \in BOOLEAN
             /\ (truth.mark /\ "first" \in R) \in BOOLEAN
             /\ (truth.mark /\ "second" \in R) \in BOOLEAN
             /\ (truth.shell /\ "second" \in R) \in BOOLEAN
  BY <1>1 DEF KnownBad
<1>6. KnownBad(truth.bad, hint, readable) => KnownBad(truth.bad, hint, Queries)
  BY <1>2 DEF KnownBad
<1> DEFINE Row(count, other, mark, shell, bad) ==
               [count |-> count, other |-> other, mark |-> mark, shell |-> shell, bad |-> bad]
<1>7. ASSUME NEW c \in 0 .. MaxHits, NEW o \in 0 .. MaxHits, NEW m \in BOOLEAN,
             NEW h \in BOOLEAN, NEW b \in BOOLEAN
      PROVE  Row(c, o, m, h, b) \in Evidence
  BY DEF Evidence
<1>8. ASSUME NEW c, NEW o, NEW m, NEW h, NEW b, NEW d, NEW u, NEW n, NEW i, NEW k,
             c <= d, o <= u, m => n, h => i, b => k
      PROVE  Weaker(Row(c, o, m, h, b), Row(d, u, n, i, k))
  BY <1>8 DEF Weaker
<1>9. FALSE \in BOOLEAN /\ 0 <= 0
  OBVIOUS
<1> DEFINE count(R) == Hits(truth.count, "first", R)
           other(R) == Hits(truth.other, "second", R)
           bad(R) == KnownBad(truth.bad, hint, R)
           onFirst(R) == truth.mark /\ "first" \in R
           onSecond(R) == truth.mark /\ "second" \in R
           shell(R) == truth.shell /\ "second" \in R
<1>10. ASSUME NEW R \in SUBSET Queries
       PROVE  /\ count(R) \in 0 .. MaxHits /\ other(R) \in 0 .. MaxHits
              /\ bad(R) \in BOOLEAN /\ onFirst(R) \in BOOLEAN /\ onSecond(R) \in BOOLEAN
              /\ shell(R) \in BOOLEAN
  BY <1>1, <1>3, <1>5
<1>11. /\ count(readable) <= count(Queries) /\ other(readable) <= other(Queries)
       /\ (bad(readable) => bad(Queries)) /\ (onFirst(readable) => onFirst(Queries))
       /\ (onSecond(readable) => onSecond(Queries)) /\ (shell(readable) => shell(Queries))
  BY <1>1, <1>2, <1>4, <1>6
<1>12. \A R :
         /\ Collect("brute_force", truth, hint, R)
              = Row(count(R), other(R), onFirst(R), FALSE, FALSE)
         /\ Collect("beaconing", truth, hint, R) = Row(count(R), 0, onFirst(R), FALSE, bad(R))
         /\ Collect("malware", truth, hint, R) = Row(count(R), other(R), FALSE, FALSE, bad(R))
         /\ Collect("privilege_escalation", truth, hint, R)
              = Row(count(R), other(R), onSecond(R), shell(R), FALSE)
         /\ Collect("exfiltration", truth, hint, R)
              = Row(count(R), other(R), FALSE, FALSE, bad(R))
  BY ZenonT(60) DEF Collect, CollectBruteForce, CollectBeaconing, CollectMalware,
         CollectPrivilegeEscalation, CollectExfiltration, Nothing
<1> HIDE DEF Row, count, other, bad, onFirst, onSecond, shell
<1>13. Queries \in SUBSET Queries
  OBVIOUS
<1>14. ASSUME NEW R \in SUBSET Queries
       PROVE  /\ Row(count(R), other(R), onFirst(R), FALSE, FALSE) \in Evidence
              /\ Row(count(R), 0, onFirst(R), FALSE, bad(R)) \in Evidence
              /\ Row(count(R), other(R), FALSE, FALSE, bad(R)) \in Evidence
              /\ Row(count(R), other(R), onSecond(R), shell(R), FALSE) \in Evidence
  BY <1>1, <1>7, <1>9, <1>10
<1>15. /\ Weaker(Row(count(readable), other(readable), onFirst(readable), FALSE, FALSE),
                 Row(count(Queries), other(Queries), onFirst(Queries), FALSE, FALSE))
       /\ Weaker(Row(count(readable), 0, onFirst(readable), FALSE, bad(readable)),
                 Row(count(Queries), 0, onFirst(Queries), FALSE, bad(Queries)))
       /\ Weaker(Row(count(readable), other(readable), FALSE, FALSE, bad(readable)),
                 Row(count(Queries), other(Queries), FALSE, FALSE, bad(Queries)))
       /\ Weaker(Row(count(readable), other(readable), onSecond(readable), shell(readable), FALSE),
                 Row(count(Queries), other(Queries), onSecond(Queries), shell(Queries), FALSE))
  BY <1>8, <1>9, <1>11
<1> HIDE DEF Weaker
<1>16. CASE p = "brute_force"
  BY <1>12, <1>13, <1>14, <1>15, <1>16
<1>17. CASE p = "beaconing"
  BY <1>12, <1>13, <1>14, <1>15, <1>17
<1>18. CASE p = "malware"
  BY <1>12, <1>13, <1>14, <1>15, <1>18
<1>19. CASE p = "privilege_escalation"
  BY <1>12, <1>13, <1>14, <1>15, <1>19
<1>20. CASE p = "exfiltration"
  BY <1>12, <1>13, <1>14, <1>15, <1>20
<1> QED BY <1>16, <1>17, <1>18, <1>19, <1>20 DEF Playbook

LEMMA FindingsAreSound ==
    ASSUME NEW s \in Servers, NEW f \in Findings[s]
    PROVE  /\ f.tier \in Tier /\ f.whole \in Tier /\ f.tier <= f.whole
           /\ f.tool \in {"block_ip", "isolate_host", "quarantine_file"}
<1>1. PICK p \in Playbook, hint \in BOOLEAN, th \in Thresholds, truth \in Evidence,
           answered \in SUBSET Queries :
           f = Found(p, hint, th, truth, Readable(answered, s))
  BY DEF Findings
<1>2. Readable(answered, s) \in SUBSET Queries /\ th \in [medium : Nat, high : Nat]
  BY PlaybooksAssumption DEF Readable
<1>3. f.tool = Recommend(p, hint)
  BY <1>1 DEF Found
<1>4. Recommend(p, hint) \in {"block_ip", "isolate_host", "quarantine_file"}
  BY DEF Recommend, Playbook
<1> DEFINE some == Collect(p, truth, hint, Readable(answered, s))
           all == Collect(p, truth, hint, Queries)
<1>5. some \in Evidence /\ all \in Evidence /\ Weaker(some, all)
  BY <1>2, SilenceTakesAway
<1>6. f.tier = Classify(p, some, th) /\ f.whole = Classify(p, all, th)
  BY <1>1 DEF Found
<1> HIDE DEF some, all
<1>7. f.tier \in Tier /\ f.whole \in Tier /\ f.tier <= f.whole
  BY <1>2, <1>5, <1>6, WeakerIsNoHigher
<1> QED BY <1>3, <1>4, <1>7

\* A run that was answered is over and was answered once.
AnsweredIsOver == \A r \in Runs : resumed[r] # 0 => run[r].pc = "over" /\ resumed[r] = 1

WaitsForItsIncident == \A i \in Incidents : waiting[i] # NoRun => run[waiting[i]].incident = i

PausedLeftTheGate == \A n \in 1 .. Len(pauses) : run[pauses[n]].pc \notin {"new", "gate", "lost"}

PlaybooksInv ==
    /\ PlaybooksTypeOK
    /\ SilenceNeverAlarms /\ AnalystDecides
    /\ AnsweredIsOver
    /\ WaitsForItsIncident /\ PausedLeftTheGate /\ NewestPauseWaits

LEMMA BlankIsARun == Blank \in RunRecord /\ [Blank EXCEPT !.pc = "lost"] \in RunRecord
<1>1. (CHOOSE i \in Incidents : TRUE) \in Incidents
  BY PlaybooksAssumption
<1>2. Low \in Tier
  BY DEF Low, Critical, Tier
<1>3. Blank \in RunRecord
  BY <1>1, <1>2 DEF Blank, RunRecord
<1> QED BY <1>3 DEF RunRecord

LEMMA PlaybooksInitially == PlaybooksInit => PlaybooksInv
<1> SUFFICES ASSUME PlaybooksInit PROVE PlaybooksInv
  OBVIOUS
<1> USE DEF PlaybooksInit
<1>1. PlaybooksTypeOK
  BY BlankIsARun, PlaybooksAssumption, EmptySeq DEF PlaybooksTypeOK, NoRun
<1>2. Len(pauses) = 0
  OBVIOUS
<1>3. SilenceNeverAlarms /\ AnalystDecides
  BY DEF SilenceNeverAlarms, AnalystDecides, Blank, Low
<1> QED BY <1>1, <1>2, <1>3
        DEF PlaybooksInv, AnsweredIsOver, WaitsForItsIncident, PausedLeftTheGate, NewestPauseWaits

LEMMA PlaybooksNextKeeps == PlaybooksInv /\ [PlaybooksNext]_playbookVars => PlaybooksInv'
<1> SUFFICES ASSUME PlaybooksInv, [PlaybooksNext]_playbookVars PROVE PlaybooksInv'
  OBVIOUS
<1>1. /\ server \in Servers /\ run \in [Runs -> RunRecord]
      /\ waiting \in [Incidents -> {NoRun} \union Runs] /\ pauses \in Seq(Runs)
      /\ resumed \in [Runs -> 0 .. 2] /\ restarts \in 0 .. MaxRestarts
      /\ \A i \in Incidents : waiting[i] # NoRun => run[waiting[i]].pc = "paused"
      /\ SilenceNeverAlarms /\ AnalystDecides /\ AnsweredIsOver
      /\ WaitsForItsIncident /\ PausedLeftTheGate /\ NewestPauseWaits
  BY DEF PlaybooksInv, PlaybooksTypeOK
<1>2. /\ \A n \in 1 .. Len(pauses) : pauses[n] \in Runs
      /\ Len(pauses) \in Nat /\ NoRun \notin Runs
  <2>1. NoRun \notin Runs
    BY PlaybooksAssumption DEF Runs, NoRun
  <2> HIDE DEF Runs
  <2>2. Len(pauses) \in Nat
    BY <1>1, LenProperties
  <2>3. \A n \in 1 .. Len(pauses) : pauses[n] \in Runs
    BY <1>1, ElementOfSeq
  <2> QED BY <2>1, <2>2, <2>3
<1> DEFINE Typed == /\ server' \in Servers /\ run' \in [Runs -> RunRecord]
                    /\ waiting' \in [Incidents -> {NoRun} \union Runs] /\ pauses' \in Seq(Runs)
                    /\ resumed' \in [Runs -> 0 .. 2] /\ restarts' \in 0 .. MaxRestarts
                    /\ \A i \in Incidents : waiting'[i] # NoRun => run'[waiting'[i]].pc = "paused"
<1>3. ASSUME Typed PROVE PlaybooksTypeOK'
  BY <1>3 DEF PlaybooksTypeOK
<1>3a. ASSUME pauses' = pauses,
             \A j \in Incidents : waiting'[j] # NoRun => waiting'[j] = waiting[j],
             \A n \in 1 .. Len(pauses) : run'[pauses[n]].incident = run[pauses[n]].incident
      PROVE  NewestPauseWaits'
  <2>1. SUFFICES ASSUME NEW j \in Incidents, NEW n \in 1 .. Len(pauses),
                        waiting'[j] # NoRun, run'[pauses[n]].incident = j
                 PROVE  \E m \in n .. Len(pauses) : pauses[m] = waiting'[j]
    BY <1>3a DEF NewestPauseWaits
  <2>2. waiting'[j] = waiting[j] /\ run[pauses[n]].incident = j
    BY <1>3a, <2>1
  <2> QED BY <1>1, <2>1, <2>2 DEF NewestPauseWaits
<1> HIDE DEF PlaybooksInv
<1>4. ASSUME NEW r \in Runs, NEW i \in Incidents, NEW auto \in BOOLEAN,
             NEW inline \in {"approved", "rejected", "none"}, Investigate(r, i, auto, inline)
      PROVE  PlaybooksInv'
  <2>1. PICK f \in Findings[server] :
          run' = [run EXCEPT ![r] =
              [Blank EXCEPT !.pc = "gate", !.incident = i, !.auto = auto, !.inline = inline,
                            !.tier = f.tier, !.whole = f.whole, !.tool = f.tool]]
    BY <1>4 DEF Investigate
  <2>2. /\ run[r].pc = "new"
        /\ UNCHANGED <<server, waiting, pauses, resumed, restarts>>
    BY <1>4 DEF Investigate
  <2>3. /\ f.tier \in Tier /\ f.whole \in Tier /\ f.tier <= f.whole
        /\ f.tool \in {"block_ip", "isolate_host", "quarantine_file"}
    BY <1>1, FindingsAreSound
  <2>4. /\ run'[r] \in RunRecord /\ run'[r].pc = "gate" /\ run'[r].tier <= run'[r].whole
        /\ \A q \in Runs : q # r => run'[q] = run[q]
        /\ run' \in [Runs -> RunRecord]
    <3>1. /\ run'[r] = [Blank EXCEPT !.pc = "gate", !.incident = i, !.auto = auto,
                          !.inline = inline, !.tier = f.tier, !.whole = f.whole, !.tool = f.tool]
          /\ \A q \in Runs : q # r => run'[q] = run[q]
          /\ run' = [run EXCEPT ![r] = run'[r]]
      BY <1>1, <2>1
    <3>2. run'[r] \in RunRecord
      BY ZenonT(60), <2>3, <3>1, BlankIsARun DEF RunRecord
    <3>3. run'[r].pc = "gate" /\ run'[r].tier = f.tier /\ run'[r].whole = f.whole
      BY <3>1 DEF Blank
    <3> QED BY <1>1, <2>3, <3>1, <3>2, <3>3
  <2>5. /\ \A j \in Incidents : waiting[j] # r
        /\ \A n \in 1 .. Len(pauses) : pauses[n] # r
        /\ resumed[r] = 0
    BY <1>1, <1>2, <2>2 DEF PausedLeftTheGate, AnsweredIsOver
  <2>6. PlaybooksTypeOK'
    <3>1. Typed
      BY <1>1, <2>2, <2>4, <2>5
    <3> QED BY <1>3, <3>1
  <2>7. SilenceNeverAlarms' /\ AnalystDecides' /\ AnsweredIsOver'
    BY <1>1, <2>2, <2>4, <2>5 DEF SilenceNeverAlarms, AnalystDecides, AnsweredIsOver
  <2>8. WaitsForItsIncident' /\ PausedLeftTheGate'
    BY <1>1, <1>2, <2>2, <2>4, <2>5 DEF WaitsForItsIncident, PausedLeftTheGate
  <2>9. NewestPauseWaits'
    BY <1>3a, <1>2, <2>2, <2>4, <2>5
  <2> QED BY <2>6, <2>7, <2>8, <2>9 DEF PlaybooksInv
<1>5. ASSUME NEW r \in Runs, GateDecides(r)
      PROVE  PlaybooksInv'
  <2>1. /\ run[r].pc = "gate" /\ Verdict(run[r])[1] # "pending"
        /\ UNCHANGED <<server, waiting, pauses, resumed, restarts>>
        /\ EndRun(r, Completed(Verdict(run[r])[1]), Verdict(run[r])[2])
    BY <1>5 DEF GateDecides
  <2>2. run[r] \in RunRecord
    BY <1>1
  <2>3. /\ Completed(Verdict(run[r])[1]) \in {"completed_recommended", "completed_rejected"}
        /\ Verdict(run[r])[2] \in {"system", "auto-approval", "inline-analyst", "awaiting-analyst"}
        /\ run[r].tier = Low \/ run[r].auto \/ run[r].inline # "none"
    BY <2>1, <2>2 DEF Completed, Verdict, RunRecord, Tier, Low, Critical
  <2>4. /\ run'[r] \in RunRecord /\ run'[r].pc = "over" /\ run'[r].tier = run'[r].whole
        /\ run'[r].tier = run[r].tier /\ run'[r].auto = run[r].auto
        /\ run'[r].inline = run[r].inline
        /\ \A q \in Runs : q # r => run'[q] = run[q]
        /\ run' \in [Runs -> RunRecord]
    BY ZenonT(60), <1>1, <2>1, <2>2, <2>3 DEF EndRun, RunRecord
  <2>5. /\ \A j \in Incidents : waiting[j] # r
        /\ \A n \in 1 .. Len(pauses) : pauses[n] # r
        /\ resumed[r] = 0
    BY <1>1, <1>2, <2>1 DEF PausedLeftTheGate, AnsweredIsOver
  <2>6. PlaybooksTypeOK'
    <3>1. Typed
      BY <1>1, <2>1, <2>4, <2>5
    <3> QED BY <1>3, <3>1
  <2>7. SilenceNeverAlarms'
    <3>1. run'[r].tier \in Nat
      BY <2>4 DEF RunRecord, Tier, Low, Critical
    <3>2. run'[r].tier <= run'[r].whole
      BY <2>4, <3>1
    <3> QED BY <1>1, <2>4, <3>2 DEF SilenceNeverAlarms
  <2>8. AnalystDecides'
    BY SMTT(30), <1>1, <2>1, <2>2, <2>3, <2>4 DEF AnalystDecides, RunRecord, Tier, Low, Critical
  <2>9. AnsweredIsOver'
    BY SMTT(30), <1>1, <2>1, <2>4, <2>5 DEF AnsweredIsOver
  <2>10. WaitsForItsIncident' /\ PausedLeftTheGate'
    BY <1>1, <1>2, <2>1, <2>4, <2>5 DEF WaitsForItsIncident, PausedLeftTheGate
  <2>11. NewestPauseWaits'
    BY <1>3a, <1>2, <2>1, <2>4, <2>5
  <2> QED BY <2>6, <2>7, <2>8, <2>9, <2>10, <2>11 DEF PlaybooksInv
<1>6. ASSUME NEW r \in Runs, GatePauses(r)
      PROVE  PlaybooksInv'
  <2> DEFINE i == run[r].incident
  <2>1. /\ run[r].pc = "gate" /\ run[r] \in RunRecord /\ i \in Incidents
        /\ run' = [run EXCEPT ![r] =
              [@ EXCEPT !.pc = "paused", !.status = "pending_confirmation",
                        !.actor = "awaiting-analyst", !.whole = run[r].tier, !.tool = "block_ip"]]
        /\ waiting' = [waiting EXCEPT ![i] = r]
        /\ pauses' = Append(pauses, r)
        /\ UNCHANGED <<server, resumed, restarts>>
    BY <1>1, <1>6 DEF GatePauses, Parked, RunRecord
  <2>2. /\ run'[r] \in RunRecord /\ run'[r].pc = "paused" /\ run'[r].tier = run'[r].whole
        /\ run'[r].incident = i
        /\ \A q \in Runs : q # r => run'[q] = run[q]
        /\ run' \in [Runs -> RunRecord]
    BY <1>1, <2>1 DEF RunRecord
  <2>3. /\ \A j \in Incidents : waiting[j] # r
        /\ \A n \in 1 .. Len(pauses) : pauses[n] # r
        /\ resumed[r] = 0
    <3>1. run[r].pc = "gate"
      BY <2>1
    <3>2. \A j \in Incidents : waiting[j] # r
      BY <1>1, <1>2, <3>1
    <3>3. \A n \in 1 .. Len(pauses) : pauses[n] # r
      BY <1>1, <3>1 DEF PausedLeftTheGate
    <3>4. resumed[r] = 0
      BY <1>1, <3>1 DEF AnsweredIsOver
    <3> QED BY <3>2, <3>3, <3>4
  <2>4. /\ Len(pauses') = Len(pauses) + 1 /\ pauses'[Len(pauses) + 1] = r
        /\ \A n \in 1 .. Len(pauses) : pauses'[n] = pauses[n]
        /\ pauses' \in Seq(Runs)
    BY <1>1, <2>1, AppendProperties
  <2>5. /\ waiting'[i] = r /\ \A j \in Incidents : j # i => waiting'[j] = waiting[j]
        /\ waiting' \in [Incidents -> {NoRun} \union Runs]
    BY <1>1, <2>1
  <2>6. PlaybooksTypeOK'
    <3>1. Typed
      <4>1. \A j \in Incidents : waiting'[j] # NoRun => run'[waiting'[j]].pc = "paused"
        BY <1>1, <2>2, <2>3, <2>5
      <4> HIDE DEF i
      <4> QED BY <1>1, <2>1, <2>2, <2>4, <2>5, <4>1
    <3> QED BY <1>3, <3>1
  <2>7. SilenceNeverAlarms'
    BY <1>1, <2>2 DEF SilenceNeverAlarms, RunRecord, Tier, Low, Critical
  <2>8. AnalystDecides' /\ AnsweredIsOver'
    BY <1>1, <2>1, <2>2, <2>3 DEF AnalystDecides, AnsweredIsOver
  <2>9. WaitsForItsIncident'
    BY <1>1, <2>2, <2>3, <2>5 DEF WaitsForItsIncident
  <2>10. PausedLeftTheGate'
    <3>1. SUFFICES ASSUME NEW n \in 1 .. Len(pauses')
                   PROVE  run'[pauses'[n]].pc \notin {"new", "gate", "lost"}
      BY DEF PausedLeftTheGate
    <3>2. CASE n \in 1 .. Len(pauses)
      <4>1. pauses'[n] = pauses[n] /\ pauses[n] \in Runs /\ pauses[n] # r
        BY <1>2, <2>3, <2>4, <3>2
      <4> QED BY <1>1, <2>2, <3>2, <4>1 DEF PausedLeftTheGate
    <3>3. CASE n = Len(pauses) + 1
      BY <2>2, <2>4, <3>3
    <3> QED BY <1>2, <2>4, <3>2, <3>3
  <2>11. NewestPauseWaits'
    <3>1. SUFFICES ASSUME NEW j \in Incidents, NEW n \in 1 .. Len(pauses'),
                          waiting'[j] # NoRun, run'[pauses'[n]].incident = j
                   PROVE  \E m \in n .. Len(pauses') : pauses'[m] = waiting'[j]
      BY DEF NewestPauseWaits
    <3>2. CASE j = i
      BY <1>2, <2>4, <2>5, <3>2
    <3>3. CASE j # i
      <4>1. n \in 1 .. Len(pauses) /\ run[pauses[n]].incident = j /\ waiting[j] # NoRun
        <5>1. n # Len(pauses) + 1
          BY <2>2, <2>4, <3>1, <3>3
        <5>2. n \in 1 .. Len(pauses)
          BY <1>2, <2>4, <5>1
        <5>3. pauses'[n] = pauses[n] /\ pauses[n] \in Runs /\ pauses[n] # r
          BY <1>2, <2>3, <2>4, <5>2
        <5> QED BY <2>2, <2>5, <3>1, <3>3, <5>2, <5>3
      <4>2. PICK m \in n .. Len(pauses) : pauses[m] = waiting[j]
        BY <1>1, <4>1 DEF NewestPauseWaits
      <4>3. m \in n .. Len(pauses') /\ pauses'[m] = waiting'[j]
        BY <1>2, <2>4, <2>5, <3>3, <4>1, <4>2
      <4> QED BY <4>3
    <3> QED BY <3>2, <3>3
  <2> QED BY <2>6, <2>7, <2>8, <2>9, <2>10, <2>11 DEF PlaybooksInv
<1>7. ASSUME NEW i \in Incidents, NEW decision \in {"approved", "rejected"}, Resume(i, decision)
      PROVE  PlaybooksInv'
  <2> DEFINE r == waiting[i]
  <2>1. /\ r \in Runs /\ run[r].pc = "paused" /\ run[r] \in RunRecord
        /\ waiting' = [waiting EXCEPT ![i] = NoRun]
        /\ resumed' = [resumed EXCEPT ![r] = @ + 1]
        /\ EndRun(r, Completed(decision), "analyst")
        /\ UNCHANGED <<server, pauses, restarts>>
    BY <1>1, <1>7 DEF Resume, Taken
  <2>2. resumed[r] = 0 /\ run[r].incident = i
    BY <1>1, <1>7, <2>1 DEF AnsweredIsOver, WaitsForItsIncident, Resume
  <2>3. Completed(decision) \in {"completed_recommended", "completed_rejected"}
    BY DEF Completed
  <2> HIDE DEF r
  <2>4. /\ run'[r] \in RunRecord /\ run'[r].pc = "over" /\ run'[r].tier = run'[r].whole
        /\ run'[r].incident = i /\ run'[r].actor = "analyst"
        /\ \A q \in Runs : q # r => run'[q] = run[q]
        /\ run' \in [Runs -> RunRecord]
    BY ZenonT(60), <1>1, <2>1, <2>2, <2>3 DEF EndRun, RunRecord
  <2>5. /\ resumed'[r] = 1 /\ \A q \in Runs : q # r => resumed'[q] = resumed[q]
        /\ resumed' \in [Runs -> 0 .. 2]
    BY <1>1, <2>1, <2>2
  <2>6. /\ waiting'[i] = NoRun /\ \A j \in Incidents : j # i => waiting'[j] = waiting[j]
        /\ waiting' \in [Incidents -> {NoRun} \union Runs]
    BY <1>1, <2>1
  <2>7. \A j \in Incidents : j # i => waiting[j] # r
    BY <1>1, <1>2, <2>1, <2>2 DEF WaitsForItsIncident
  <2>8. PlaybooksTypeOK'
    <3>1. \A j \in Incidents : waiting'[j] # NoRun => run'[waiting'[j]].pc = "paused"
      BY <1>1, <2>4, <2>6, <2>7
    <3>2. Typed
      BY <1>1, <2>1, <2>4, <2>5, <2>6, <3>1
    <3> QED BY <1>3, <3>2
  <2>9. SilenceNeverAlarms'
    BY <1>1, <2>4 DEF SilenceNeverAlarms, RunRecord, Tier, Low, Critical
  <2>10. AnalystDecides' /\ AnsweredIsOver'
    BY <1>1, <2>4, <2>5 DEF AnalystDecides, AnsweredIsOver
  <2>11. WaitsForItsIncident'
    BY <1>1, <2>4, <2>6, <2>7 DEF WaitsForItsIncident
  <2>12. PausedLeftTheGate'
    BY <1>1, <1>2, <2>1, <2>4 DEF PausedLeftTheGate
  <2>13. \A q \in Runs : run'[q].incident = run[q].incident
    BY <2>2, <2>4
  <2>14. NewestPauseWaits'
    BY <1>3a, <1>2, <2>1, <2>6, <2>13
  <2> QED BY <2>8, <2>9, <2>10, <2>11, <2>12, <2>14 DEF PlaybooksInv
<1>8. ASSUME RestartPlaybooks
      PROVE  PlaybooksInv'
  <2>1. /\ restarts < MaxRestarts /\ restarts' = restarts + 1
        /\ waiting' = [i \in Incidents |-> NoRun]
        /\ run' = [r \in Runs |-> IF run[r].pc = "gate" THEN [Blank EXCEPT !.pc = "lost"]
                                  ELSE run[r]]
        /\ UNCHANGED <<server, pauses, resumed>>
    BY <1>8 DEF RestartPlaybooks
  <2>2. \A r \in Runs : /\ run[r].pc = "gate" => /\ run'[r] = [Blank EXCEPT !.pc = "lost"]
                                                 /\ run'[r].pc = "lost"
                        /\ run[r].pc # "gate" => run'[r] = run[r]
    BY <2>1 DEF Blank
  <2>3. run' \in [Runs -> RunRecord]
    BY <1>1, <2>1, BlankIsARun
  <2>4. restarts' \in 0 .. MaxRestarts
    BY <1>1, <2>1, PlaybooksAssumption
  <2>5. PlaybooksTypeOK'
    <3>1. Typed
      BY <1>1, <2>1, <2>3, <2>4
    <3> QED BY <1>3, <3>1
  <2>6. SilenceNeverAlarms'
    BY <1>1, <2>1, <2>2 DEF SilenceNeverAlarms, Blank, Low
  <2>7. AnalystDecides' /\ AnsweredIsOver'
    BY <1>1, <2>1, <2>2 DEF AnalystDecides, AnsweredIsOver
  <2>8. WaitsForItsIncident' /\ NewestPauseWaits'
    BY <2>1 DEF WaitsForItsIncident, NewestPauseWaits
  <2>9. PausedLeftTheGate'
    BY <1>1, <1>2, <2>1, <2>2 DEF PausedLeftTheGate
  <2> QED BY <2>5, <2>6, <2>7, <2>8, <2>9 DEF PlaybooksInv
<1>9. CASE UNCHANGED playbookVars
  BY <1>9 DEF playbookVars, PlaybooksInv, PlaybooksTypeOK, SilenceNeverAlarms, AnalystDecides,
              AnsweredIsOver, WaitsForItsIncident, PausedLeftTheGate, NewestPauseWaits
<1> QED BY <1>4, <1>5, <1>6, <1>7, <1>8, <1>9 DEF PlaybooksNext

\* Whatever fails, pauses, restarts or is answered: queries that fail raise no
\* tier, above the lowest an analyst decides unless the request did, and of the
\* paused runs of an incident the newest is answered, once (playbooks.py).
THEOREM InvestigationsStaySound == PlaybooksSpec => []PlaybooksHold
<1>1. PlaybooksInit => PlaybooksInv
  BY PlaybooksInitially
<1>2. PlaybooksInv /\ [PlaybooksNext]_playbookVars => PlaybooksInv'
  BY PlaybooksNextKeeps
<1>3. PlaybooksInv => PlaybooksHold
  <2> SUFFICES ASSUME PlaybooksInv PROVE EachPauseAnsweredOnce
    BY DEF PlaybooksInv, PlaybooksHold
  <2>1. \A r \in Runs : resumed[r] = 0 \/ resumed[r] = 1
    BY DEF PlaybooksInv, AnsweredIsOver
  <2> QED BY <2>1 DEF EachPauseAnsweredOnce
<1> QED BY <1>1, <1>2, <1>3, PTL DEF PlaybooksSpec

-----------------------------------------------------------------------------
(* The windows over the model's answers.                                   *)

Entry == [at : Nat, hit : BOOLEAN]
\* One reading of the clock for each window, in the order of the code
Clocks == {now \in [Windows -> Nat] :
               now["calls"] <= now["verdicts"] /\ now["verdicts"] <= now["suspects"]}
Answered == [at : Clocks, answer : Answers]

\* Which answers a window is of, and what it keeps of one
InWindow(w, answer) ==
    \/ w = "calls"
    \/ w = "verdicts" /\ Compared(answer)
    \/ w = "suspects" /\ Suspected(answer)
IsHit(w, answer) ==
    \/ w = "calls" /\ answer.fallback
    \/ w = "verdicts" /\ answer.differs
    \/ w = "suspects" /\ answer.suspect
EntryOf(w, seen) == [at |-> seen.at[w], hit |-> IsHit(w, seen.answer)]
Passed(w, seen) == {i \in DOMAIN seen : InWindow(w, seen[i].answer)}

\* A window tells the answers it is of, in order, but for some that are stale by now:
\* f is the place of each entry among all answers.
Tells(w, entries, seen, f, now) ==
    /\ f \in [DOMAIN entries -> Passed(w, seen)]
    /\ \A j, k \in DOMAIN entries : j < k => f[j] < f[k]
    /\ \A k \in DOMAIN entries : entries[k] = EntryOf(w, seen[f[k]])
    /\ \A i \in Passed(w, seen) : (\E k \in DOMAIN entries : f[k] = i)
                                     \/ Stale(EntryOf(w, seen[i]), now)
InOrder(s) == \A j, k \in DOMAIN s : j <= k => s[j].at <= s[k].at
OrderOf(w, s) == \A j, k \in DOMAIN s : j <= k => s[j].at[w] <= s[k].at[w]
NoneIsLate(w, s, now) == \A k \in DOMAIN s : s[k].at[w] <= now

WatchInv ==
    /\ second \in 0 .. MaxWatchTime
    /\ callsSeen \in Seq(Answered) /\ Len(callsSeen) <= MaxSeen
    /\ \A w \in Windows : OrderOf(w, callsSeen) /\ NoneIsLate(w, callsSeen, second)
    /\ log \in [Windows -> Seq(Entry)]
    /\ \A w \in Windows : \E f : Tells(w, log[w], callsSeen, f, second)
    /\ \A w \in Windows : \A i \in DOMAIN log[w] :
           log[w][i].at + WatchWindow >= log[w][Len(log[w])].at
    /\ warned \subseteq 1 .. Len(callsSeen)
    /\ metrics \in [Windows -> Count]
    /\ AllFallbacksWarn

\* A clock of one window is a number.
LEMMA ClocksAreNumbers ==
  ASSUME NEW w \in Windows, NEW seen \in Seq(Answered)
  PROVE  \A i \in DOMAIN seen : /\ i \in Nat /\ seen[i] \in Answered
                                /\ seen[i].at \in Clocks /\ seen[i].at[w] \in Nat
<1> SUFFICES ASSUME NEW i \in DOMAIN seen
             PROVE  /\ i \in Nat /\ seen[i] \in Answered
                    /\ seen[i].at \in Clocks /\ seen[i].at[w] \in Nat
  OBVIOUS
<1>1. i \in Nat /\ seen[i] \in Answered
  OBVIOUS
<1>2. seen[i].at \in Clocks
  BY <1>1 DEF Answered
<1> QED BY <1>1, <1>2 DEF Clocks

\* What a window tells it tells later, too: what is stale stays so.
LEMMA TellsLater ==
  ASSUME NEW w \in Windows, NEW entries, NEW seen \in Seq(Answered), NEW f,
         NEW before \in Nat, NEW now \in Nat, before <= now,
         Tells(w, entries, seen, f, before)
  PROVE  Tells(w, entries, seen, f, now)
<1>1. ASSUME NEW i \in Passed(w, seen), Stale(EntryOf(w, seen[i]), before)
      PROVE  Stale(EntryOf(w, seen[i]), now)
  <2>1. seen[i].at[w] \in Nat
    BY <1>1, ClocksAreNumbers DEF Passed
  <2>2. EntryOf(w, seen[i]).at = seen[i].at[w]
    BY DEF EntryOf
  <2> QED BY <1>1, <2>1, <2>2, WatchAssumption DEF Stale
<1> QED BY <1>1 DEF Tells

\* Trimming drops from the front what is stale, and nothing else.
LEMMA TrimmingDropsTheStale ==
  ASSUME NEW entries \in Seq(Entry), InOrder(entries), NEW now \in Nat
  PROVE  /\ TrimmedCalls(entries, now) \in Seq(Entry)
         /\ \E d \in 0 .. Len(entries) :
              /\ Len(TrimmedCalls(entries, now)) = Len(entries) - d
              /\ \A k \in 1 .. d : Stale(entries[k], now)
              /\ \A k \in 1 .. (Len(entries) - d) :
                     /\ TrimmedCalls(entries, now)[k] = entries[k + d]
                     /\ ~Stale(entries[k + d], now)
<1> DEFINE kept == {i \in DOMAIN entries : ~Stale(entries[i], now)}
           T == TrimmedCalls(entries, now)
           n == Len(entries)
<1>0. n \in Nat /\ DOMAIN entries = 1 .. n /\ \A k \in 1 .. n : entries[k] \in Entry
  OBVIOUS
<1>1. CASE kept = {}
  <2>1. T = << >>
    BY <1>1 DEF TrimmedCalls
  <2>2. \A k \in 1 .. n : Stale(entries[k], now)
    BY <1>0, <1>1
  <2>3. n \in 0 .. n /\ Len(T) = n - n /\ T \in Seq(Entry) /\ 1 .. (n - n) = {}
    BY <1>0, <2>1
  <2> HIDE DEF T, n
  <2> QED BY <2>2, <2>3 DEF T, n
<1>2. CASE kept # {}
  <2>0. kept \in SUBSET Nat
    BY <1>0
  <2>1. PICK m \in kept : \A j \in kept : m <= j
    <3>1. \E n0 \in kept : \A m0 \in kept : ~(m0 < n0)
      <4> HIDE DEF kept
      <4> QED BY <1>2, <2>0, LeastOf
    <3> QED BY <2>0, <3>1
  <2> DEFINE c == CHOOSE i \in kept : \A j \in kept : i <= j
  <2>2. c \in kept /\ \A j \in kept : c <= j
    <3> HIDE DEF kept
    <3> QED BY <2>1
  <2>3. T = SubSeq(entries, c, n)
    BY <1>2 DEF TrimmedCalls
  <2> HIDE DEF c
  <2>4. c \in 1 .. n /\ ~Stale(entries[c], now)
    BY <1>0, <2>2
  <2>5. \A k \in 1 .. n : k < c => Stale(entries[k], now)
    BY <1>0, <2>2, <2>4
  <2>6. \A k \in 1 .. n : k >= c => ~Stale(entries[k], now)
    <3> SUFFICES ASSUME NEW k \in 1 .. n, k >= c PROVE ~Stale(entries[k], now)
      OBVIOUS
    <3>1. entries[c].at <= entries[k].at /\ entries[c].at \in Nat /\ entries[k].at \in Nat
      BY <1>0, <2>4 DEF InOrder, Entry
    <3> QED BY SMTT(30), <2>4, <3>1, WatchAssumption DEF Stale
  <2>7. /\ T \in Seq(Entry) /\ Len(T) = n - (c - 1)
        /\ \A k \in 1 .. (n - (c - 1)) : T[k] = entries[k + (c - 1)]
    BY <1>0, <2>3, <2>4, SubSeqProperties
  <2>8. c - 1 \in 0 .. n
    BY <2>4
  <2>9. \A k \in 1 .. (c - 1) : Stale(entries[k], now)
    BY <1>0, <2>4, <2>5
  <2>10. \A k \in 1 .. (n - (c - 1)) : ~Stale(entries[k + (c - 1)], now)
    BY <1>0, <2>4, <2>6
  <2> HIDE DEF T, n
  <2> QED BY <2>7, <2>8, <2>9, <2>10 DEF T, n
<1> HIDE DEF kept
<1> QED BY <1>1, <1>2

\* A trimmed window still tells, and only of what is fresh.
LEMMA TrimmedTells ==
  ASSUME NEW w \in Windows, NEW entries \in Seq(Entry), NEW seen \in Seq(Answered), NEW f,
         OrderOf(w, seen), NEW now \in Nat, Tells(w, entries, seen, f, now)
  PROVE  /\ TrimmedCalls(entries, now) \in Seq(Entry)
         /\ \E g : Tells(w, TrimmedCalls(entries, now), seen, g, now)
         /\ \A k \in DOMAIN TrimmedCalls(entries, now) : ~Stale(TrimmedCalls(entries, now)[k], now)
<1> DEFINE T == TrimmedCalls(entries, now)
           n == Len(entries)
<1>0. /\ n \in Nat /\ DOMAIN entries = 1 .. n /\ Passed(w, seen) \subseteq DOMAIN seen
      /\ \A i \in DOMAIN seen : i \in Nat /\ seen[i].at[w] \in Nat
  <2>1. n \in Nat /\ DOMAIN entries = 1 .. n
    OBVIOUS
  <2> HIDE DEF n
  <2> QED BY <2>1, ClocksAreNumbers DEF Passed
<1>1. /\ f \in [1 .. n -> Passed(w, seen)]
      /\ \A j, k \in 1 .. n : j < k => f[j] < f[k]
      /\ \A k \in 1 .. n : entries[k] = EntryOf(w, seen[f[k]])
      /\ \A i \in Passed(w, seen) : (\E k \in 1 .. n : f[k] = i) \/ Stale(EntryOf(w, seen[i]), now)
  BY <1>0 DEF Tells
<1>2. \A k \in 1 .. n : f[k] \in DOMAIN seen /\ f[k] \in Nat /\ entries[k].at = seen[f[k]].at[w]
  BY <1>0, <1>1 DEF EntryOf
<1>3. InOrder(entries)
  <2> SUFFICES ASSUME NEW j \in 1 .. n, NEW k \in 1 .. n, j <= k
               PROVE  entries[j].at <= entries[k].at
    BY <1>0 DEF InOrder
  <2>1. f[j] <= f[k]
    BY <1>1, <1>2
  <2> QED BY <1>2, <2>1 DEF OrderOf
<1>4. /\ T \in Seq(Entry)
      /\ \E d \in 0 .. n :
           /\ Len(T) = n - d
           /\ \A k \in 1 .. d : Stale(entries[k], now)
           /\ \A k \in 1 .. (n - d) : T[k] = entries[k + d] /\ ~Stale(entries[k + d], now)
  BY <1>3, TrimmingDropsTheStale
<1>5. PICK d \in 0 .. n :
        /\ Len(T) = n - d
        /\ \A k \in 1 .. d : Stale(entries[k], now)
        /\ \A k \in 1 .. (n - d) : T[k] = entries[k + d] /\ ~Stale(entries[k + d], now)
  BY <1>4
<1> HIDE DEF T, n
<1>6. DOMAIN T = 1 .. (n - d) /\ \A k \in 1 .. (n - d) : k \in Nat /\ k + d \in 1 .. n
  BY <1>0, <1>4, <1>5
<1> DEFINE g == [k \in 1 .. (n - d) |-> f[k + d]]
<1>7. Tells(w, T, seen, g, now)
  <2>1. g \in [1 .. (n - d) -> Passed(w, seen)]
    BY <1>1, <1>6
  <2>2. \A j, k \in 1 .. (n - d) : j < k => g[j] < g[k]
    BY <1>0, <1>1, <1>6
  <2>3. \A k \in 1 .. (n - d) : T[k] = EntryOf(w, seen[g[k]])
    BY <1>1, <1>5, <1>6
  <2>4. ASSUME NEW i \in Passed(w, seen), ~Stale(EntryOf(w, seen[i]), now)
        PROVE  \E k \in 1 .. (n - d) : g[k] = i
    <3>1. PICK k \in 1 .. n : f[k] = i
      BY <1>1, <2>4
    <3>2. ~Stale(entries[k], now)
      BY <1>1, <2>4, <3>1
    <3>3. k > d
      BY <1>0, <1>5, <3>2
    <3>4. k - d \in 1 .. (n - d) /\ g[k - d] = i
      BY <1>0, <3>1, <3>3
    <3> QED BY <3>4
  <2> HIDE DEF g
  <2> QED BY <1>6, <2>1, <2>2, <2>3, <2>4 DEF Tells
<1>8. \A k \in DOMAIN T : ~Stale(T[k], now)
  BY <1>5, <1>6
<1> QED BY <1>4, <1>7, <1>8 DEF T

FreshOf(w, seen, now) == {i \in Passed(w, seen) : ~Stale(EntryOf(w, seen[i]), now)}
HitsOf(w, seen, now) == {i \in FreshOf(w, seen, now) : IsHit(w, seen[i].answer)}

\* What a window counts that tells only of what is fresh.
LEMMA FreshIsExact ==
  ASSUME NEW w \in Windows, NEW entries \in Seq(Entry), NEW seen \in Seq(Answered), NEW f,
         NEW now \in Nat, Tells(w, entries, seen, f, now),
         \A k \in DOMAIN entries : ~Stale(entries[k], now)
  PROVE  /\ Counted(entries) = [total |-> Cardinality(FreshOf(w, seen, now)),
                                hits |-> Cardinality(HitsOf(w, seen, now))]
         /\ IsFiniteSet(FreshOf(w, seen, now))
         /\ Cardinality(FreshOf(w, seen, now)) \in 0 .. Len(seen)
         /\ Cardinality(HitsOf(w, seen, now)) \in 0 .. Cardinality(FreshOf(w, seen, now))
<1> DEFINE n == Len(entries)
           fresh == {i \in Passed(w, seen) : ~Stale(EntryOf(w, seen[i]), now)}
           hits == {i \in fresh : IsHit(w, seen[i].answer)}
           H == {k \in 1 .. n : entries[k].hit}
<1>0. /\ n \in Nat /\ DOMAIN entries = 1 .. n /\ Passed(w, seen) \subseteq 1 .. Len(seen)
      /\ Len(seen) \in Nat /\ \A i \in 1 .. Len(seen) : i \in Nat
  BY DEF Passed
<1>1. /\ f \in [1 .. n -> Passed(w, seen)]
      /\ \A j, k \in 1 .. n : j < k => f[j] < f[k]
      /\ \A k \in 1 .. n : entries[k] = EntryOf(w, seen[f[k]])
      /\ \A i \in Passed(w, seen) : (\E k \in 1 .. n : f[k] = i) \/ Stale(EntryOf(w, seen[i]), now)
  BY <1>0 DEF Tells
<1>2. \A k \in 1 .. n : /\ ~Stale(EntryOf(w, seen[f[k]]), now) /\ f[k] \in Nat
                        /\ entries[k].hit = IsHit(w, seen[f[k]].answer)
  BY <1>0, <1>1 DEF EntryOf
<1>3. \A j, k \in 1 .. n : f[j] = f[k] => j = k
  BY <1>0, <1>1, <1>2
<1>4. f \in [1 .. n -> fresh] /\ \A i \in fresh : \E k \in 1 .. n : f[k] = i
  <2>1. f \in [1 .. n -> fresh]
    BY <1>1, <1>2
  <2>2. \A i \in fresh : \E k \in 1 .. n : f[k] = i
    BY <1>1
  <2> QED BY <2>1, <2>2
<1>5. IsFiniteSet(1 .. n) /\ Cardinality(1 .. n) = n
  BY <1>0, IntervalSize
<1>6. IsFiniteSet(fresh) /\ Cardinality(fresh) = n
  <2> HIDE DEF fresh, n
  <2> QED BY <1>3, <1>4, <1>5, MatchedSize
<1>7. H \in SUBSET (1 .. n) /\ IsFiniteSet(H) /\ Cardinality(H) \in 0 .. n
  <2>1. H \in SUBSET (1 .. n)
    OBVIOUS
  <2>2. /\ IsFiniteSet(H) /\ Cardinality(H) \in Nat
        /\ Cardinality(H) <= Cardinality(1 .. n)
    <3> HIDE DEF H, n
    <3> QED BY <1>5, <2>1, SubsetSize
  <2> HIDE DEF H, n
  <2> QED BY <1>0, <1>5, <2>1, <2>2
<1> DEFINE h == [k \in H |-> f[k]]
<1>8. Cardinality(hits) = Cardinality(H)
  <2>1. h \in [H -> hits]
    BY <1>1, <1>2, <1>4
  <2>2. \A j, k \in H : h[j] = h[k] => j = k
    BY <1>3
  <2>3. \A i \in hits : \E k \in H : h[k] = i
    BY <1>1, <1>2
  <2> HIDE DEF h, H, hits
  <2> QED BY <1>7, <2>1, <2>2, <2>3, MatchedSize
<1>9. Cardinality(fresh) \in 0 .. Len(seen)
  <2>1. fresh \in SUBSET (1 .. Len(seen)) /\ IsFiniteSet(1 .. Len(seen))
        /\ Cardinality(1 .. Len(seen)) = Len(seen)
    BY <1>0, IntervalSize
  <2>2. /\ Cardinality(fresh) \in Nat
        /\ Cardinality(fresh) <= Cardinality(1 .. Len(seen))
    <3> DEFINE all == 1 .. Len(seen)
    <3> HIDE DEF fresh, all
    <3> QED BY <2>1, SubsetSize DEF all
  <2> HIDE DEF fresh
  <2> QED BY <1>0, <2>1, <2>2
<1>10. Counted(entries) = [total |-> Cardinality(fresh), hits |-> Cardinality(hits)]
  <2>1. Counted(entries) = [total |-> n, hits |-> Cardinality(H)]
    BY <1>0 DEF Counted
  <2> HIDE DEF fresh, hits, H
  <2> QED BY <1>6, <1>8, <2>1
<1> HIDE DEF fresh, hits, H
<1>11. fresh = FreshOf(w, seen, now) /\ hits = HitsOf(w, seen, now)
  BY DEF fresh, hits, FreshOf, HitsOf
<1> QED BY <1>6, <1>7, <1>8, <1>9, <1>10, <1>11

\* What tells only of what is fresh spans no more than the window.
LEMMA FreshSpans ==
  ASSUME NEW w \in Windows, NEW entries \in Seq(Entry), NEW seen \in Seq(Answered), NEW f,
         NEW now \in Nat, NoneIsLate(w, seen, now),
         Tells(w, entries, seen, f, now), \A k \in DOMAIN entries : ~Stale(entries[k], now)
  PROVE  \A k \in DOMAIN entries : entries[k].at + WatchWindow >= entries[Len(entries)].at
<1> SUFFICES ASSUME NEW k \in DOMAIN entries
             PROVE  entries[k].at + WatchWindow >= entries[Len(entries)].at
  OBVIOUS
<1> DEFINE n == Len(entries)
<1>1. n \in DOMAIN entries /\ entries[k] \in Entry /\ entries[n] \in Entry
  OBVIOUS
<1>2. f[n] \in DOMAIN seen /\ entries[n].at = seen[f[n]].at[w]
  BY <1>1 DEF Tells, Passed, EntryOf
<1>3. entries[n].at <= now
  BY <1>2 DEF NoneIsLate
<1>4. ~(entries[k].at + WatchWindow < now)
  BY DEF Stale
<1> HIDE DEF n
<1>5. entries[k].at \in Nat /\ entries[n].at \in Nat
  BY <1>1 DEF Entry
<1> QED BY <1>3, <1>4, <1>5, WatchAssumption DEF n

\* A new answer is told of by an entry of its own, in the windows it is of.
LEMMA NewIsTold ==
  ASSUME NEW w \in Windows, NEW entries \in Seq(Entry), NEW seen \in Seq(Answered), NEW f,
         NEW now \in Nat, Tells(w, entries, seen, f, now), NEW new \in Answered
  PROVE  /\ InWindow(w, new.answer) =>
              /\ Append(entries, EntryOf(w, new)) \in Seq(Entry)
              /\ \E g : Tells(w, Append(entries, EntryOf(w, new)), Append(seen, new), g, now)
         /\ ~InWindow(w, new.answer) => Tells(w, entries, Append(seen, new), f, now)
<1> DEFINE n == Len(entries)
           m == Len(seen)
           all == Append(seen, new)
           entry == EntryOf(w, new)
           more == Append(entries, entry)
<1>1. /\ n \in Nat /\ DOMAIN entries = 1 .. n /\ m \in Nat /\ DOMAIN seen = 1 .. m
      /\ DOMAIN all = 1 .. m + 1 /\ all[m + 1] = new /\ \A i \in 1 .. m : all[i] = seen[i]
  OBVIOUS
<1>2. /\ f \in [1 .. n -> Passed(w, seen)]
      /\ \A j, k \in 1 .. n : j < k => f[j] < f[k]
      /\ \A k \in 1 .. n : entries[k] = EntryOf(w, seen[f[k]])
      /\ \A i \in Passed(w, seen) : (\E k \in 1 .. n : f[k] = i) \/ Stale(EntryOf(w, seen[i]), now)
  BY <1>1 DEF Tells
<1> HIDE DEF all
<1>3. /\ Passed(w, seen) \subseteq 1 .. m
      /\ Passed(w, all) = Passed(w, seen) \cup (IF InWindow(w, new.answer) THEN {m + 1} ELSE {})
  BY <1>1 DEF Passed
<1>4. \A k \in 1 .. n : f[k] \in 1 .. m
  BY <1>2, <1>3
<1>5. ASSUME ~InWindow(w, new.answer) PROVE Tells(w, entries, all, f, now)
  <2>1. Passed(w, all) = Passed(w, seen)
    BY <1>3, <1>5
  <2> HIDE DEF n, m
  <2> QED BY <1>1, <1>2, <1>3, <1>4, <2>1 DEF Tells
<1>6. ASSUME InWindow(w, new.answer)
      PROVE  more \in Seq(Entry) /\ \E g : Tells(w, more, all, g, now)
  <2>1. entry \in Entry
    BY DEF EntryOf, Entry, Answered, Clocks, IsHit, Answers, Windows
  <2> HIDE DEF entry
  <2>2. /\ more \in Seq(Entry) /\ DOMAIN more = 1 .. n + 1 /\ more[n + 1] = entry
        /\ \A k \in 1 .. n : more[k] = entries[k]
    BY <2>1
  <2> HIDE DEF more, n, m
  <2> DEFINE g == [k \in 1 .. n + 1 |-> IF k = n + 1 THEN m + 1 ELSE f[k]]
  <2>3. g[n + 1] = m + 1 /\ \A k \in 1 .. n : g[k] = f[k]
    BY <1>1
  <2>4. g \in [1 .. n + 1 -> Passed(w, all)]
    <3>1. \A k \in 1 .. n + 1 : k # n + 1 => k \in 1 .. n
      BY <1>1
    <3> QED BY <1>2, <1>3, <1>6, <3>1
  <2> HIDE DEF g
  <2>5. \A j, k \in 1 .. n + 1 : j < k => g[j] < g[k]
    <3> SUFFICES ASSUME NEW j \in 1 .. n + 1, NEW k \in 1 .. n + 1, j < k PROVE g[j] < g[k]
      OBVIOUS
    <3>1. j \in 1 .. n
      BY <1>1
    <3>2. CASE k = n + 1
      BY <1>1, <1>4, <2>3, <3>1, <3>2
    <3>3. CASE k # n + 1
      <4>1. k \in 1 .. n
        BY <1>1, <3>3
      <4> QED BY <1>2, <2>3, <3>1, <4>1
    <3> QED BY <3>2, <3>3
  <2>6. \A k \in 1 .. n + 1 : more[k] = EntryOf(w, all[g[k]])
    <3>1. \A k \in 1 .. n + 1 : k = n + 1 \/ k \in 1 .. n
      BY <1>1
    <3>2. \A k \in 1 .. n : all[g[k]] = seen[f[k]]
      BY <1>1, <1>4, <2>3
    <3> QED BY <1>1, <1>2, <2>2, <2>3, <3>1, <3>2 DEF entry
  <2>7. \A i \in Passed(w, all) : (\E k \in 1 .. n + 1 : g[k] = i) \/ Stale(EntryOf(w, all[i]), now)
    <3> SUFFICES ASSUME NEW i \in Passed(w, all), ~Stale(EntryOf(w, all[i]), now)
                 PROVE  \E k \in 1 .. n + 1 : g[k] = i
      OBVIOUS
    <3>1. CASE i = m + 1
      <4>1. n + 1 \in 1 .. n + 1
        BY <1>1
      <4> QED BY <2>3, <3>1, <4>1
    <3>2. CASE i # m + 1
      <4>1. i \in Passed(w, seen) /\ ~Stale(EntryOf(w, seen[i]), now)
        BY <1>1, <1>3, <1>6, <3>2
      <4>2. PICK k \in 1 .. n : f[k] = i
        BY <1>2, <4>1
      <4>3. k \in 1 .. n + 1 /\ g[k] = i
        BY <1>1, <2>3, <4>2
      <4> QED BY <4>3
    <3> QED BY <3>1, <3>2
  <2>8. Tells(w, more, all, g, now)
    BY <2>2, <2>4, <2>5, <2>6, <2>7 DEF Tells
  <2> QED BY <2>2, <2>8
<1> QED BY <1>5, <1>6 DEF all

\* Of each window, what GET /metrics counts; and how the counts fit.
Fresh(w, now) == FreshOf(w, callsSeen, now)
FreshHits(w, now) == HitsOf(w, callsSeen, now)

LEMMA CountsAreExact ==
  ASSUME WatchInv, NEW w \in Windows, NEW now \in Nat, second <= now
  PROVE  /\ Counted(TrimmedCalls(log[w], now)) =
              [total |-> Cardinality(Fresh(w, now)), hits |-> Cardinality(FreshHits(w, now))]
         /\ IsFiniteSet(Fresh(w, now)) /\ Cardinality(Fresh(w, now)) \in 0 .. MaxSeen
         /\ Cardinality(FreshHits(w, now)) \in 0 .. Cardinality(Fresh(w, now))
<1>1. /\ log[w] \in Seq(Entry) /\ callsSeen \in Seq(Answered) /\ OrderOf(w, callsSeen)
      /\ second \in Nat /\ Len(callsSeen) \in 0 .. MaxSeen
      /\ \E f : Tells(w, log[w], callsSeen, f, second)
  BY WatchAssumption DEF WatchInv
<1>2. \E f : Tells(w, log[w], callsSeen, f, now)
  <2>1. PICK f : Tells(w, log[w], callsSeen, f, second)
    BY <1>1
  <2>2. Tells(w, log[w], callsSeen, f, now)
    BY <1>1, <2>1, TellsLater
  <2> QED BY <2>2
<1>3. /\ TrimmedCalls(log[w], now) \in Seq(Entry)
      /\ \E g : Tells(w, TrimmedCalls(log[w], now), callsSeen, g, now)
      /\ \A k \in DOMAIN TrimmedCalls(log[w], now) : ~Stale(TrimmedCalls(log[w], now)[k], now)
  BY <1>1, <1>2, TrimmedTells
<1>4. /\ Counted(TrimmedCalls(log[w], now)) =
           [total |-> Cardinality(Fresh(w, now)), hits |-> Cardinality(FreshHits(w, now))]
      /\ IsFiniteSet(Fresh(w, now)) /\ Cardinality(Fresh(w, now)) \in 0 .. Len(callsSeen)
      /\ Cardinality(FreshHits(w, now)) \in 0 .. Cardinality(Fresh(w, now))
  BY <1>1, <1>3, FreshIsExact DEF Fresh, FreshHits
<1> QED BY <1>1, <1>4, WatchAssumption

LEMMA MomentsAreLater ==
  ASSUME WatchInv, NEW end \in second .. MaxWatchTime, NEW now \in Moments(end)
  PROVE  /\ now \in Clocks /\ now["suspects"] \in 0 .. MaxWatchTime
         /\ \A w \in Windows : /\ now[w] \in Nat /\ second <= now[w]
                               /\ now[w] <= now["suspects"]
<1>1. second \in Nat /\ MaxWatchTime \in Nat
  BY WatchAssumption DEF WatchInv
<1>2. /\ now \in [Windows -> second .. end]
      /\ now["calls"] <= now["verdicts"] /\ now["verdicts"] <= now["suspects"]
  BY DEF Moments
<1>3. \A w \in Windows : now[w] \in Nat /\ second <= now[w] /\ now[w] <= MaxWatchTime
  BY <1>1, <1>2
<1>4. now \in [Windows -> Nat]
  BY <1>2, <1>3
<1>5. \A w \in Windows : w = "calls" \/ w = "verdicts" \/ w = "suspects"
  BY DEF Windows
<1>6. "calls" \in Windows /\ "verdicts" \in Windows /\ "suspects" \in Windows
  BY DEF Windows
<1>7. now["suspects"] \in 0 .. MaxWatchTime
  BY <1>1, <1>3, <1>6
<1>8. \A w \in Windows : now[w] <= now["suspects"]
  BY <1>2, <1>3, <1>5, <1>6
<1> QED BY <1>2, <1>3, <1>4, <1>7, <1>8 DEF Clocks

LEMMA CountsFit ==
  ASSUME WatchInv, NEW end \in second .. MaxWatchTime, NEW now \in Moments(end)
  PROVE  /\ now["verdicts"] = now["suspects"] =>
              Cardinality(Fresh("verdicts", now["verdicts"])) <=
                Cardinality(Fresh("suspects", now["suspects"]))
         /\ (\A i \in DOMAIN callsSeen :
                 callsSeen[i].at["calls"] = callsSeen[i].at["suspects"]) =>
              Cardinality(Fresh("suspects", now["suspects"])) <=
                Cardinality(Fresh("calls", now["calls"]))
                  - Cardinality(FreshHits("calls", now["calls"]))
<1> DEFINE C == Fresh("calls", now["calls"])
           H == FreshHits("calls", now["calls"])
           V == Fresh("verdicts", now["verdicts"])
           S == Fresh("suspects", now["suspects"])
<1>1. \A i \in DOMAIN callsSeen :
        /\ callsSeen[i].answer \in Answers /\ callsSeen[i].at \in Clocks
        /\ \A w \in Windows : callsSeen[i].at[w] \in Nat
  <2>1. \A i \in DOMAIN callsSeen : callsSeen[i] \in Answered
    BY DEF WatchInv
  <2> QED BY <2>1 DEF Answered, Clocks
<1>2. "calls" \in Windows /\ "verdicts" \in Windows /\ "suspects" \in Windows
  BY DEF Windows
<1>3. /\ now["calls"] \in Nat /\ now["verdicts"] \in Nat /\ now["suspects"] \in Nat
      /\ now["calls"] <= now["suspects"]
      /\ second <= now["calls"] /\ second <= now["verdicts"] /\ second <= now["suspects"]
  BY <1>2, MomentsAreLater
<1>4. IsFiniteSet(C) /\ IsFiniteSet(V) /\ IsFiniteSet(S)
  BY <1>2, <1>3, CountsAreExact
<1>5. ASSUME now["verdicts"] = now["suspects"] PROVE Cardinality(V) <= Cardinality(S)
  <2>1. V \in SUBSET S
    <3> SUFFICES ASSUME NEW i \in V PROVE i \in S
      OBVIOUS
    <3>1. i \in DOMAIN callsSeen /\ Compared(callsSeen[i].answer)
      BY DEF Fresh, FreshOf, Passed, InWindow
    <3>2. Suspected(callsSeen[i].answer)
      BY <1>1, <3>1 DEF Compared, Suspected, Answers
    <3>3. callsSeen[i].at["verdicts"] <= callsSeen[i].at["suspects"]
      BY <1>1, <3>1 DEF Clocks
    <3>4. ~(callsSeen[i].at["verdicts"] + WatchWindow < now["verdicts"])
      BY DEF Fresh, FreshOf, EntryOf, Stale
    <3>5. ~(callsSeen[i].at["suspects"] + WatchWindow < now["suspects"])
      BY <1>1, <1>2, <1>3, <1>5, <3>1, <3>3, <3>4, WatchAssumption
    <3> QED BY <3>1, <3>2, <3>5 DEF Fresh, FreshOf, Passed, InWindow, EntryOf, Stale
  <2> HIDE DEF V, S
  <2> QED BY <1>4, <2>1, SubsetSize
<1>6. ASSUME \A i \in DOMAIN callsSeen :
                 callsSeen[i].at["calls"] = callsSeen[i].at["suspects"]
      PROVE  Cardinality(S) <= Cardinality(C) - Cardinality(H)
  <2>1. S \in SUBSET C
    <3> SUFFICES ASSUME NEW i \in S PROVE i \in C
      OBVIOUS
    <3>1. i \in DOMAIN callsSeen
      BY DEF Fresh, FreshOf, Passed
    <3>2. ~(callsSeen[i].at["suspects"] + WatchWindow < now["suspects"])
      BY DEF Fresh, FreshOf, EntryOf, Stale
    <3>3. ~(callsSeen[i].at["calls"] + WatchWindow < now["calls"])
      BY <1>1, <1>2, <1>3, <1>6, <3>1, <3>2, WatchAssumption
    <3> QED BY <3>1, <3>3 DEF Fresh, FreshOf, Passed, InWindow, EntryOf, Stale
  <2>2. H \in SUBSET C /\ S \cap H = {}
    BY <1>1 DEF Fresh, FreshHits, FreshOf, HitsOf, Passed, InWindow, IsHit, Suspected, Answers
  <2>3. S \cup H \in SUBSET C
    BY <2>1, <2>2
  <2> HIDE DEF C, H, S
  <2>4. IsFiniteSet(H) /\ Cardinality(H) \in Nat
    BY <1>4, <2>2, SubsetSize
  <2>5. Cardinality(S) \in Nat /\ Cardinality(C) \in Nat /\ Cardinality(S \cup H) <= Cardinality(C)
    BY <1>4, <2>3, SubsetSize, FS_CardinalityType
  <2>6. Cardinality(S \cup H) = Cardinality(S) + Cardinality(H) - Cardinality({})
    BY <1>4, <2>2, <2>4, FS_Union
  <2> QED BY <2>4, <2>5, <2>6, FS_EmptySet
<1> QED BY <1>5, <1>6

LEMMA WatchInitially == WatchInit => WatchInv
<1> SUFFICES ASSUME WatchInit PROVE WatchInv
  OBVIOUS
<1>1. \A w \in Windows : Tells(w, log[w], callsSeen, [k \in {} |-> 0], second)
  BY DEF WatchInit, Tells, Passed
<1>2. metrics \in [Windows -> Count]
  BY WatchAssumption DEF WatchInit, NoMetrics, Count
<1>3. second \in 0 .. MaxWatchTime /\ Len(callsSeen) <= MaxSeen /\ callsSeen \in Seq(Answered)
  BY WatchAssumption DEF WatchInit
<1> QED BY <1>1, <1>2, <1>3 DEF WatchInit, WatchInv, OrderOf, NoneIsLate, AllFallbacksWarn

\* The windows after an answer, and after a read.
LEMMA RecordingKeeps ==
  ASSUME WatchInv, NEW answer \in Answers, NEW end \in second .. MaxWatchTime,
         NEW now \in Moments(end), RecordAnswer(answer, now)
  PROVE  WatchInv'
<1> DEFINE new == [at |-> now, answer |-> answer]
           m == Len(callsSeen)
<1>0. /\ now \in Clocks /\ now["suspects"] \in 0 .. MaxWatchTime
      /\ \A w \in Windows : now[w] \in Nat /\ second <= now[w] /\ now[w] <= now["suspects"]
  BY MomentsAreLater
<1>1. /\ callsSeen \in Seq(Answered)
      /\ \A w \in Windows : OrderOf(w, callsSeen) /\ NoneIsLate(w, callsSeen, second)
      /\ second \in Nat /\ second \in 0 .. MaxWatchTime /\ new \in Answered
      /\ second' = now["suspects"] /\ second' \in Nat /\ metrics' = metrics
      /\ callsSeen' = Append(callsSeen, new) /\ m < MaxSeen /\ m \in Nat
  BY <1>0, WatchAssumption DEF WatchInv, RecordAnswer, Answered
<1> HIDE DEF new
<1>2. new.at = now /\ new.answer = answer
  BY DEF new
<1>3. /\ callsSeen' \in Seq(Answered) /\ Len(callsSeen') = m + 1 /\ Len(callsSeen') <= MaxSeen
      /\ callsSeen'[m + 1] = new /\ \A i \in 1 .. m : callsSeen'[i] = callsSeen[i]
      /\ DOMAIN callsSeen' = 1 .. m + 1 /\ DOMAIN callsSeen = 1 .. m
  BY <1>1, WatchAssumption
<1> HIDE DEF m
<1>4. ASSUME NEW w \in Windows
      PROVE  /\ OrderOf(w, callsSeen') /\ NoneIsLate(w, callsSeen', now[w])
             /\ NoneIsLate(w, callsSeen', second')
  <2>1. \A i \in 1 .. m + 1 : i = m + 1 \/ i \in 1 .. m
    BY <1>1
  <2>2. \A i \in 1 .. m : callsSeen[i].at[w] <= second
    BY <1>1, <1>3 DEF NoneIsLate
  <2>3. \A i \in 1 .. m + 1 : callsSeen'[i].at[w] \in Nat
    BY <1>3, ClocksAreNumbers
  <2>4. \A i \in 1 .. m + 1 : callsSeen'[i].at[w] <= now[w]
    BY <1>0, <1>1, <1>2, <1>3, <2>1, <2>2, <2>3
  <2>5. \A i \in 1 .. m + 1 : callsSeen'[i].at[w] <= second'
    <3>1. now[w] \in Nat /\ second' \in Nat /\ now[w] <= second'
      BY <1>0, <1>1
    <3> SUFFICES ASSUME NEW i \in 1 .. m + 1 PROVE callsSeen'[i].at[w] <= second'
      OBVIOUS
    <3>2. callsSeen'[i].at[w] \in Nat /\ callsSeen'[i].at[w] <= now[w]
      BY <2>3, <2>4
    <3> QED BY <3>1, <3>2
  <2>6. \A j, k \in 1 .. m + 1 : j <= k => callsSeen'[j].at[w] <= callsSeen'[k].at[w]
    <3> SUFFICES ASSUME NEW j \in 1 .. m + 1, NEW k \in 1 .. m + 1, j <= k
                 PROVE  callsSeen'[j].at[w] <= callsSeen'[k].at[w]
      OBVIOUS
    <3>1. CASE k = m + 1
      BY <1>2, <1>3, <2>4, <3>1
    <3>2. CASE k # m + 1
      <4>1. k \in 1 .. m /\ j \in 1 .. m
        BY <1>1, <3>2
      <4> QED BY <1>1, <1>3, <4>1 DEF OrderOf
    <3> QED BY <3>1, <3>2
  <2> QED BY <1>3, <2>4, <2>5, <2>6 DEF OrderOf, NoneIsLate
<1>5. ASSUME NEW w \in Windows
      PROVE  log'[w] = IF InWindow(w, answer)
                       THEN TrimmedCalls(Append(log[w], EntryOf(w, new)), now[w]) ELSE log[w]
  <2>1. EntryOf(w, new) = [at |-> now[w], hit |-> IsHit(w, answer)]
    BY <1>2 DEF EntryOf
  <2>2. w \in {"calls", "verdicts", "suspects"}
    BY DEF Windows
  <2>3. /\ IsHit("calls", answer) = answer.fallback /\ IsHit("verdicts", answer) = answer.differs
        /\ IsHit("suspects", answer) = answer.suspect
    BY DEF IsHit, Answers
  <2>4. /\ InWindow("calls", answer) /\ (InWindow("verdicts", answer) <=> Compared(answer))
        /\ (InWindow("suspects", answer) <=> Suspected(answer))
    BY DEF InWindow
  <2>5. log' = [calls |-> Added("calls", answer.fallback, now["calls"]),
                verdicts |-> IF Compared(answer)
                             THEN Added("verdicts", answer.differs, now["verdicts"])
                             ELSE log["verdicts"],
                suspects |-> IF Suspected(answer)
                             THEN Added("suspects", answer.suspect, now["suspects"])
                             ELSE log["suspects"]]
    BY DEF RecordAnswer
  <2>6. CASE w = "calls"
    BY <2>1, <2>3, <2>4, <2>5, <2>6 DEF Added
  <2>7. CASE w = "verdicts"
    BY <2>1, <2>3, <2>4, <2>5, <2>7 DEF Added
  <2>8. CASE w = "suspects"
    BY <2>1, <2>3, <2>4, <2>5, <2>8 DEF Added
  <2> QED BY <2>2, <2>6, <2>7, <2>8
<1>6. ASSUME NEW w \in Windows
      PROVE  /\ log'[w] \in Seq(Entry)
             /\ \E f : Tells(w, log'[w], callsSeen', f, second')
             /\ \A i \in DOMAIN log'[w] :
                    log'[w][i].at + WatchWindow >= log'[w][Len(log'[w])].at
             /\ InWindow(w, answer) =>
                    /\ \E f : Tells(w, log'[w], callsSeen', f, now[w])
                    /\ \A i \in DOMAIN log'[w] : ~Stale(log'[w][i], now[w])
  <2>0. now[w] \in Nat /\ second <= now[w] /\ now[w] <= second'
    BY <1>0, <1>1
  <2>1. PICK f : Tells(w, log[w], callsSeen, f, second)
    BY DEF WatchInv
  <2>2. /\ log[w] \in Seq(Entry)
        /\ \A i \in DOMAIN log[w] : log[w][i].at + WatchWindow >= log[w][Len(log[w])].at
    BY DEF WatchInv
  <2>3. Tells(w, log[w], callsSeen, f, now[w])
    BY <1>1, <2>0, <2>1, TellsLater
  <2>4. CASE ~InWindow(w, answer)
    <3>1. Tells(w, log[w], Append(callsSeen, new), f, now[w])
      BY <1>1, <1>2, <2>0, <2>2, <2>3, <2>4, NewIsTold
    <3>2. Tells(w, log'[w], callsSeen', f, now[w])
      BY <1>1, <1>5, <2>4, <3>1
    <3>3. Tells(w, log'[w], callsSeen', f, second')
      BY <1>1, <1>3, <2>0, <3>2, TellsLater
    <3> QED BY <1>5, <2>2, <2>4, <3>3
  <2>5. CASE InWindow(w, answer)
    <3> DEFINE more == Append(log[w], EntryOf(w, new))
               after == Append(callsSeen, new)
               T == TrimmedCalls(more, now[w])
    <3>1. more \in Seq(Entry) /\ \E g : Tells(w, more, after, g, now[w])
      BY <1>1, <1>2, <2>0, <2>2, <2>3, <2>5, NewIsTold
    <3>2. after \in Seq(Answered) /\ OrderOf(w, after) /\ NoneIsLate(w, after, now[w])
      BY <1>1, <1>3, <1>4
    <3> HIDE DEF more, after
    <3>3. /\ T \in Seq(Entry) /\ \E g : Tells(w, T, after, g, now[w])
          /\ \A k \in DOMAIN T : ~Stale(T[k], now[w])
      BY <2>0, <3>1, <3>2, TrimmedTells
    <3> HIDE DEF T
    <3>4. \A k \in DOMAIN T : T[k].at + WatchWindow >= T[Len(T)].at
      BY <2>0, <3>2, <3>3, FreshSpans
    <3>5. log'[w] = T /\ callsSeen' = after
      BY <1>1, <1>5, <2>5 DEF T, more, after
    <3>6. PICK g : Tells(w, T, after, g, now[w])
      BY <3>3
    <3>7. Tells(w, T, after, g, second')
      BY <1>1, <2>0, <3>2, <3>6, TellsLater
    <3> QED BY <3>3, <3>4, <3>5, <3>6, <3>7
  <2> QED BY <2>4, <2>5
<1>7. DOMAIN log' = Windows /\ log' = [w \in Windows |-> log'[w]]
  BY DEF RecordAnswer, Windows
<1>8. log' \in [Windows -> Seq(Entry)]
  BY <1>6, <1>7
<1>9. warned' = IF Exceeds(Counted(log'["calls"])) THEN warned \cup {m + 1} ELSE warned
  BY DEF RecordAnswer, Warn, m
<1>10. warned' \subseteq 1 .. Len(callsSeen')
  <2>1. warned \subseteq 1 .. m
    BY DEF WatchInv, m
  <2> QED BY <1>1, <1>3, <1>9, <2>1
<1>11. AllFallbacksWarn'
  <2> SUFFICES ASSUME NEW i \in 1 .. m + 1,
                      \A j \in 1 .. i :
                          callsSeen'[j].at["calls"] + WatchWindow >= callsSeen'[i].at["calls"] =>
                              callsSeen'[j].answer.fallback
               PROVE  i \in warned'
    BY <1>3 DEF AllFallbacksWarn
  <2>1. CASE i \in 1 .. m
    <3>1. \A j \in 1 .. i : j \in 1 .. m
      BY <1>1, <2>1
    <3>2. \A j \in 1 .. i :
            callsSeen[j].at["calls"] + WatchWindow >= callsSeen[i].at["calls"] =>
                callsSeen[j].answer.fallback
      BY <1>3, <2>1, <3>1
    <3>3. i \in warned
      BY <1>3, <2>1, <3>2 DEF WatchInv, AllFallbacksWarn
    <3> QED BY <1>9, <3>3
  <2>2. CASE i = m + 1
    <3> DEFINE all == Append(callsSeen, new)
               calls == now["calls"]
               fresh == FreshOf("calls", all, calls)
               hits == HitsOf("calls", all, calls)
    <3>0. "calls" \in Windows /\ InWindow("calls", answer) /\ calls \in Nat
      BY <1>0 DEF Windows, InWindow
    <3>1. all = callsSeen' /\ all \in Seq(Answered) /\ all[m + 1].at["calls"] = calls
      BY <1>1, <1>2, <1>3
    <3>2. \A j \in 1 .. m + 1 : all[j].at["calls"] + WatchWindow >= calls =>
                                    all[j].answer.fallback
      BY <2>2, <3>1
    <3> HIDE DEF all, calls
    <3>3. \A j \in 1 .. m + 1 : all[j].at["calls"] \in Nat
      BY <1>3, <3>0, <3>1, ClocksAreNumbers
    <3>4. \A j \in fresh : j \in 1 .. m + 1 /\ ~(all[j].at["calls"] + WatchWindow < calls)
      BY <1>3, <3>1 DEF FreshOf, Passed, Stale, EntryOf
    <3>5. \A j \in fresh : all[j].answer.fallback
      BY <3>0, <3>2, <3>3, <3>4, WatchAssumption
    <3>6. hits = fresh
      BY <3>5 DEF IsHit, HitsOf
    <3>7. m + 1 \in fresh
      <4>1. ~Stale(EntryOf("calls", all[m + 1]), calls)
        BY <3>0, <3>1, WatchAssumption DEF Stale, EntryOf
      <4> QED BY <1>1, <1>3, <3>1, <4>1 DEF FreshOf, Passed, InWindow
    <3>8. /\ log'["calls"] \in Seq(Entry)
          /\ \E f : Tells("calls", log'["calls"], all, f, calls)
          /\ \A k \in DOMAIN log'["calls"] : ~Stale(log'["calls"][k], calls)
      BY <1>6, <3>0, <3>1 DEF calls
    <3>9. /\ Counted(log'["calls"]) = [total |-> Cardinality(fresh), hits |-> Cardinality(hits)]
          /\ IsFiniteSet(fresh)
      BY <3>0, <3>1, <3>8, FreshIsExact
    <3> HIDE DEF fresh, hits
    <3>10. Cardinality(fresh) \in Nat /\ Cardinality(fresh) # 0
      BY <3>7, <3>9, FS_CardinalityType, FS_EmptySet
    <3>11. \A t \in Nat : t > 0 => Exceeds([total |-> t, hits |-> t])
      BY WatchAssumption DEF Exceeds
    <3>12. Exceeds(Counted(log'["calls"]))
      BY <3>6, <3>9, <3>10, <3>11
    <3> QED BY <1>9, <2>2, <3>12
  <2> QED BY <1>1, <2>1, <2>2
<1>12. second' \in 0 .. MaxWatchTime
  BY <1>0, <1>1
<1>13. metrics' \in [Windows -> Count]
  BY <1>1 DEF WatchInv
<1>14. \A w \in Windows : (OrderOf(w, callsSeen) /\ NoneIsLate(w, callsSeen, second))'
  BY <1>4 DEF NoneIsLate, OrderOf
<1>15. \A w \in Windows : \E f : Tells(w, log[w], callsSeen, f, second)'
  <2> SUFFICES ASSUME NEW w \in Windows PROVE \E f : Tells(w, log[w], callsSeen, f, second)'
    OBVIOUS
  <2>1. PICK f : Tells(w, log'[w], callsSeen', f, second')
    BY <1>6
  <2>2. Tells(w, log[w], callsSeen, f, second)'
    BY <2>1 DEF Tells, Stale
  <2> QED BY <2>2
<1> QED BY <1>3, <1>6, <1>8, <1>10, <1>11, <1>12, <1>13, <1>14, <1>15 DEF WatchInv

LEMMA ReadingKeeps ==
  ASSUME WatchInv, NEW W \in SUBSET Windows, NEW now \in [Windows -> Nat],
         log' = [w \in Windows |-> IF w \in W THEN TrimmedCalls(log[w], now[w]) ELSE log[w]],
         \A w \in Windows : second <= now[w] /\ now[w] <= second',
         second' \in Nat, callsSeen' = callsSeen
  PROVE  /\ log' \in [Windows -> Seq(Entry)]
         /\ \A w \in Windows : NoneIsLate(w, callsSeen, second)'
         /\ \A w \in Windows : \E f : Tells(w, log[w], callsSeen, f, second)'
         /\ \A w \in Windows : \A i \in DOMAIN log'[w] :
                log'[w][i].at + WatchWindow >= log'[w][Len(log'[w])].at
<1>1. /\ log \in [Windows -> Seq(Entry)] /\ callsSeen \in Seq(Answered)
      /\ \A w \in Windows : OrderOf(w, callsSeen) /\ NoneIsLate(w, callsSeen, second)
      /\ second \in Nat
      /\ \A w \in Windows : \E f : Tells(w, log[w], callsSeen, f, second)
  BY WatchAssumption DEF WatchInv
<1>2. ASSUME NEW w \in Windows
      PROVE  NoneIsLate(w, callsSeen, now[w]) /\ NoneIsLate(w, callsSeen, second')
  <2>1. \A k \in DOMAIN callsSeen : callsSeen[k].at[w] \in Nat /\ callsSeen[k].at[w] <= second
    BY <1>1, ClocksAreNumbers DEF NoneIsLate
  <2>2. now[w] \in Nat /\ second <= now[w] /\ now[w] <= second'
    OBVIOUS
  <2> QED BY <1>1, <2>1, <2>2 DEF NoneIsLate
<1>3. ASSUME NEW w \in Windows
      PROVE  /\ log'[w] \in Seq(Entry)
             /\ \E f : Tells(w, log'[w], callsSeen, f, second')
             /\ \A i \in DOMAIN log'[w] :
                    log'[w][i].at + WatchWindow >= log'[w][Len(log'[w])].at
  <2>0. now[w] \in Nat /\ second <= now[w] /\ now[w] <= second' /\ second <= second'
    BY <1>1
  <2>1. PICK f : Tells(w, log[w], callsSeen, f, second)
    BY <1>1
  <2>2. CASE w \notin W
    <3>1. Tells(w, log[w], callsSeen, f, second')
      BY <1>1, <2>0, <2>1, TellsLater
    <3> QED BY <1>1, <2>2, <3>1 DEF WatchInv
  <2>3. CASE w \in W
    <3> DEFINE T == TrimmedCalls(log[w], now[w])
    <3>0. Tells(w, log[w], callsSeen, f, now[w])
      BY <1>1, <2>0, <2>1, TellsLater
    <3>1. /\ T \in Seq(Entry) /\ \E g : Tells(w, T, callsSeen, g, now[w])
          /\ \A k \in DOMAIN T : ~Stale(T[k], now[w])
      BY <1>1, <2>0, <3>0, TrimmedTells
    <3>2. log'[w] = T
      BY <2>3
    <3> HIDE DEF T
    <3>3. \A k \in DOMAIN T : T[k].at + WatchWindow >= T[Len(T)].at
      BY <1>1, <1>2, <2>0, <3>1, FreshSpans
    <3>4. PICK g : Tells(w, T, callsSeen, g, now[w])
      BY <3>1
    <3>5. Tells(w, T, callsSeen, g, second')
      BY <1>1, <2>0, <3>4, TellsLater
    <3> QED BY <3>1, <3>2, <3>3, <3>5
  <2> QED BY <2>2, <2>3
<1>4. \A w \in Windows : \E f : Tells(w, log[w], callsSeen, f, second)'
  <2> SUFFICES ASSUME NEW w \in Windows PROVE \E f : Tells(w, log[w], callsSeen, f, second)'
    OBVIOUS
  <2>1. PICK f : Tells(w, log'[w], callsSeen, f, second')
    BY <1>3
  <2>2. Tells(w, log[w], callsSeen, f, second)'
    BY <2>1 DEF Tells, Stale
  <2> QED BY <2>2
<1>5. \A w \in Windows : NoneIsLate(w, callsSeen, second)'
  BY <1>2 DEF NoneIsLate
<1> QED BY <1>1, <1>3, <1>4, <1>5

LEMMA WatchNextKeeps == WatchInv /\ [WatchNext]_watchVars => WatchInv'
<1> SUFFICES ASSUME WatchInv, [WatchNext]_watchVars PROVE WatchInv'
  OBVIOUS
<1>1. CASE UNCHANGED watchVars
  <2>1. \A w \in Windows : \E f : Tells(w, log[w], callsSeen, f, second)'
    <3> SUFFICES ASSUME NEW w \in Windows
                 PROVE  \E f : Tells(w, log[w], callsSeen, f, second)'
      OBVIOUS
    <3>1. PICK f : Tells(w, log[w], callsSeen, f, second)
      BY DEF WatchInv
    <3>2. Tells(w, log[w], callsSeen, f, second)'
      BY <1>1, <3>1 DEF Tells, Stale, watchVars
    <3> QED BY <3>2
  <2> QED BY <1>1, <2>1 DEF watchVars, WatchInv, OrderOf, NoneIsLate, AllFallbacksWarn
<1>2. CASE WatchTick
  <2>1. /\ second \in Nat /\ second' = second + 1 /\ second' \in 0 .. MaxWatchTime
        /\ second' \in Nat
        /\ UNCHANGED <<log, callsSeen, warned, metrics>>
    BY <1>2, WatchAssumption DEF WatchTick, WatchInv
  <2> DEFINE W == {}
             now == [w \in Windows |-> second]
  <2>3. /\ now \in [Windows -> Nat] /\ W \in SUBSET Windows
        /\ \A w \in Windows : second <= now[w] /\ now[w] <= second'
    BY <2>1
  <2>4. log' = [w \in Windows |-> IF w \in W THEN TrimmedCalls(log[w], now[w]) ELSE log[w]]
    BY <2>1 DEF WatchInv
  <2> HIDE DEF now, W
  <2>5. /\ log' \in [Windows -> Seq(Entry)]
        /\ \A w \in Windows : NoneIsLate(w, callsSeen, second)'
        /\ \A w \in Windows : \E f : Tells(w, log[w], callsSeen, f, second)'
        /\ \A w \in Windows : \A i \in DOMAIN log'[w] :
               log'[w][i].at + WatchWindow >= log'[w][Len(log'[w])].at
    BY <2>1, <2>3, <2>4, ReadingKeeps
  <2> QED BY <2>1, <2>5 DEF WatchInv, OrderOf, AllFallbacksWarn
<1>3. ASSUME NEW end \in second .. MaxWatchTime, NEW now \in Moments(end), ReadAll(now)
      PROVE  WatchInv'
  <2>1. /\ log' = [w \in Windows |-> TrimmedCalls(log[w], now[w])]
        /\ metrics' = [w \in Windows |-> Counted(log'[w])]
        /\ second' = now["suspects"]
        /\ UNCHANGED <<callsSeen, warned>>
    BY <1>3 DEF ReadAll
  <2>2. log' = [w \in Windows |-> IF w \in Windows THEN TrimmedCalls(log[w], now[w]) ELSE log[w]]
    BY <2>1
  <2>3. /\ now \in [Windows -> Nat] /\ second' \in Nat /\ second' \in 0 .. MaxWatchTime
        /\ \A w \in Windows : now[w] \in Nat /\ second <= now[w] /\ now[w] <= second'
    BY <2>1, MomentsAreLater DEF Clocks
  <2>4. /\ log' \in [Windows -> Seq(Entry)]
        /\ \A w \in Windows : NoneIsLate(w, callsSeen, second)'
        /\ \A w \in Windows : \E f : Tells(w, log[w], callsSeen, f, second)'
        /\ \A w \in Windows : \A i \in DOMAIN log'[w] :
               log'[w][i].at + WatchWindow >= log'[w][Len(log'[w])].at
    BY <2>1, <2>2, <2>3, ReadingKeeps
  <2>5. metrics' \in [Windows -> Count]
    <3>1. \A w \in Windows : metrics'[w] \in Count
      <4> SUFFICES ASSUME NEW w \in Windows PROVE metrics'[w] \in Count
        OBVIOUS
      <4>1. \A t \in 0 .. MaxSeen : \A h \in 0 .. t : [total |-> t, hits |-> h] \in Count
        BY WatchAssumption DEF Count
      <4>2. metrics'[w] = Counted(TrimmedCalls(log[w], now[w]))
        BY <2>1
      <4> DEFINE t == Cardinality(Fresh(w, now[w]))
                 h == Cardinality(FreshHits(w, now[w]))
      <4>3. metrics'[w] = [total |-> t, hits |-> h] /\ t \in 0 .. MaxSeen /\ h \in 0 .. t
        BY <2>3, <4>2, CountsAreExact
      <4> HIDE DEF t, h
      <4> QED BY <4>1, <4>3
    <3> QED BY <2>1, <3>1
  <2> QED BY <2>1, <2>3, <2>4, <2>5 DEF WatchInv, OrderOf, AllFallbacksWarn
<1>4. ASSUME NEW answer \in Answers, NEW end \in second .. MaxWatchTime,
             NEW now \in Moments(end), RecordAnswer(answer, now)
      PROVE  WatchInv'
  BY <1>4, RecordingKeeps
<1>5. ASSUME NEW v \in Windows, Read(v) PROVE WatchInv'
  <2>1. /\ log' = [log EXCEPT ![v] = TrimmedCalls(log[v], second)]
        /\ UNCHANGED <<second, callsSeen, warned, metrics>> /\ second \in Nat
    BY <1>5, WatchAssumption DEF Read, WatchInv
  <2> DEFINE W == {v}
             now == [w \in Windows |-> second]
  <2>2. log' = [w \in Windows |-> IF w \in W THEN TrimmedCalls(log[w], now[w]) ELSE log[w]]
    BY <2>1 DEF WatchInv
  <2>3. /\ now \in [Windows -> Nat] /\ second' \in Nat /\ W \in SUBSET Windows
        /\ \A w \in Windows : second <= now[w] /\ now[w] <= second'
    BY <2>1
  <2> HIDE DEF now, W
  <2>4. /\ log' \in [Windows -> Seq(Entry)]
        /\ \A w \in Windows : \E f : Tells(w, log[w], callsSeen, f, second)'
        /\ \A w \in Windows : \A i \in DOMAIN log'[w] :
               log'[w][i].at + WatchWindow >= log'[w][Len(log'[w])].at
    BY <2>1, <2>2, <2>3, ReadingKeeps
  <2> QED BY <2>1, <2>4 DEF WatchInv, OrderOf, NoneIsLate, AllFallbacksWarn
<1> QED BY <1>1, <1>2, <1>3, <1>4, <1>5 DEF WatchNext

\* What GET /metrics answers is exact.
LEMMA MetricsStayExact ==
  ASSUME WatchInv, NEW end \in second .. MaxWatchTime, NEW now \in Moments(end), ReadAll(now)
  PROVE  /\ metrics' =
              [calls |->
                 [total |-> Where("calls", now, Answers),
                  hits |-> Where("calls", now, {a \in Answers : a.fallback})],
               verdicts |->
                 [total |-> Where("verdicts", now, {a \in Answers : ~a.fallback /\ a.verdicts}),
                  hits |-> Where("verdicts", now, {a \in Answers : ~a.fallback /\ a.differs})],
               suspects |->
                 [total |-> Where("suspects", now, {a \in Answers : ~a.fallback /\ a.pivot}),
                  hits |-> Where("suspects", now, {a \in Answers : ~a.fallback /\ a.suspect})]]
         /\ \A w \in Windows :
              metrics'[w] = [total |-> Cardinality(Fresh(w, now[w])),
                             hits |-> Cardinality(FreshHits(w, now[w]))]
<1> DEFINE before(w) == RecentEntries(w, now)
<1>1. \A i \in DOMAIN callsSeen : callsSeen[i] \in Answered
  BY DEF WatchInv
<1>2. \A i \in DOMAIN callsSeen :
        /\ callsSeen[i].answer \in Answers
        /\ \A w \in Windows : callsSeen[i].at[w] \in Nat
  BY <1>1 DEF Answered, Clocks
<1>3. \A w \in Windows : now[w] \in Nat /\ second <= now[w]
  BY MomentsAreLater
<1>4. \A w \in Windows : \A i \in DOMAIN callsSeen :
        ~Stale(EntryOf(w, callsSeen[i]), now[w]) <=>
           callsSeen[i].at[w] + WatchWindow >= now[w]
  BY <1>2, <1>3, WatchAssumption DEF Stale, EntryOf
<1>5. \A w \in Windows :
        before(w) = {i \in DOMAIN callsSeen : ~Stale(EntryOf(w, callsSeen[i]), now[w])}
  BY <1>4 DEF RecentEntries
<1>6. "calls" \in Windows /\ "verdicts" \in Windows /\ "suspects" \in Windows
  BY DEF Windows
<1>7. \A w \in Windows : /\ before(w) \subseteq DOMAIN callsSeen
                         /\ Fresh(w, now[w]) = {i \in before(w) : InWindow(w, callsSeen[i].answer)}
  BY <1>5 DEF Fresh, FreshOf, Passed
<1> HIDE DEF before
<1>8. /\ Fresh("calls", now["calls"]) =
           {i \in before("calls") : callsSeen[i].answer \in Answers}
      /\ FreshHits("calls", now["calls"]) =
           {i \in before("calls") : callsSeen[i].answer \in {a \in Answers : a.fallback}}
  BY <1>2, <1>6, <1>7 DEF Fresh, FreshHits, FreshOf, HitsOf, InWindow, IsHit
<1>9. /\ Fresh("verdicts", now["verdicts"]) =
           {i \in before("verdicts") :
               callsSeen[i].answer \in {a \in Answers : ~a.fallback /\ a.verdicts}}
      /\ FreshHits("verdicts", now["verdicts"]) =
           {i \in before("verdicts") :
               callsSeen[i].answer \in {a \in Answers : ~a.fallback /\ a.differs}}
  <2>1. Fresh("verdicts", now["verdicts"]) =
           {i \in before("verdicts") :
               callsSeen[i].answer \in {a \in Answers : ~a.fallback /\ a.verdicts}}
    BY <1>2, <1>6, <1>7 DEF InWindow, Compared
  <2> QED BY <1>2, <1>6, <1>7, <2>1 DEF Fresh, FreshHits, FreshOf, HitsOf, IsHit, Answers
<1>10. /\ Fresh("suspects", now["suspects"]) =
           {i \in before("suspects") :
               callsSeen[i].answer \in {a \in Answers : ~a.fallback /\ a.pivot}}
      /\ FreshHits("suspects", now["suspects"]) =
           {i \in before("suspects") :
               callsSeen[i].answer \in {a \in Answers : ~a.fallback /\ a.suspect}}
  <2>1. Fresh("suspects", now["suspects"]) =
           {i \in before("suspects") :
               callsSeen[i].answer \in {a \in Answers : ~a.fallback /\ a.pivot}}
    BY <1>2, <1>6, <1>7 DEF InWindow, Suspected
  <2> QED BY <1>2, <1>6, <1>7, <2>1 DEF Fresh, FreshHits, FreshOf, HitsOf, IsHit, Answers
<1>11. metrics' = [w \in Windows |-> [total |-> Cardinality(Fresh(w, now[w])),
                                      hits |-> Cardinality(FreshHits(w, now[w]))]]
  <2>1. /\ log' = [w \in Windows |-> TrimmedCalls(log[w], now[w])]
        /\ metrics' = [w \in Windows |-> Counted(log'[w])]
    BY DEF ReadAll
  <2> QED BY <1>3, <2>1, CountsAreExact
<1>12. metrics' =
         [calls |-> [total |-> Cardinality(Fresh("calls", now["calls"])),
                     hits |-> Cardinality(FreshHits("calls", now["calls"]))],
          verdicts |-> [total |-> Cardinality(Fresh("verdicts", now["verdicts"])),
                        hits |-> Cardinality(FreshHits("verdicts", now["verdicts"]))],
          suspects |-> [total |-> Cardinality(Fresh("suspects", now["suspects"])),
                        hits |-> Cardinality(FreshHits("suspects", now["suspects"]))]]
  BY <1>11 DEF Windows
<1> QED BY <1>8, <1>9, <1>10, <1>11, <1>12 DEF Where, before

\* Types of the windows and of what is counted.
LEMMA WatchInvGivesTypes == WatchInv => WatchTypeOK
<1> SUFFICES ASSUME WatchInv PROVE WatchTypeOK
  OBVIOUS
<1>1. ASSUME NEW w \in Windows, NEW i \in DOMAIN log[w]
      PROVE  /\ log[w][i].at \in 0 .. second
             /\ log[w][i].at + WatchWindow >= Last(log[w]).at
  <2>1. log[w] \in Seq(Entry) /\ log[w][i] \in Entry
    BY DEF WatchInv
  <2>2. PICK f : Tells(w, log[w], callsSeen, f, second)
    BY DEF WatchInv
  <2>3. f[i] \in DOMAIN callsSeen /\ log[w][i].at = callsSeen[f[i]].at[w]
    <3>1. f[i] \in Passed(w, callsSeen) /\ log[w][i] = EntryOf(w, callsSeen[f[i]])
      BY <2>2 DEF Tells
    <3> QED BY <3>1 DEF Passed, EntryOf
  <2>4. log[w][i].at <= second
    BY <2>3 DEF WatchInv, NoneIsLate
  <2>5. log[w][i].at \in Nat /\ second \in Nat
    BY <2>1, WatchAssumption DEF Entry, WatchInv
  <2> QED BY <2>4, <2>5 DEF WatchInv, Last
<1> QED BY <1>1 DEF WatchInv, WatchTypeOK

\* GET /metrics counts, of each window, the answers it took in its length before its own
\* reading of the clock, exactly; the counts fit together as far as the clocks do; and a
\* fallback after nothing but fallbacks in the window warns, for every window, share and
\* any number of answers: WatchHolds, of _record_llm_call and its kin.
THEOREM WatchStaysExact == WatchSpec => WatchHolds
<1> DEFINE Exact ==
             \A now \in Moments(second') : ReadAll(now) => metrics' =
               [calls |->
                  [total |-> Where("calls", now, Answers),
                   hits |-> Where("calls", now, {a \in Answers : a.fallback})],
                verdicts |->
                  [total |-> Where("verdicts", now, {a \in Answers : ~a.fallback /\ a.verdicts}),
                   hits |-> Where("verdicts", now, {a \in Answers : ~a.fallback /\ a.differs})],
                suspects |->
                  [total |-> Where("suspects", now, {a \in Answers : ~a.fallback /\ a.pivot}),
                   hits |-> Where("suspects", now, {a \in Answers : ~a.fallback /\ a.suspect})]]
           Fit ==
             \A now \in Moments(second') : ReadAll(now) =>
               /\ now["verdicts"] = now["suspects"] =>
                     metrics'["verdicts"].total <= metrics'["suspects"].total
               /\ (\A i \in DOMAIN callsSeen :
                      callsSeen[i].at["calls"] = callsSeen[i].at["suspects"]) =>
                     metrics'["suspects"].total <= metrics'["calls"].total - metrics'["calls"].hits
<1>0. ASSUME WatchInv, WatchInv', NEW now \in Moments(second')
      PROVE  second' \in second .. MaxWatchTime
  <2>1. "suspects" \in Windows /\ now \in [Windows -> second .. second']
    BY <1>0 DEF Windows, Moments
  <2>2. now["suspects"] \in second .. second'
    BY <2>1
  <2> QED BY <1>0, <2>2, WatchAssumption DEF WatchInv
<1>1. WatchInv /\ WatchInv' => Exact
  BY <1>0, MetricsStayExact
<1>2. WatchInv /\ WatchInv' => Fit
  <2> SUFFICES ASSUME WatchInv, WatchInv', NEW now \in Moments(second'), ReadAll(now)
               PROVE  /\ now["verdicts"] = now["suspects"] =>
                            metrics'["verdicts"].total <= metrics'["suspects"].total
                      /\ (\A i \in DOMAIN callsSeen :
                             callsSeen[i].at["calls"] = callsSeen[i].at["suspects"]) =>
                            metrics'["suspects"].total
                              <= metrics'["calls"].total - metrics'["calls"].hits
    OBVIOUS
  <2>0. second' \in second .. MaxWatchTime
    BY <1>0
  <2>1. \A w \in Windows : metrics'[w] = [total |-> Cardinality(Fresh(w, now[w])),
                                          hits |-> Cardinality(FreshHits(w, now[w]))]
    BY <2>0, MetricsStayExact
  <2>2. "calls" \in Windows /\ "verdicts" \in Windows /\ "suspects" \in Windows
    BY DEF Windows
  <2>3. /\ metrics'["calls"].total = Cardinality(Fresh("calls", now["calls"]))
        /\ metrics'["calls"].hits = Cardinality(FreshHits("calls", now["calls"]))
        /\ metrics'["verdicts"].total = Cardinality(Fresh("verdicts", now["verdicts"]))
        /\ metrics'["suspects"].total = Cardinality(Fresh("suspects", now["suspects"]))
    <3>1. /\ metrics'["calls"] = [total |-> Cardinality(Fresh("calls", now["calls"])),
                                  hits |-> Cardinality(FreshHits("calls", now["calls"]))]
          /\ metrics'["verdicts"] = [total |-> Cardinality(Fresh("verdicts", now["verdicts"])),
                                     hits |-> Cardinality(FreshHits("verdicts", now["verdicts"]))]
          /\ metrics'["suspects"] = [total |-> Cardinality(Fresh("suspects", now["suspects"])),
                                     hits |-> Cardinality(FreshHits("suspects", now["suspects"]))]
      BY <2>1, <2>2
    <3> QED BY <3>1
  <2> QED BY <2>0, <2>3, CountsFit
<1>3. WatchInv => WatchTypeOK /\ AllFallbacksWarn
  BY WatchInvGivesTypes DEF WatchInv
<1>4. WatchSpec => []WatchInv
  BY WatchInitially, WatchNextKeeps, PTL DEF WatchSpec
<1>5. MetricsAreExact <=> [][Exact]_watchVars
  BY DEF MetricsAreExact
<1>6. WindowsFit <=> [][Fit]_watchVars
  BY DEF WindowsFit
<1> HIDE DEF Exact, Fit
<1> QED BY <1>1, <1>2, <1>3, <1>4, <1>5, <1>6, PTL DEF WatchHolds

-----------------------------------------------------------------------------
(* ForensicGraph.                                                            *)

\* The ends of a link of the series s are among B or were merged before it.
Closed(B, s) ==
    \A j \in 1 .. Len(s) :
        ~IsMerge(s[j]) => {s[j].link.from, s[j].link.to}
                            \subseteq B \cup MergedBy(SubSeq(s, 1, j - 1))

\* A series of writes of X: what it needs, merges and links.
Builds(X, B, s, M, K) ==
    s \in Seq(X) /\ Closed(B, s) /\ MergedBy(s) = M /\ LinkedBy(s) = K

\* What a series merges and links, by its places.
LEMMA SeriesByPlace ==
    ASSUME NEW X, NEW s \in Seq(X)
    PROVE  /\ Len(s) \in Nat /\ DOMAIN s = 1 .. Len(s)
           /\ \A x : x \in MergedBy(s) <=>
                \E i \in 1 .. Len(s) : IsMerge(s[i]) /\ x = s[i].node
           /\ \A x : x \in LinkedBy(s) <=>
                \E i \in 1 .. Len(s) : ~IsMerge(s[i]) /\ x = s[i].link
           /\ \A k \in 0 .. Len(s) :
                /\ SubSeq(s, 1, k) \in Seq(X) /\ Len(SubSeq(s, 1, k)) = k
                /\ \A i \in 1 .. k : SubSeq(s, 1, k)[i] = s[i]
                /\ \A x : x \in MergedBy(SubSeq(s, 1, k)) <=>
                     \E i \in 1 .. k : IsMerge(s[i]) /\ x = s[i].node
<1>1. \A t \in Seq(X) :
        /\ Len(t) \in Nat /\ DOMAIN t = 1 .. Len(t)
        /\ \A x : x \in MergedBy(t) <=>
             \E i \in 1 .. Len(t) : IsMerge(t[i]) /\ x = t[i].node
        /\ \A x : x \in LinkedBy(t) <=>
             \E i \in 1 .. Len(t) : ~IsMerge(t[i]) /\ x = t[i].link
  <2> SUFFICES ASSUME NEW t \in Seq(X)
               PROVE  /\ Len(t) \in Nat /\ DOMAIN t = 1 .. Len(t)
                      /\ \A x : x \in MergedBy(t) <=>
                           \E i \in 1 .. Len(t) : IsMerge(t[i]) /\ x = t[i].node
                      /\ \A x : x \in LinkedBy(t) <=>
                           \E i \in 1 .. Len(t) : ~IsMerge(t[i]) /\ x = t[i].link
    OBVIOUS
  <2>1. Len(t) \in Nat /\ DOMAIN t = 1 .. Len(t)
    BY LenProperties
  <2>2. ToSet(t) = {t[i] : i \in 1 .. Len(t)}
    BY <2>1 DEF ToSet
  <2>3. \A x : x \in MergedBy(t) <=>
           \E i \in 1 .. Len(t) : IsMerge(t[i]) /\ x = t[i].node
    BY <2>2, Zenon DEF MergedBy
  <2>4. \A x : x \in LinkedBy(t) <=>
           \E i \in 1 .. Len(t) : ~IsMerge(t[i]) /\ x = t[i].link
    BY <2>2, Zenon DEF LinkedBy
  <2> QED BY <2>1, <2>3, <2>4
<1>2. ASSUME NEW k \in 0 .. Len(s)
      PROVE  /\ SubSeq(s, 1, k) \in Seq(X) /\ Len(SubSeq(s, 1, k)) = k
             /\ \A i \in 1 .. k : SubSeq(s, 1, k)[i] = s[i]
  <2>1. Len(s) \in Nat /\ \A i \in 1 .. Len(s) : s[i] \in X
    BY LenProperties, ElementOfSeq
  <2>2. \A i \in 1 .. k : s[i] \in X
    BY <2>1
  <2>3. /\ SubSeq(s, 1, k) \in Seq(X)
        /\ Len(SubSeq(s, 1, k)) = (IF 1 <= k THEN k - 1 + 1 ELSE 0)
        /\ \A i \in 1 .. k - 1 + 1 : SubSeq(s, 1, k)[i] = s[1 + i - 1]
    BY <2>1, <2>2, SubSeqProperties
  <2>4. k - 1 + 1 = k /\ \A i \in 1 .. k : 1 + i - 1 = i
    BY <2>1
  <2> QED BY <2>1, <2>3, <2>4
<1>3. ASSUME NEW k \in 0 .. Len(s)
      PROVE  \A x : x \in MergedBy(SubSeq(s, 1, k)) <=>
               \E i \in 1 .. k : IsMerge(s[i]) /\ x = s[i].node
  <2> DEFINE t == SubSeq(s, 1, k)
  <2>1. t \in Seq(X) /\ Len(t) = k /\ \A i \in 1 .. k : t[i] = s[i]
    BY <1>2
  <2> HIDE DEF t
  <2>2. ASSUME NEW x
        PROVE  x \in MergedBy(t) <=> \E i \in 1 .. k : IsMerge(s[i]) /\ x = s[i].node
    <3>1. x \in MergedBy(t) <=> \E i \in 1 .. k : IsMerge(t[i]) /\ x = t[i].node
      BY <1>1, <2>1
    <3> QED BY <2>1, <3>1
  <2> QED BY <2>2 DEF t
<1> QED BY <1>1, <1>2, <1>3

\* No write, one merge, one link.
LEMMA NoWrite ==
    ASSUME NEW X
    PROVE  Builds(X, {}, <<>>, {}, {})
<1>1. <<>> \in Seq(X) /\ Len(<<>>) = 0
  BY EmptySeq
<1>2. MergedBy(<<>>) = {} /\ LinkedBy(<<>>) = {}
  <2>1. \A i \in 1 .. Len(<<>>) : FALSE
    BY <1>1
  <2>2. \A x : x \notin MergedBy(<<>>)
    BY <1>1, <2>1, SeriesByPlace
  <2>3. \A x : x \notin LinkedBy(<<>>)
    BY <1>1, <2>1, SeriesByPlace
  <2> QED BY <2>2, <2>3
<1> QED BY <1>1, <1>2 DEF Builds, Closed

LEMMA OneMerge ==
    ASSUME NEW X, NEW n, [node |-> n] \in X
    PROVE  Builds(X, {}, MergeNode(n), {n}, {})
<1> DEFINE w == [node |-> n]
<1>1. <<w>> \in Seq(X) /\ Len(<<w>>) = 1 /\ <<w>>[1] = w
  OBVIOUS
<1>2. IsMerge(w) /\ w.node = n
  BY DEF IsMerge
<1>3. ToSet(<<w>>) = {w}
  <2>1. DOMAIN <<w>> = {1}
    BY <1>1, LenProperties
  <2> HIDE DEF w
  <2> QED BY <1>1, <2>1 DEF ToSet
<1> HIDE DEF w
<1>4. MergedBy(<<w>>) = {n} /\ LinkedBy(<<w>>) = {}
  BY <1>2, <1>3 DEF MergedBy, LinkedBy
<1>5. Closed({}, <<w>>)
  BY <1>1, <1>2 DEF Closed
<1> QED BY <1>1, <1>4, <1>5 DEF Builds, MergeNode, w

LEMMA OneLink ==
    ASSUME NEW X, NEW f, NEW r, NEW t, [link |-> Link(f, r, t)] \in X
    PROVE  Builds(X, {f, t}, Relate(f, r, t), {}, {Link(f, r, t)})
<1> DEFINE w == [link |-> Link(f, r, t)]
<1>1. <<w>> \in Seq(X) /\ Len(<<w>>) = 1 /\ <<w>>[1] = w
  OBVIOUS
<1>2. ~IsMerge(w) /\ w.link = Link(f, r, t) /\ w.link.from = f /\ w.link.to = t
  BY DEF IsMerge, Link
<1>3. ToSet(<<w>>) = {w}
  <2>1. DOMAIN <<w>> = {1}
    BY <1>1, LenProperties
  <2> HIDE DEF w
  <2> QED BY <1>1, <2>1 DEF ToSet
<1> HIDE DEF w
<1>4. MergedBy(<<w>>) = {} /\ LinkedBy(<<w>>) = {Link(f, r, t)}
  BY <1>2, <1>3 DEF MergedBy, LinkedBy
<1>5. Closed({f, t}, <<w>>)
  BY <1>1, <1>2 DEF Closed
<1> QED BY <1>1, <1>4, <1>5 DEF Builds, Relate, w

\* A series that is made on a condition.
LEMMA BuildsWhen ==
    ASSUME NEW X, NEW B, NEW s, NEW M, NEW K, NEW c \in BOOLEAN,
           c => Builds(X, B, s, M, K)
    PROVE  Builds(X, IF c THEN B ELSE {}, When(c, s),
                  IF c THEN M ELSE {}, IF c THEN K ELSE {})
BY NoWrite DEF When

\* One series after another, which finds what the first has merged.
LEMMA BuildsBoth ==
    ASSUME NEW X, NEW B, NEW s, NEW M, NEW K, Builds(X, B, s, M, K),
           NEW C, NEW t, NEW N, NEW J, Builds(X, C, t, N, J), C \subseteq B \cup M
    PROVE  Builds(X, B, s \o t, M \cup N, K \cup J)
<1> DEFINE u == s \o t
           m == Len(s)
           n == Len(t)
<1>1. s \in Seq(X) /\ t \in Seq(X) /\ m \in Nat /\ n \in Nat
  BY LenProperties DEF Builds
<1>2. /\ u \in Seq(X) /\ Len(u) = m + n
      /\ \A i \in 1 .. m + n : u[i] = IF i <= m THEN s[i] ELSE t[i - m]
  BY <1>1, ConcatProperties
<1>3. \A i \in 1 .. m : i \in 1 .. m + n /\ u[i] = s[i]
  BY <1>1, <1>2
<1>4. \A i \in 1 .. n : m + i \in 1 .. m + n /\ u[m + i] = t[i]
  <2> SUFFICES ASSUME NEW i \in 1 .. n PROVE m + i \in 1 .. m + n /\ u[m + i] = t[i]
    OBVIOUS
  <2>1. m + i \in 1 .. m + n /\ ~(m + i <= m) /\ m + i - m = i
    BY <1>1
  <2>2. u[m + i] = t[m + i - m]
    <3> HIDE DEF u
    <3> QED BY <1>2, <2>1
  <2> QED BY <2>1, <2>2
<1>5. \A i \in 1 .. m + n : i \in 1 .. m \/ (i - m \in 1 .. n /\ m + (i - m) = i)
  BY <1>1
<1> HIDE DEF u, m, n
<1>6. MergedBy(u) = MergedBy(s) \cup MergedBy(t)
  <2>1. \A x : x \in MergedBy(s) \/ x \in MergedBy(t) => x \in MergedBy(u)
    <3>1. \A x : x \in MergedBy(s) <=> \E i \in 1 .. m : IsMerge(s[i]) /\ x = s[i].node
      BY <1>1, SeriesByPlace DEF m
    <3>2. \A x : x \in MergedBy(t) <=> \E i \in 1 .. n : IsMerge(t[i]) /\ x = t[i].node
      BY <1>1, SeriesByPlace DEF n
    <3>3. \A x : x \in MergedBy(u) <=> \E i \in 1 .. m + n : IsMerge(u[i]) /\ x = u[i].node
      BY <1>2, SeriesByPlace
    <3> QED BY <1>3, <1>4, <3>1, <3>2, <3>3
  <2>2. \A x : x \in MergedBy(u) => x \in MergedBy(s) \/ x \in MergedBy(t)
    <3> SUFFICES ASSUME NEW x \in MergedBy(u) PROVE x \in MergedBy(s) \/ x \in MergedBy(t)
      OBVIOUS
    <3>1. PICK i \in 1 .. m + n : IsMerge(u[i]) /\ x = u[i].node
      BY <1>2, SeriesByPlace
    <3>2. CASE i \in 1 .. m
      BY <1>1, <1>3, <3>1, <3>2, SeriesByPlace DEF m
    <3>3. CASE i - m \in 1 .. n /\ m + (i - m) = i
      <4>1. t[i - m] = u[i]
        BY <1>4, <3>3
      <4> QED BY <1>1, <3>1, <3>3, <4>1, SeriesByPlace DEF n
    <3> QED BY <1>5, <3>2, <3>3
  <2> QED BY <2>1, <2>2
<1>7. LinkedBy(u) = LinkedBy(s) \cup LinkedBy(t)
  <2>1. \A x : x \in LinkedBy(s) \/ x \in LinkedBy(t) => x \in LinkedBy(u)
    <3>1. \A x : x \in LinkedBy(s) <=> \E i \in 1 .. m : ~IsMerge(s[i]) /\ x = s[i].link
      BY <1>1, SeriesByPlace DEF m
    <3>2. \A x : x \in LinkedBy(t) <=> \E i \in 1 .. n : ~IsMerge(t[i]) /\ x = t[i].link
      BY <1>1, SeriesByPlace DEF n
    <3>3. \A x : x \in LinkedBy(u) <=> \E i \in 1 .. m + n : ~IsMerge(u[i]) /\ x = u[i].link
      BY <1>2, SeriesByPlace
    <3> QED BY <1>3, <1>4, <3>1, <3>2, <3>3
  <2>2. \A x : x \in LinkedBy(u) => x \in LinkedBy(s) \/ x \in LinkedBy(t)
    <3> SUFFICES ASSUME NEW x \in LinkedBy(u) PROVE x \in LinkedBy(s) \/ x \in LinkedBy(t)
      OBVIOUS
    <3>1. PICK i \in 1 .. m + n : ~IsMerge(u[i]) /\ x = u[i].link
      BY <1>2, SeriesByPlace
    <3>2. CASE i \in 1 .. m
      BY <1>1, <1>3, <3>1, <3>2, SeriesByPlace DEF m
    <3>3. CASE i - m \in 1 .. n /\ m + (i - m) = i
      <4>1. t[i - m] = u[i]
        BY <1>4, <3>3
      <4> QED BY <1>1, <3>1, <3>3, <4>1, SeriesByPlace DEF n
    <3> QED BY <1>5, <3>2, <3>3
  <2> QED BY <2>1, <2>2
<1>8. Closed(B, u)
  <2> SUFFICES ASSUME NEW j \in 1 .. m + n, ~IsMerge(u[j]),
                      NEW e \in {u[j].link.from, u[j].link.to}, e \notin B
               PROVE  e \in MergedBy(SubSeq(u, 1, j - 1))
    BY <1>2 DEF Closed
  <2>1. \A x : x \in MergedBy(SubSeq(u, 1, j - 1)) <=>
                 \E i \in 1 .. j - 1 : IsMerge(u[i]) /\ x = u[i].node
    <3>1. j - 1 \in 0 .. Len(u)
      BY <1>1, <1>2
    <3> QED BY <1>2, <3>1, SeriesByPlace
  <2>2. CASE j \in 1 .. m
    <3>1. e \in MergedBy(SubSeq(s, 1, j - 1))
      BY <1>3, <2>2 DEF Builds, Closed, m
    <3>2. PICK i \in 1 .. j - 1 : IsMerge(s[i]) /\ e = s[i].node
      <4>1. j - 1 \in 0 .. Len(s)
        BY <1>1, <2>2 DEF m
      <4> QED BY <1>1, <3>1, <4>1, SeriesByPlace
    <3>3. i \in 1 .. m
      BY <1>1, <2>2
    <3> QED BY <1>3, <2>1, <3>2, <3>3
  <2>3. CASE j - m \in 1 .. n /\ m + (j - m) = j
    <3>1. u[j] = t[j - m]
      BY <1>4, <2>3
    <3>2. e \in C \/ e \in MergedBy(SubSeq(t, 1, j - m - 1))
      BY <2>3, <3>1 DEF Builds, Closed, n
    <3>3. CASE e \in C
      <4>1. e \in MergedBy(s)
        BY <3>3 DEF Builds
      <4>2. PICK i \in 1 .. m : IsMerge(s[i]) /\ e = s[i].node
        BY <1>1, <4>1, SeriesByPlace DEF m
      <4>3. i \in 1 .. j - 1
        BY <1>1, <2>3
      <4> QED BY <1>3, <2>1, <4>2, <4>3
    <3>4. CASE e \in MergedBy(SubSeq(t, 1, j - m - 1))
      <4>1. PICK i \in 1 .. j - m - 1 : IsMerge(t[i]) /\ e = t[i].node
        <5>1. j - m - 1 \in 0 .. Len(t)
          BY <1>1, <2>3 DEF n
        <5> QED BY <1>1, <3>4, <5>1, SeriesByPlace
      <4>2. i \in 1 .. n /\ m + i \in 1 .. j - 1
        BY <1>1, <2>3
      <4> QED BY <1>4, <2>1, <4>1, <4>2
    <3> QED BY <3>2, <3>3, <3>4
  <2> QED BY <1>5, <2>2, <2>3
<1>9. MergedBy(s) = M /\ MergedBy(t) = N /\ LinkedBy(s) = K /\ LinkedBy(t) = J
  BY DEF Builds
<1> QED BY <1>2, <1>6, <1>7, <1>8, <1>9 DEF Builds, u

\* A series that begins with the merge of n and needs nothing.
Begins(X, n, s, M, K) == Builds(X, {}, s, M, K) /\ Len(s) # 0 /\ s[1] = [node |-> n]

\* The next series, which needs no more than the ones before it have merged.
LEMMA BuildsThen ==
    ASSUME NEW X, NEW n, NEW s, NEW M, NEW K, Begins(X, n, s, M, K),
           NEW t, NEW N, NEW J, NEW C, C \subseteq M,
           \E B \in SUBSET C : Builds(X, B, t, N, J)
    PROVE  Begins(X, n, s \o t, M \cup N, K \cup J)
<1>1. PICK B \in SUBSET C : Builds(X, B, t, N, J)
  OBVIOUS
<1>2. B \subseteq {} \cup M
  BY <1>1
<1>3. Builds(X, {}, s \o t, M \cup N, K \cup J)
  BY <1>1, <1>2, BuildsBoth DEF Begins
<1>4. s \in Seq(X) /\ t \in Seq(X) /\ Len(s) \in Nat \ {0} /\ Len(t) \in Nat
  BY <1>1, LenProperties DEF Begins, Builds
<1>5. Len(s \o t) = Len(s) + Len(t) /\ (s \o t)[1] = s[1]
  BY <1>4, ConcatProperties
<1> QED BY <1>3, <1>4, <1>5 DEF Begins

LEMMA BuildsWith ==
    ASSUME NEW X, NEW B, NEW C, NEW s, NEW M, NEW K, Builds(X, B, s, M, K), B \subseteq C
    PROVE  Builds(X, C, s, M, K)
BY DEF Builds, Closed

\* The nodes and links that the writes of an alert may make.
AlertNode(a) == Node("ALERT", a.id)
Keys(a) == {a.agent, a.src, a.dst, a.users[1], a.users[2], a.domain, PathKey(a)}
NodesOf(a) ==
    {AlertNode(a), ProcessOf(a)}
      \cup {Node(label, key) :
              label \in {"IP_ADDRESS", "USER", "DOMAIN", "FILE", "WORKSTATION"}, key \in Keys(a)}
\* Only RESOLVES_TO leads on from an address, and nothing from a domain.
LinkOK(l) ==
    /\ l = Link(l.from, l.rel, l.to)
    /\ l.from.label = "IP_ADDRESS" /\ l.rel # "RELATED" => l.to.label = "DOMAIN"
    /\ l.from.label = "DOMAIN" => l.rel = "RELATED"
Rels == {"src", "dst", "INVOLVES", "RESOLVES_TO", "DETECTED", "LOGGED_IN_TO", "MODIFIED_BY",
         "CONNECTS_TO"}
LinksOf(a) ==
    {l \in {Link(f, r, t) : f \in NodesOf(a), r \in Rels, t \in NodesOf(a)} : LinkOK(l)}
WritesOf(a) ==
    {[node |-> n] : n \in NodesOf(a)} \cup {[link |-> l] : l \in LinksOf(a)}

\* What an alert of which no write failed is found by.
FindsOf(a) ==
    (IF a.src # NoField THEN {Link(AlertNode(a), "src", Node("IP_ADDRESS", a.src))} ELSE {})
    \cup (IF a.dst # NoField THEN {Link(AlertNode(a), "dst", Node("IP_ADDRESS", a.dst))} ELSE {})
    \cup {Link(AlertNode(a), "INVOLVES", Node("USER", u)) :
             u \in {a.users[1], a.users[2]} \ {NoField}}
    \cup (IF a.domain # NoField /\ a.dst # NoField
          THEN {Link(Node("IP_ADDRESS", a.dst), "RESOLVES_TO", Node("DOMAIN", a.domain))} ELSE {})
    \cup (IF HostOf(a) # NoField
          THEN {Link(Node("USER", u), "LOGGED_IN_TO", Node("WORKSTATION", a.agent)) :
                   u \in {a.users[1], a.users[2]} \ {NoField}}
          ELSE {})

LEMMA WriteShapes ==
    ASSUME NEW a, NEW w \in WritesOf(a)
    PROVE  /\ IsMerge(w) => w.node \in NodesOf(a)
           /\ ~IsMerge(w) => w.link \in LinksOf(a)
<1>1. CASE \E n \in NodesOf(a) : w = [node |-> n]
  BY <1>1 DEF IsMerge
<1>2. CASE \E l \in LinksOf(a) : w = [link |-> l]
  BY <1>2 DEF IsMerge
<1> QED BY <1>1, <1>2 DEF WritesOf

LEMMA MergesOf ==
    ASSUME NEW a, NEW label \in {"IP_ADDRESS", "USER", "DOMAIN", "FILE", "WORKSTATION"},
           NEW key \in Keys(a)
    PROVE  Node(label, key) \in NodesOf(a) /\ [node |-> Node(label, key)] \in WritesOf(a)
<1>1. Node(label, key) \in NodesOf(a)
  BY DEF NodesOf
<1> QED BY <1>1 DEF WritesOf

LEMMA LinksAreOf ==
    ASSUME NEW a, NEW f \in NodesOf(a), NEW r \in Rels, NEW t \in NodesOf(a),
           f.label = "IP_ADDRESS" => t.label = "DOMAIN", f.label # "DOMAIN"
    PROVE  [link |-> Link(f, r, t)] \in WritesOf(a)
<1> DEFINE l == Link(f, r, t)
<1>0. l.from = f /\ l.rel = r /\ l.to = t /\ r # "RELATED"
  BY DEF Link, Rels
<1>1. LinkOK(l)
  <2>1. l = Link(l.from, l.rel, l.to)
    BY <1>0
  <2> HIDE DEF l
  <2> QED BY <1>0, <2>1 DEF LinkOK
<1>2. Link(f, r, t) \in LinksOf(a)
  BY <1>1 DEF LinksOf
<1> QED BY <1>2 DEF WritesOf

\* A node and the link from the alert to it.
LEMMA Involves ==
    ASSUME NEW a, NEW label \in {"IP_ADDRESS", "USER", "FILE"}, NEW key \in Keys(a),
           NEW r \in Rels
    PROVE  LET n == Node(label, key)
           IN  Builds(WritesOf(a), {AlertNode(a)}, MergeNode(n) \o Relate(AlertNode(a), r, n),
                      {n}, {Link(AlertNode(a), r, n)})
<1> DEFINE n == Node(label, key)
           X == WritesOf(a)
<1>1. n \in NodesOf(a) /\ [node |-> n] \in X /\ AlertNode(a) \in NodesOf(a)
  BY MergesOf DEF NodesOf
<1>2. [link |-> Link(AlertNode(a), r, n)] \in X
  <2>1. AlertNode(a).label = "ALERT"
    BY DEF AlertNode, Node
  <2> HIDE DEF n
  <2> QED BY <1>1, <2>1, LinksAreOf
<1> HIDE DEF n, X
<1>3. Builds(X, {}, MergeNode(n), {n}, {})
  BY <1>1, OneMerge
<1>4. Builds(X, {AlertNode(a), n}, Relate(AlertNode(a), r, n), {}, {Link(AlertNode(a), r, n)})
  BY <1>2, OneLink
<1>5. Builds(X, {AlertNode(a)}, MergeNode(n), {n}, {})
  BY <1>3 DEF Builds, Closed
<1>6. Builds(X, {AlertNode(a)}, MergeNode(n) \o Relate(AlertNode(a), r, n),
             {n} \cup {}, {} \cup {Link(AlertNode(a), r, n)})
  BY <1>4, <1>5, BuildsBoth
<1>7. Builds(X, {AlertNode(a)}, MergeNode(n) \o Relate(AlertNode(a), r, n),
             {n}, {Link(AlertNode(a), r, n)})
  <2>1. {n} \cup {} = {n} /\ {} \cup {Link(AlertNode(a), r, n)} = {Link(AlertNode(a), r, n)}
    OBVIOUS
  <2> QED BY <1>6, <2>1
<1> QED BY <1>7 DEF n, X

\* The writes of an alert: each link after its ends, and enough to find it by.
LEMMA AlertWrites ==
    ASSUME NEW a
    PROVE  /\ GraphWrites(a) \in Seq(WritesOf(a)) /\ Len(GraphWrites(a)) \in Nat \ {0}
           /\ GraphWrites(a)[1] = [node |-> AlertNode(a)]
           /\ Closed({}, GraphWrites(a))
           /\ FindsOf(a) \subseteq LinkedBy(GraphWrites(a))
           /\ MergedBy(GraphWrites(a)) \subseteq NodesOf(a)
           /\ LinkedBy(GraphWrites(a)) \subseteq LinksOf(a)
<1> DEFINE X == WritesOf(a)
           A == AlertNode(a)
           Ip(k) == Node("IP_ADDRESS", k)
           User(k) == Node("USER", k)
           Dom == Node("DOMAIN", a.domain)
           File == Node("FILE", PathKey(a))
           Host == Node("WORKSTATION", a.agent)
           Proc == ProcessOf(a)
<1>1. /\ A \in NodesOf(a) /\ Proc \in NodesOf(a)
      /\ [node |-> A] \in X /\ [node |-> Proc] \in X
  <2>1. A \in NodesOf(a) /\ Proc \in NodesOf(a)
    BY DEF NodesOf
  <2>2. \A n \in NodesOf(a) : [node |-> n] \in X
    BY DEF WritesOf
  <2> QED BY <2>1, <2>2
<1>2. /\ {a.src, a.dst, a.users[1], a.users[2], a.domain, a.agent, PathKey(a)} \subseteq Keys(a)
  BY DEF Keys
<1>3. /\ A.label = "ALERT" /\ Proc.label = "PROCESS" /\ File.label = "FILE"
      /\ Dom.label = "DOMAIN" /\ Host.label = "WORKSTATION"
      /\ \A k : Ip(k).label = "IP_ADDRESS" /\ User(k).label = "USER"
  BY DEF AlertNode, Node, ProcessOf, Process
<1>4. /\ A = Node("ALERT", a.id)
      /\ \A k \in Keys(a) : Ip(k) \in NodesOf(a) /\ User(k) \in NodesOf(a)
      /\ Dom \in NodesOf(a) /\ File \in NodesOf(a) /\ Host \in NodesOf(a)
      /\ [node |-> Dom] \in X /\ [node |-> Host] \in X
  BY <1>2, MergesOf DEF AlertNode
<1>5. \A f \in NodesOf(a), r \in Rels, t \in NodesOf(a) :
         (f.label = "IP_ADDRESS" => t.label = "DOMAIN") /\ f.label # "DOMAIN"
           => [link |-> Link(f, r, t)] \in X
  BY LinksAreOf
<1>6. Rels = {"src", "dst", "INVOLVES", "RESOLVES_TO", "DETECTED", "LOGGED_IN_TO",
              "MODIFIED_BY", "CONNECTS_TO"}
  BY DEF Rels
<1> DEFINE NA == IF a.src # NoField THEN {Ip(a.src)} ELSE {}
           KA == IF a.src # NoField THEN {Link(A, "src", Ip(a.src))} ELSE {}
           NB == IF a.dst # NoField THEN {Ip(a.dst)} ELSE {}
           KB == IF a.dst # NoField THEN {Link(A, "dst", Ip(a.dst))} ELSE {}
           NU(u) == IF u # NoField THEN {User(u)} ELSE {}
           KU(u) == IF u # NoField THEN {Link(A, "INVOLVES", User(u))} ELSE {}
           KL(u) == IF u # NoField THEN {Link(User(u), "LOGGED_IN_TO", Host)} ELSE {}
           ND == IF a.domain # NoField THEN {Dom} ELSE {}
           KD == IF a.domain # NoField
                 THEN IF a.dst # NoField THEN {Link(Ip(a.dst), "RESOLVES_TO", Dom)} ELSE {}
                 ELSE {}
           NF == IF PathKey(a) # NoField THEN {File} ELSE {}
           KF == IF PathKey(a) # NoField THEN {Link(A, "DETECTED", File)} ELSE {}
           KH == IF HostOf(a) # NoField THEN KL(a.users[1]) \cup KL(a.users[2]) ELSE {}
           NH == IF HostOf(a) # NoField THEN {Host} ELSE {}
<1>10. Begins(X, A, MergeNode(A), {A}, {})
  <2>1. Builds(X, {}, MergeNode(A), {A}, {})
    BY <1>1, OneMerge
  <2>2. Len(MergeNode(A)) = 1 /\ MergeNode(A)[1] = [node |-> A]
    BY DEF MergeNode
  <2> QED BY <2>1, <2>2 DEF Begins
<1>11. \E B \in SUBSET {A} : Builds(X, B, Involve(a.id, "src", a.src), NA, KA)
  <2>1. Builds(X, {A}, MergeNode(Ip(a.src)) \o Relate(A, "src", Ip(a.src)),
               {Ip(a.src)}, {Link(A, "src", Ip(a.src))})
    BY <1>2, <1>6, Involves
  <2>2. Builds(X, IF a.src # NoField THEN {A} ELSE {}, Involve(a.id, "src", a.src), NA, KA)
    BY <1>4, <2>1, BuildsWhen DEF Involve
  <2> QED BY <2>2
<1>12. \E B \in SUBSET {A} : Builds(X, B, Involve(a.id, "dst", a.dst), NB, KB)
  <2>1. Builds(X, {A}, MergeNode(Ip(a.dst)) \o Relate(A, "dst", Ip(a.dst)),
               {Ip(a.dst)}, {Link(A, "dst", Ip(a.dst))})
    BY <1>2, <1>6, Involves
  <2>2. Builds(X, IF a.dst # NoField THEN {A} ELSE {}, Involve(a.id, "dst", a.dst), NB, KB)
    BY <1>4, <2>1, BuildsWhen DEF Involve
  <2> QED BY <2>2
<1>13. ASSUME NEW u \in Keys(a)
       PROVE  \E B \in SUBSET {A} : Builds(X, B, InvolveUser(a.id, u), NU(u), KU(u))
  <2>1. Builds(X, {A}, MergeNode(User(u)) \o Relate(A, "INVOLVES", User(u)),
               {User(u)}, {Link(A, "INVOLVES", User(u))})
    BY <1>6, Involves
  <2>2. Builds(X, IF u # NoField THEN {A} ELSE {}, InvolveUser(a.id, u), NU(u), KU(u))
    BY <1>4, <2>1, BuildsWhen DEF InvolveUser
  <2> QED BY <2>2
<1>14. \E B \in SUBSET NB : Builds(X, B, DomainWrites(a), ND, KD)
  <2> DEFINE R == Relate(Ip(a.dst), "RESOLVES_TO", Dom)
             KR == IF a.dst # NoField THEN {Link(Ip(a.dst), "RESOLVES_TO", Dom)} ELSE {}
             BR == IF a.dst # NoField THEN {Ip(a.dst), Dom} ELSE {}
  <2>1. [link |-> Link(Ip(a.dst), "RESOLVES_TO", Dom)] \in X
    <3>1. Ip(a.dst) \in NodesOf(a)
      BY <1>2, <1>4
    <3> QED BY <1>3, <1>4, <1>5, <1>6, <3>1
  <2>2. Builds(X, {Ip(a.dst), Dom}, R, {}, {Link(Ip(a.dst), "RESOLVES_TO", Dom)})
    BY <2>1, OneLink
  <2>3. Builds(X, BR, When(a.dst # NoField, R), {}, KR)
    <3>1. Builds(X, BR, When(a.dst # NoField, R), IF a.dst # NoField THEN {} ELSE {}, KR)
      <4> HIDE DEF R, Ip, Dom
      <4> QED BY <2>2, BuildsWhen
    <3> QED BY <3>1
  <2>4. Builds(X, {}, MergeNode(Dom), {Dom}, {})
    BY <1>4, OneMerge
  <2>5. Builds(X, NB, MergeNode(Dom), {Dom}, {})
    BY <2>4 DEF Builds, Closed
  <2>6. BR \subseteq NB \cup {Dom}
    OBVIOUS
  <2>7. Builds(X, NB, MergeNode(Dom) \o When(a.dst # NoField, R), {Dom} \cup {}, {} \cup KR)
    <3> HIDE DEF NB, BR, KR, R, Dom, X
    <3> QED BY <2>3, <2>5, <2>6, BuildsBoth
  <2>8. Builds(X, NB, MergeNode(Dom) \o When(a.dst # NoField, R), {Dom}, KR)
    <3>1. {Dom} \cup {} = {Dom} /\ {} \cup KR = KR
      OBVIOUS
    <3> HIDE DEF NB, KR, R, Dom, X
    <3> QED BY <2>7, <3>1
  <2>9. Builds(X, IF a.domain # NoField THEN NB ELSE {}, DomainWrites(a), ND,
               IF a.domain # NoField THEN KR ELSE {})
    <3>1. DomainWrites(a) = When(a.domain # NoField, MergeNode(Dom) \o When(a.dst # NoField, R))
      BY DEF DomainWrites
    <3> HIDE DEF NB, KR, R, Dom, X
    <3> QED BY <2>8, <3>1, BuildsWhen
  <2> QED BY <2>9
<1>15. \E B \in SUBSET {A} : Builds(X, B, FileWrites(a), NF, KF)
  <2>1. Builds(X, {A}, MergeNode(File) \o Relate(A, "DETECTED", File),
               {File}, {Link(A, "DETECTED", File)})
    BY <1>2, <1>6, Involves
  <2>2. Builds(X, IF PathKey(a) # NoField THEN {A} ELSE {}, FileWrites(a), NF, KF)
    BY <1>4, <2>1, BuildsWhen DEF FileWrites
  <2> QED BY <2>2
<1>16. \E B \in SUBSET (NU(a.users[1]) \cup NU(a.users[2])) :
          Builds(X, B, HostWrites(a), NH, KH)
  <2> DEFINE U == NU(a.users[1]) \cup NU(a.users[2])
             L(u) == LogIn(u, a.agent)
             C(u) == IF u # NoField THEN {User(u), Host} ELSE {}
  <2>1. ASSUME NEW u \in Keys(a)
        PROVE  Builds(X, C(u), L(u), {}, KL(u))
    <3>1. [link |-> Link(User(u), "LOGGED_IN_TO", Host)] \in X
      BY <1>3, <1>4, <1>5, <1>6
    <3>2. Builds(X, {User(u), Host}, Relate(User(u), "LOGGED_IN_TO", Host), {},
                 {Link(User(u), "LOGGED_IN_TO", Host)})
      BY <3>1, OneLink
    <3>3. Builds(X, C(u), When(u # NoField, Relate(User(u), "LOGGED_IN_TO", Host)),
                 IF u # NoField THEN {} ELSE {}, KL(u))
      BY <3>2, BuildsWhen
    <3> QED BY <3>3 DEF LogIn
  <2>2. Builds(X, U, MergeNode(Host), {Host}, {})
    <3>1. Builds(X, {}, MergeNode(Host), {Host}, {})
      BY <1>4, OneMerge
    <3> HIDE DEF U, Host, X
    <3> QED BY <3>1, BuildsWith
  <2>3. C(a.users[1]) \subseteq U \cup {Host} /\ C(a.users[2]) \subseteq U \cup {Host}
    OBVIOUS
  <2>4. Builds(X, C(a.users[1]), L(a.users[1]), {}, KL(a.users[1]))
    BY <1>2, <2>1
  <2>5. Builds(X, C(a.users[2]), L(a.users[2]), {}, KL(a.users[2]))
    BY <1>2, <2>1
  <2>6. Builds(X, U, MergeNode(Host) \o L(a.users[1]) \o L(a.users[2]),
               {Host} \cup {} \cup {}, {} \cup KL(a.users[1]) \cup KL(a.users[2]))
    <3> HIDE DEF U, C, L, KL, Host, X
    <3>1. Builds(X, U, MergeNode(Host) \o L(a.users[1]), {Host} \cup {},
                 {} \cup KL(a.users[1]))
      BY <2>2, <2>3, <2>4, BuildsBoth
    <3>2. C(a.users[2]) \subseteq U \cup ({Host} \cup {})
      BY <2>3
    <3> QED BY <2>5, <3>1, <3>2, BuildsBoth
  <2>7. Builds(X, U, MergeNode(Host) \o L(a.users[1]) \o L(a.users[2]),
               {Host}, KL(a.users[1]) \cup KL(a.users[2]))
    <3>1. /\ {Host} \cup {} \cup {} = {Host}
          /\ {} \cup KL(a.users[1]) \cup KL(a.users[2]) = KL(a.users[1]) \cup KL(a.users[2])
      OBVIOUS
    <3> HIDE DEF U, L, KL, Host, X
    <3> QED BY <2>6, <3>1
  <2>8. Builds(X, IF HostOf(a) # NoField THEN U ELSE {}, HostWrites(a), NH, KH)
    <3>1. HostWrites(a) = When(HostOf(a) # NoField,
                               MergeNode(Host) \o L(a.users[1]) \o L(a.users[2]))
      BY DEF HostWrites
    <3> DEFINE c == HostOf(a) # NoField
               P == MergeNode(Host) \o L(a.users[1]) \o L(a.users[2])
               K == KL(a.users[1]) \cup KL(a.users[2])
    <3>2. c \in BOOLEAN /\ HostWrites(a) = When(c, P)
      BY <3>1
    <3>3. Builds(X, U, P, {Host}, K)
      BY <2>7
    <3>4. NH = (IF c THEN {Host} ELSE {}) /\ KH = (IF c THEN K ELSE {})
      OBVIOUS
    <3> HIDE DEF U, L, KL, Host, X, c, P, K, NH, KH
    <3>5. Builds(X, IF c THEN U ELSE {}, HostWrites(a), NH, KH)
      BY <3>2, <3>3, <3>4, BuildsWhen
    <3> QED BY <3>5 DEF c
  <2> HIDE DEF U, X, NH, KH
  <2>9. (IF HostOf(a) # NoField THEN U ELSE {}) \in SUBSET U
    OBVIOUS
  <2> QED BY <2>8, <2>9 DEF U
<1>17. \E B \in SUBSET (NF \cup NA), N \in SUBSET {Proc}, K \in SUBSET LinksOf(a) :
          Builds(X, B, ProcessWrites(a), N, K)
  <2> DEFINE M == Relate(File, "MODIFIED_BY", Proc)
             R == Relate(Proc, "CONNECTS_TO", Ip(a.src))
             KM == IF PathKey(a) # NoField THEN {Link(File, "MODIFIED_BY", Proc)} ELSE {}
             KR == IF a.src # NoField THEN {Link(Proc, "CONNECTS_TO", Ip(a.src))} ELSE {}
             BM == IF PathKey(a) # NoField THEN {File, Proc} ELSE {}
             BR == IF a.src # NoField THEN {Proc, Ip(a.src)} ELSE {}
             B == NF \cup NA
             c == a.pid # NoField /\ a.agent # NoField
  <2>1. /\ [link |-> Link(File, "MODIFIED_BY", Proc)] \in X
        /\ [link |-> Link(Proc, "CONNECTS_TO", Ip(a.src))] \in X
    <3>1. Ip(a.src) \in NodesOf(a)
      BY <1>2, <1>4
    <3> HIDE DEF File, Proc, Ip, X
    <3> QED BY <1>1, <1>3, <1>4, <1>5, <1>6, <3>1
  <2>2. Builds(X, BM, When(PathKey(a) # NoField, M), {}, KM)
    <3>1. Builds(X, {File, Proc}, M, {}, {Link(File, "MODIFIED_BY", Proc)})
      BY <2>1, OneLink
    <3>2. Builds(X, BM, When(PathKey(a) # NoField, M),
                 IF PathKey(a) # NoField THEN {} ELSE {}, KM)
      <4> HIDE DEF M, File, Proc, X
      <4> QED BY <3>1, BuildsWhen
    <3> QED BY <3>2
  <2>3. Builds(X, BR, When(a.src # NoField, R), {}, KR)
    <3>1. Builds(X, {Proc, Ip(a.src)}, R, {}, {Link(Proc, "CONNECTS_TO", Ip(a.src))})
      BY <2>1, OneLink
    <3>2. Builds(X, BR, When(a.src # NoField, R), IF a.src # NoField THEN {} ELSE {}, KR)
      <4> HIDE DEF R, Ip, Proc, X
      <4> QED BY <3>1, BuildsWhen
    <3> QED BY <3>2
  <2>4. Builds(X, B, MergeNode(Proc), {Proc}, {})
    <3>1. Builds(X, {}, MergeNode(Proc), {Proc}, {})
      BY <1>1, OneMerge
    <3> HIDE DEF B, Proc, X
    <3> QED BY <3>1, BuildsWith
  <2>5. BM \subseteq B \cup {Proc} /\ BR \subseteq B \cup ({Proc} \cup {})
    OBVIOUS
  <2>6. KM \subseteq LinksOf(a) /\ KR \subseteq LinksOf(a)
    <3>1. \A l : [link |-> l] \in X => l \in LinksOf(a)
      <4> SUFFICES ASSUME NEW l, [link |-> l] \in X PROVE l \in LinksOf(a)
        OBVIOUS
      <4>1. ~IsMerge([link |-> l]) /\ [link |-> l].link = l
        BY DEF IsMerge
      <4> QED BY <4>1, WriteShapes
    <3> HIDE DEF File, Proc, Ip, X
    <3> QED BY <2>1, <3>1
  <2>7. Builds(X, B, MergeNode(Proc) \o When(PathKey(a) # NoField, M) \o When(a.src # NoField, R),
               {Proc} \cup {} \cup {}, {} \cup KM \cup KR)
    <3> HIDE DEF B, BM, BR, KM, KR, M, R, Proc, X
    <3>1. Builds(X, B, MergeNode(Proc) \o When(PathKey(a) # NoField, M), {Proc} \cup {}, {} \cup KM)
      BY <2>2, <2>4, <2>5, BuildsBoth
    <3> QED BY <2>3, <2>5, <3>1, BuildsBoth
  <2>8. Builds(X, IF c THEN B ELSE {}, ProcessWrites(a),
               IF c THEN {Proc} \cup {} \cup {} ELSE {}, IF c THEN {} \cup KM \cup KR ELSE {})
    <3>1. ProcessWrites(a) = When(c, MergeNode(Proc) \o When(PathKey(a) # NoField, M)
                                       \o When(a.src # NoField, R))
      BY DEF ProcessWrites, Connects
    <3> HIDE DEF B, KM, KR, M, R, Proc, X, c
    <3>2. c \in BOOLEAN
      BY DEF c
    <3> QED BY <2>7, <3>1, <3>2, BuildsWhen
  <2> HIDE DEF B, KM, KR, Proc, X, c
  <2>9. /\ (IF c THEN B ELSE {}) \in SUBSET B
        /\ (IF c THEN {Proc} \cup {} \cup {} ELSE {}) \in SUBSET {Proc}
        /\ (IF c THEN {} \cup KM \cup KR ELSE {}) \in SUBSET LinksOf(a)
    BY <2>6
  <2> QED BY <2>8, <2>9 DEF B
<1>18. PICK N \in SUBSET {Proc}, K \in SUBSET LinksOf(a) :
          \E B \in SUBSET (NF \cup NA) : Builds(X, B, ProcessWrites(a), N, K)
  BY <1>17
<1> DEFINE u1 == a.users[1]
           u2 == a.users[2]
           M8 == {A} \cup NA \cup NB \cup NU(u1) \cup NU(u2) \cup ND \cup NF \cup NH \cup N
           K8 == {} \cup KA \cup KB \cup KU(u1) \cup KU(u2) \cup KD \cup KF \cup KH \cup K
<1>19. Begins(X, A, GraphWrites(a), M8, K8)
  <2>0. u1 \in Keys(a) /\ u2 \in Keys(a)
    BY <1>2
  <2>1. /\ \E B \in SUBSET {A} : Builds(X, B, InvolveUser(a.id, u1), NU(u1), KU(u1))
        /\ \E B \in SUBSET {A} : Builds(X, B, InvolveUser(a.id, u2), NU(u2), KU(u2))
    BY <1>13, <2>0
  <2> DEFINE M4 == {A} \cup NA \cup NB \cup NU(u1) \cup NU(u2)
             K4 == {} \cup KA \cup KB \cup KU(u1) \cup KU(u2)
             s4 == MergeNode(A) \o Involve(a.id, "src", a.src) \o Involve(a.id, "dst", a.dst)
                     \o InvolveUser(a.id, u1) \o InvolveUser(a.id, u2)
  <2>2. Begins(X, A, s4, M4, K4)
    <3> HIDE DEF X, A, NA, KA, NB, KB, NU, KU, u1, u2
    <3>1. Begins(X, A, MergeNode(A) \o Involve(a.id, "src", a.src), {A} \cup NA, {} \cup KA)
      BY <1>10, <1>11, BuildsThen
    <3>2. Begins(X, A, MergeNode(A) \o Involve(a.id, "src", a.src) \o Involve(a.id, "dst", a.dst),
                 {A} \cup NA \cup NB, {} \cup KA \cup KB)
      <4>1. {A} \subseteq {A} \cup NA
        OBVIOUS
      <4> QED BY <1>12, <3>1, <4>1, BuildsThen
    <3>3. Begins(X, A, MergeNode(A) \o Involve(a.id, "src", a.src) \o Involve(a.id, "dst", a.dst)
                          \o InvolveUser(a.id, u1),
                 {A} \cup NA \cup NB \cup NU(u1), {} \cup KA \cup KB \cup KU(u1))
      <4>1. {A} \subseteq {A} \cup NA \cup NB
        OBVIOUS
      <4> QED BY <2>1, <3>2, <4>1, BuildsThen
    <3>4. {A} \subseteq {A} \cup NA \cup NB \cup NU(u1)
      OBVIOUS
    <3> QED BY <2>1, <3>3, <3>4, BuildsThen
  <2>3. /\ NB \subseteq M4
        /\ {A} \subseteq M4 \cup ND
        /\ NU(u1) \cup NU(u2) \subseteq M4 \cup ND \cup NF
        /\ NF \cup NA \subseteq M4 \cup ND \cup NF \cup NH
    <3> HIDE DEF A, NA, NB, NU, ND, NF, NH
    <3> QED OBVIOUS
  <2>4. Begins(X, A, s4 \o DomainWrites(a) \o FileWrites(a) \o HostWrites(a) \o ProcessWrites(a),
               M4 \cup ND \cup NF \cup NH \cup N, K4 \cup KD \cup KF \cup KH \cup K)
    <3>0. \E B \in SUBSET (NU(u1) \cup NU(u2)) : Builds(X, B, HostWrites(a), NH, KH)
      BY <1>16
    <3> HIDE DEF X, A, NA, NB, NU, ND, KD, NF, KF, NH, KH, M4, K4, s4, u1, u2
    <3>1. Begins(X, A, s4 \o DomainWrites(a), M4 \cup ND, K4 \cup KD)
      BY <1>14, <2>2, <2>3, BuildsThen
    <3>2. Begins(X, A, s4 \o DomainWrites(a) \o FileWrites(a), M4 \cup ND \cup NF, K4 \cup KD \cup KF)
      BY <1>15, <2>3, <3>1, BuildsThen
    <3>3. Begins(X, A, s4 \o DomainWrites(a) \o FileWrites(a) \o HostWrites(a),
                 M4 \cup ND \cup NF \cup NH, K4 \cup KD \cup KF \cup KH)
      BY <2>3, <3>0, <3>2, BuildsThen
    <3> QED BY <1>18, <2>3, <3>3, BuildsThen
  <2>5. GraphWrites(a) = s4 \o DomainWrites(a) \o FileWrites(a) \o HostWrites(a) \o ProcessWrites(a)
    BY <1>4 DEF GraphWrites
  <2> HIDE DEF s4, X, NA, NB, NU, ND, KD, NF, KF, NH, KH, KA, KB, KU, A, u1, u2
  <2> QED BY <2>4, <2>5
<1>20. /\ GraphWrites(a) \in Seq(X) /\ Closed({}, GraphWrites(a))
       /\ MergedBy(GraphWrites(a)) = M8 /\ LinkedBy(GraphWrites(a)) = K8
  BY <1>19 DEF Begins, Builds
<1>21. FindsOf(a) \subseteq K8
  <2>1. FindsOf(a) = KA \cup KB \cup KU(u1) \cup KU(u2)
                       \cup (IF a.domain # NoField /\ a.dst # NoField
                             THEN {Link(Ip(a.dst), "RESOLVES_TO", Dom)} ELSE {})
                       \cup KH
    BY DEF FindsOf
  <2> QED BY <2>1
<1>22. MergedBy(GraphWrites(a)) \subseteq NodesOf(a) /\ LinkedBy(GraphWrites(a)) \subseteq LinksOf(a)
  <2> DEFINE s == GraphWrites(a)
  <2>1. s \in Seq(X)
    BY <1>20
  <2> HIDE DEF s
  <2>2. \A i \in 1 .. Len(s) : s[i] \in X
    BY <2>1, ElementOfSeq
  <2>3. MergedBy(s) \subseteq NodesOf(a)
    <3> SUFFICES ASSUME NEW x \in MergedBy(s) PROVE x \in NodesOf(a)
      OBVIOUS
    <3>1. PICK i \in 1 .. Len(s) : IsMerge(s[i]) /\ x = s[i].node
      BY <2>1, SeriesByPlace
    <3> QED BY <2>2, <3>1, WriteShapes
  <2>4. LinkedBy(s) \subseteq LinksOf(a)
    <3> SUFFICES ASSUME NEW x \in LinkedBy(s) PROVE x \in LinksOf(a)
      OBVIOUS
    <3>1. PICK i \in 1 .. Len(s) : ~IsMerge(s[i]) /\ x = s[i].link
      BY <2>1, SeriesByPlace
    <3> QED BY <2>2, <3>1, WriteShapes
  <2> QED BY <2>3, <2>4 DEF s
<1>23. Len(GraphWrites(a)) \in Nat \ {0} /\ GraphWrites(a)[1] = [node |-> A]
  <2>1. Len(GraphWrites(a)) \in Nat
    BY <1>20, LenProperties
  <2> QED BY <1>19, <2>1 DEF Begins
<1> QED BY <1>20, <1>21, <1>22, <1>23

\* Every node an alert writes is one, and only the alert itself is an alert.
LEMMA NodesAre ==
    ASSUME NEW a, NEW n \in NodesOf(a)
    PROVE  IsNode(n) /\ (n.label = "ALERT" => n = AlertNode(a))
<1>1. CASE n = AlertNode(a)
  BY <1>1 DEF AlertNode, Node, IsNode, Labels, Sco
<1>2. CASE n = ProcessOf(a)
  BY <1>2 DEF ProcessOf, Process, IsNode, Labels, Sco
<1>3. ASSUME NEW label \in {"IP_ADDRESS", "USER", "DOMAIN", "FILE", "WORKSTATION"}, NEW key,
             n = Node(label, key)
      PROVE  IsNode(n) /\ n.label # "ALERT"
  <2>1. n.label = label /\ n.key = key /\ label # "PROCESS" /\ label # "ALERT"
    BY <1>3 DEF Node
  <2> QED BY <1>3, <2>1 DEF IsNode, Labels, Sco
<1>4. CASE \E label \in {"IP_ADDRESS", "USER", "DOMAIN", "FILE", "WORKSTATION"}, key \in Keys(a) :
              n = Node(label, key)
  BY <1>3, <1>4
<1> QED BY <1>1, <1>2, <1>4 DEF NodesOf

\* The first k writes of an alert.
LEMMA PrefixWrites ==
    ASSUME NEW a, NEW k \in 0 .. Len(GraphWrites(a))
    PROVE  LET s == GraphWrites(a)
               p == SubSeq(s, 1, k)
           IN  /\ MergedBy(p) \subseteq NodesOf(a)
               /\ k = 0 => MergedBy(p) = {}
               /\ k # 0 => AlertNode(a) \in MergedBy(p)
               /\ LinksMade(p) \subseteq LinksOf(a) /\ IsFiniteSet(LinksMade(p))
               /\ \A l \in LinksMade(p) : {l.from, l.to} \subseteq graphNodes \cup MergedBy(p)
               /\ k = Len(s) => MergedBy(p) = MergedBy(s) /\ LinksMade(p) = LinkedBy(s)
<1> DEFINE s == GraphWrites(a)
           p == SubSeq(s, 1, k)
           X == WritesOf(a)
           Made(j) == /\ ~IsMerge(p[j])
                      /\ {p[j].link.from, p[j].link.to}
                            \subseteq graphNodes \cup MergedBy(SubSeq(p, 1, j - 1))
           J == {j \in 1 .. Len(p) : Made(j)}
<1>1. /\ s \in Seq(X) /\ Len(s) \in Nat \ {0} /\ s[1] = [node |-> AlertNode(a)]
      /\ Closed({}, s)
  BY AlertWrites
<1> HIDE DEF s
<1>2. k \in 0 .. Len(s)
  BY DEF s
<1>3. /\ p \in Seq(X) /\ Len(p) = k /\ \A i \in 1 .. k : p[i] = s[i]
      /\ \A x : x \in MergedBy(p) <=> \E i \in 1 .. k : IsMerge(s[i]) /\ x = s[i].node
  BY <1>1, <1>2, SeriesByPlace
<1>4. LinksMade(p) = {p[i].link : i \in J}
  BY DEF LinksMade
<1> HIDE DEF p
<1>5. \A i \in 1 .. k : i \in 1 .. Len(s) /\ s[i] \in X
  <2>1. \A i \in 1 .. Len(s) : s[i] \in X
    BY <1>1, ElementOfSeq
  <2> QED BY <1>1, <1>2, <2>1
<1>6. MergedBy(p) \subseteq NodesOf(a)
  <2>1. \A i \in 1 .. k : IsMerge(s[i]) => s[i].node \in NodesOf(a)
    BY <1>5, WriteShapes
  <2> QED BY <1>3, <2>1
<1>7. k = 0 => MergedBy(p) = {}
  <2>1. k = 0 => ~ \E i \in 1 .. k : TRUE
    OBVIOUS
  <2> QED BY <1>3, <2>1
<1>8. k # 0 => AlertNode(a) \in MergedBy(p)
  <2>1. k # 0 => 1 \in 1 .. k
    BY <1>1, <1>2
  <2>2. IsMerge(s[1]) /\ s[1].node = AlertNode(a)
    BY <1>1 DEF IsMerge
  <2> QED BY <1>3, <2>1, <2>2
<1>9. LinksMade(p) \subseteq LinksOf(a)
  <2>1. \A j \in J : p[j].link \in LinksOf(a)
    BY <1>3, <1>5, WriteShapes
  <2> HIDE DEF J
  <2> QED BY <1>4, <2>1
<1>10. IsFiniteSet(LinksMade(p))
  <2>1. IsFiniteSet(1 .. Len(p))
    BY <1>1, <1>2, <1>3, FS_Interval
  <2>2. J \subseteq 1 .. Len(p)
    OBVIOUS
  <2>3. IsFiniteSet(J)
    BY <2>1, <2>2, FS_Subset
  <2> HIDE DEF J
  <2>4. IsFiniteSet({p[i].link : i \in J})
    <3> DEFINE T == {p[i].link : i \in J}
               f == [i \in J |-> p[i].link]
    <3>1. f \in Surjection(J, T)
      BY DEF Surjection
    <3> HIDE DEF f, T
    <3>2. IsFiniteSet(T)
      BY <2>3, <3>1, FS_Surjection
    <3> QED BY <3>2 DEF T
  <2> QED BY <1>4, <2>4
<1>11. \A l \in LinksMade(p) : {l.from, l.to} \subseteq graphNodes \cup MergedBy(p)
  <2>1. \A j \in J : MergedBy(SubSeq(p, 1, j - 1)) \subseteq MergedBy(p)
    <3> SUFFICES ASSUME NEW j \in J, NEW x \in MergedBy(SubSeq(p, 1, j - 1))
                 PROVE  x \in MergedBy(p)
      OBVIOUS
    <3>1. j \in 1 .. k
      BY <1>3
    <3>2. j - 1 \in 0 .. Len(p) /\ \A i \in 1 .. j - 1 : i \in 1 .. k
      BY <1>1, <1>2, <1>3, <3>1
    <3>3. PICK i \in 1 .. j - 1 : IsMerge(p[i]) /\ x = p[i].node
      BY <1>3, <3>2, SeriesByPlace
    <3> QED BY <1>3, <3>2, <3>3
  <2>2. \A j \in J : {p[j].link.from, p[j].link.to}
                         \subseteq graphNodes \cup MergedBy(SubSeq(p, 1, j - 1))
    OBVIOUS
  <2> HIDE DEF J
  <2> QED BY <1>4, <2>1, <2>2
<1>12. ASSUME k = Len(s)
       PROVE  MergedBy(p) = MergedBy(s) /\ LinksMade(p) = LinkedBy(s)
  <2>1. p = s
    BY <1>1, <1>12, SubSeqFull DEF p
  <2>2. J = {j \in 1 .. Len(s) : ~IsMerge(s[j])}
    <3>1. \A j \in 1 .. Len(s) : ~IsMerge(s[j]) =>
             {s[j].link.from, s[j].link.to} \subseteq MergedBy(SubSeq(s, 1, j - 1))
      BY <1>1 DEF Closed
    <3> QED BY <2>1, <3>1
  <2>3. LinkedBy(s) = {s[i].link : i \in {j \in 1 .. Len(s) : ~IsMerge(s[j])}}
    <3>1. \A x : x \in LinkedBy(s) <=> \E i \in 1 .. Len(s) : ~IsMerge(s[i]) /\ x = s[i].link
      BY <1>1, SeriesByPlace
    <3> QED BY <3>1
  <2> QED BY <1>4, <2>1, <2>2, <2>3
<1> QED BY <1>6, <1>7, <1>8, <1>9, <1>10, <1>11, <1>12 DEF p, s

-----------------------------------------------------------------------------

\* The graph: its nodes and links are well formed, its alerts are filed, and a
\* foreign id of an address, a user or a domain was brought by another tool's
\* bundle or by the body of POST /entities.
BroughtIds == ForeignItems \cup NamedEntities
GraphOK ==
    /\ \A n \in graphNodes : IsNode(n)
    /\ \A l \in graphLinks : LinkOK(l) /\ {l.from, l.to} \subseteq graphNodes
    /\ IsFiniteSet(graphLinks)
    /\ foreignIds \subseteq graphNodes
    /\ \A n \in foreignIds : n.label \in {"IP_ADDRESS", "USER", "DOMAIN"} => n \in BroughtIds
    /\ DOMAIN filedUnder = {n.key : n \in {m \in graphNodes : m.label = "ALERT"}}
\* An alert that was written whole is in the graph.
WrittenOK ==
    \A a \in writtenWhole :
        /\ DOMAIN a.users = {1, 2}
        /\ AlertNode(a) \in graphNodes
ForensicInv ==
    /\ GraphOK /\ WrittenOK
    /\ AnsweredIsWritten /\ BundlesAreClosed /\ OneIdPerObservable

\* The alerts of an alert's node, and the nodes of an alert's id.
LEMMA AlertKeys ==
    ASSUME GraphOK
    PROVE  \A x : x \in DOMAIN filedUnder <=> Node("ALERT", x) \in graphNodes
<1>1. ASSUME NEW m \in graphNodes, m.label = "ALERT"
      PROVE  m = Node("ALERT", m.key)
  BY <1>1 DEF GraphOK, IsNode
<1>2. \A x : Node("ALERT", x).label = "ALERT" /\ Node("ALERT", x).key = x
  BY DEF Node
<1> QED BY <1>1, <1>2 DEF GraphOK

LEMMA WritesKeepGraph ==
    ASSUME ForensicInv, NEW a, NEW incident,
           NEW k \in 0 .. Len(GraphWrites(a)), WriteAlert(a, incident, k),
           DOMAIN a.users = {1, 2}
    PROVE  GraphOK' /\ WrittenOK' /\ AnsweredIsWritten'
<1> DEFINE s == GraphWrites(a)
           p == SubSeq(s, 1, k)
           M == MergedBy(p)
           K == LinksMade(p)
<1>1. /\ graphNodes' = graphNodes \cup M /\ graphLinks' = graphLinks \cup K
      /\ foreignIds' = foreignIds \ M
      /\ filedUnder' = IF k = 0 THEN filedUnder ELSE FileUnder(a.id, incident)
      /\ writtenWhole' = IF k = Len(s) THEN writtenWhole \cup {a} ELSE writtenWhole
  BY DEF WriteAlert, WriteGraph
<1>2. /\ M \subseteq NodesOf(a) /\ (k = 0 => M = {}) /\ (k # 0 => AlertNode(a) \in M)
      /\ K \subseteq LinksOf(a) /\ IsFiniteSet(K)
      /\ \A l \in K : {l.from, l.to} \subseteq graphNodes \cup M
      /\ k = Len(s) => M = MergedBy(s) /\ K = LinkedBy(s)
  BY PrefixWrites
<1>3. Len(s) # 0
  BY AlertWrites
<1> HIDE DEF s, M, K
<1>4. \A n \in M : IsNode(n) /\ (n.label = "ALERT" => n = AlertNode(a))
  BY <1>2, NodesAre
<1>5. \A x : Node("ALERT", x).label = "ALERT" /\ Node("ALERT", x).key = x
  BY DEF Node
<1>6. GraphOK'
  <2>1. \A n \in graphNodes' : IsNode(n)
    BY <1>1, <1>4 DEF ForensicInv, GraphOK
  <2>2. \A l \in graphLinks' : LinkOK(l) /\ {l.from, l.to} \subseteq graphNodes'
    BY <1>1, <1>2 DEF ForensicInv, GraphOK, LinksOf
  <2>3. IsFiniteSet(graphLinks')
    BY <1>1, <1>2, FS_Union DEF ForensicInv, GraphOK
  <2>4. /\ foreignIds' \subseteq graphNodes'
        /\ \A n \in foreignIds' : n.label \in {"IP_ADDRESS", "USER", "DOMAIN"} => n \in BroughtIds
    BY <1>1 DEF ForensicInv, GraphOK
  <2>5. DOMAIN filedUnder' = {n.key : n \in {m \in graphNodes' : m.label = "ALERT"}}
    <3>1. DOMAIN filedUnder = {n.key : n \in {m \in graphNodes : m.label = "ALERT"}}
      BY DEF ForensicInv, GraphOK
    <3>2. CASE k = 0
      BY <1>1, <1>2, <3>1, <3>2
    <3>3. CASE k # 0
      <4>1. DOMAIN filedUnder' = DOMAIN filedUnder \cup {a.id}
        BY <1>1, <3>3 DEF FileUnder
      <4>2. {m \in graphNodes' : m.label = "ALERT"}
              = {m \in graphNodes : m.label = "ALERT"} \cup {AlertNode(a)}
        BY <1>1, <1>2, <1>4, <1>5, <3>3 DEF AlertNode
      <4>3. AlertNode(a).key = a.id
        BY <1>5 DEF AlertNode
      <4> QED BY <3>1, <4>1, <4>2, <4>3
    <3> QED BY <3>2, <3>3
  <2> QED BY <2>1, <2>2, <2>3, <2>4, <2>5 DEF GraphOK
<1>7. WrittenOK'
  <2> SUFFICES ASSUME NEW b \in writtenWhole'
               PROVE  DOMAIN b.users = {1, 2} /\ AlertNode(b) \in graphNodes'
    BY DEF WrittenOK
  <2>1. CASE b \in writtenWhole
    BY <1>1, <2>1 DEF ForensicInv, WrittenOK
  <2>2. CASE b = a /\ k = Len(s)
    BY <1>1, <1>2, <1>3, <2>2
  <2> QED BY <1>1, <2>1, <2>2
<1>8. AnsweredIsWritten'
  <2> SUFFICES ASSUME NEW b \in writtenWhole'
               PROVE  /\ MergedBy(GraphWrites(b)) \subseteq graphNodes'
                      /\ LinkedBy(GraphWrites(b)) \subseteq graphLinks'
    BY DEF AnsweredIsWritten
  <2>1. CASE b \in writtenWhole
    BY <1>1, <2>1 DEF ForensicInv, AnsweredIsWritten
  <2>2. CASE b = a /\ k = Len(s)
    BY <1>1, <1>2, <2>2 DEF s
  <2> QED BY <1>1, <2>1, <2>2
<1> QED BY <1>6, <1>7, <1>8

\* What a bundle of an alert holds.
LEMMA AlertBundleIsWhole ==
    ASSUME NEW a
    PROVE  /\ \A l \in AlertBundle(a).links : {l[1], l[2]} \subseteq AlertBundle(a).objects
           /\ \A o \in AlertBundle(a).objects : o.own
<1> DEFINE incident == Object("incident", a.id, TRUE)
           found == AlertObservables(a)
           T == Traffic(a.src, a.dst)
           objects == {Object("identity", "wazuh", TRUE), incident} \cup found
           ips == {ip \in {a.src, a.dst} : ip # NoField}
           Ips == {Object("IP_ADDRESS", ip, TRUE) : ip \in ips}
           Users == {Object("USER", u, TRUE) : u \in ToSet(a.users) \ {NoField}}
           Domains == {Object("DOMAIN", d, TRUE) : d \in {a.domain} \ {NoField}}
           Files == {Object("FILE", f, TRUE) : f \in {FileKey(a)} \ {NoField}}
           Traffics == IF Cardinality(ips) = 2 THEN {T} ELSE {}
<1>1. /\ AlertBundle(a).objects = objects
      /\ AlertBundle(a).links = {<<incident, o>> : o \in found}
              \cup {<<o, Object("IP_ADDRESS", o.key, TRUE)>> : o \in found \cap {T}}
              \cup {<<o, Object("IP_ADDRESS", o.at, TRUE)>> : o \in found \cap {T}}
  BY DEF AlertBundle
<1>2. found = Ips \cup Traffics \cup Users \cup Domains \cup Files
  BY DEF AlertObservables
<1>3. \A t, k : Object(t, k, TRUE).own = TRUE /\ Object(t, k, TRUE).type = t
  BY DEF Object
<1>4. T.own = TRUE /\ T.type = "network-traffic" /\ T.key = a.src /\ T.at = a.dst
  BY DEF Traffic
<1>5. T \in found => Cardinality(ips) = 2
  <2>1. \A o \in Ips \cup Users \cup Domains \cup Files : o.type # "network-traffic"
    <3> HIDE DEF ips
    <3>1. ASSUME NEW o \in Ips PROVE o.type # "network-traffic"
      <4>1. PICK ip \in ips : o = Object("IP_ADDRESS", ip, TRUE)
        OBVIOUS
      <4> QED BY <4>1 DEF Object
    <3>2. \A o \in Users : o.type # "network-traffic"
      BY <1>3
    <3>3. \A o \in Domains : o.type # "network-traffic"
      BY <1>3
    <3>4. \A o \in Files : o.type # "network-traffic"
      BY <1>3
    <3> HIDE DEF Ips, Users, Domains, Files
    <3> QED BY <3>1, <3>2, <3>3, <3>4
  <2>2. T \notin Ips \cup Users \cup Domains \cup Files
    BY <1>4, <2>1
  <2> HIDE DEF Ips, Users, Domains, Files, T, ips
  <2> QED BY <1>2, <2>2
<1>6. Cardinality(ips) = 2 => a.src \in ips /\ a.dst \in ips
  <2>1. CASE a.src = NoField \/ a.dst = NoField
    <3>1. ips = {} \/ \E x : ips = {x}
      BY <2>1
    <3>2. Cardinality(ips) # 2
      <4> HIDE DEF ips
      <4>1. ips = {} => Cardinality(ips) = 0
        BY FS_EmptySet
      <4>2. (\E x : ips = {x}) => Cardinality(ips) = 1
        BY FS_Singleton
      <4> QED BY <3>1, <4>1, <4>2
    <3> QED BY <3>2
  <2>2. CASE a.src # NoField /\ a.dst # NoField
    BY <2>2
  <2> QED BY <2>1, <2>2
<1>7. T \in found => /\ Object("IP_ADDRESS", T.key, TRUE) \in found
                     /\ Object("IP_ADDRESS", T.at, TRUE) \in found
  <2> HIDE DEF T, ips
  <2> QED BY <1>2, <1>4, <1>5, <1>6
<1>8. \A o \in objects : o.own = TRUE
  <2>1. \A o \in found : o.own = TRUE
    <3>1. \A o \in Ips \cup Users \cup Domains \cup Files : o.own = TRUE
      BY <1>3, Zenon
    <3> HIDE DEF Ips, Users, Domains, Files, T, ips
    <3> QED BY <1>2, <1>4, <3>1
  <2> HIDE DEF found
  <2> QED BY <1>3, <2>1
<1> HIDE DEF found, T, incident
<1>9. \A l \in AlertBundle(a).links : {l[1], l[2]} \subseteq objects
  <2> SUFFICES ASSUME NEW l \in AlertBundle(a).links PROVE l[1] \in objects /\ l[2] \in objects
    OBVIOUS
  <2> DEFINE S == Object("IP_ADDRESS", T.key, TRUE)
             D == Object("IP_ADDRESS", T.at, TRUE)
  <2>0. incident \in objects /\ found \subseteq objects
    OBVIOUS
  <2> HIDE DEF objects
  <2>1. ASSUME NEW o \in found, l = <<incident, o>>
        PROVE  l[1] \in objects /\ l[2] \in objects
    BY <2>0, <2>1
  <2>2. ASSUME T \in found, l = <<T, S>>
        PROVE  l[1] \in objects /\ l[2] \in objects
    <3> HIDE DEF S
    <3>1. S \in found
      BY <1>7, <2>2 DEF S
    <3> QED BY <2>0, <2>2, <3>1
  <2>3. ASSUME T \in found, l = <<T, D>>
        PROVE  l[1] \in objects /\ l[2] \in objects
    <3> HIDE DEF D
    <3>1. D \in found
      BY <1>7, <2>3 DEF D
    <3> QED BY <2>0, <2>3, <3>1
  <2>4. \/ \E o \in found : l = <<incident, o>>
        \/ T \in found /\ l = <<T, S>>
        \/ T \in found /\ l = <<T, D>>
    BY <1>1
  <2> QED BY <2>1, <2>2, <2>3, <2>4
<1> QED BY <1>1, <1>8, <1>9

\* The subgraph of an incident lies in the graph, with the ends of its links.
LEMMA SubgraphIsWhole ==
    ASSUME GraphOK, NEW incident
    PROVE  /\ Subgraph(incident).nodes \subseteq graphNodes
           /\ \A l \in Subgraph(incident).links :
                {l.from, l.to} \subseteq Subgraph(incident).nodes
<1>1. \A S \in SUBSET graphNodes : Hop(S) \subseteq graphNodes /\ S \subseteq Hop(S)
  BY DEF GraphOK, Hop
<1>2. AlertsOf(incident) \subseteq graphNodes
  BY AlertKeys DEF AlertsOf
<1> DEFINE three == Hop(Hop(Hop(AlertsOf(incident))))
<1>3. three \subseteq graphNodes
  BY <1>1, <1>2
<1>4. /\ Subgraph(incident).nodes = Hop(three)
      /\ Subgraph(incident).links = {l \in graphLinks : l.from \in three}
  BY DEF Subgraph
<1> HIDE DEF three
<1>5. \A l \in graphLinks : l.from \in three => l.from \in Hop(three) /\ l.to \in Hop(three)
  BY DEF Hop
<1> QED BY <1>1, <1>3, <1>4, <1>5

\* What a bundle of an incident holds.
LEMMA IncidentBundleIsWhole ==
    ASSUME GraphOK, NEW incident
    PROVE  LET b == IncidentBundle(incident)
           IN  /\ \A l \in b.links : {l[1], l[2]} \subseteq b.objects
               /\ \A o \in b.objects : \/ o.type \notin Labels /\ o.own
                                       \/ \E n \in graphNodes : o = ObjectOf(n)
<1> DEFINE g == Subgraph(incident)
           objects == {ObjectOf(n) : n \in g.nodes}
           x == Object("x-wazuh-incident", incident, TRUE)
           observed == {o \in objects : o.type \in Sco}
<1>1. /\ IncidentBundle(incident).objects = objects \cup {x}
      /\ IncidentBundle(incident).links
           = {<<ObjectOf(l.from), ObjectOf(l.to)>> : l \in g.links}
             \cup {<<o, r>> : o \in {y \in objects : y.type = "ALERT"}, r \in observed}
  BY DEF IncidentBundle
<1>2. x.type \notin Labels /\ x.own
  BY DEF Object, Labels, Sco
<1>3. /\ g.nodes \subseteq graphNodes
      /\ \A l \in g.links : {l.from, l.to} \subseteq g.nodes
  BY SubgraphIsWhole
<1> HIDE DEF g, x
<1>4. \A l \in g.links : {ObjectOf(l.from), ObjectOf(l.to)} \subseteq objects
  BY <1>3
<1>5. \A o \in objects : \E n \in graphNodes : o = ObjectOf(n)
  BY <1>3
<1> HIDE DEF objects
<1> QED BY <1>1, <1>2, <1>4, <1>5

\* A node that is exported is read back as it was, apart from a process.
LEMMA ReadBackOfNode ==
    ASSUME NEW n \in graphNodes, IsNode(n)
    PROVE  /\ ObjectOf(n).type = n.label /\ ObjectOf(n).own <=> n \notin foreignIds
           /\ IsNode(ReadBack(ObjectOf(n))) /\ ReadBack(ObjectOf(n)).label = n.label
           /\ n.label # "PROCESS" => /\ ReadBack(ObjectOf(n)) = n
                                     /\ ObjectOf(n).at = ReadBack(ObjectOf(n)).at
<1> DEFINE o == ObjectOf(n)
<1>1. /\ o.type = n.label /\ o.key = n.key /\ o.at = n.at
      /\ o.own <=> n \notin foreignIds
  BY DEF ObjectOf
<1> HIDE DEF o
<1>2. n.label \in Labels
  BY DEF IsNode
<1>3. CASE n.label = "PROCESS"
  BY <1>1, <1>2, <1>3 DEF ReadBack, Process, IsNode, o
<1>4. CASE n.label # "PROCESS"
  <2>1. ReadBack(o) = Node(n.label, n.key) /\ n = Node(n.label, n.key)
    BY <1>1, <1>4 DEF ReadBack, IsNode
  <2> QED BY <1>1, <1>4, <2>1 DEF o
<1> QED BY <1>3, <1>4

\* Pushing a whole bundle of known objects keeps what OpenCTI has whole.
LEMMA PushKeeps ==
    ASSUME ForensicInv, NEW b, PushBundle(b),
           \A l \in b.links : {l[1], l[2]} \subseteq b.objects,
           \A o \in b.objects : o.type \in {"IP_ADDRESS", "USER", "DOMAIN"} /\ ~o.own
                                   => Node(o.type, o.key) \in BroughtIds
    PROVE  BundlesAreClosed' /\ OneIdPerObservable'
<1>1. \/ ctiObjects' = ctiObjects \cup b.objects /\ ctiLinks' = ctiLinks \cup b.links
      \/ ctiObjects' = ctiObjects /\ ctiLinks' = ctiLinks
  BY DEF PushBundle
<1>2. BundlesAreClosed'
  BY <1>1 DEF ForensicInv, BundlesAreClosed
<1>3. OneIdPerObservable'
  BY <1>1 DEF ForensicInv, OneIdPerObservable, BroughtIds
<1> QED BY <1>2, <1>3

LEMMA PushAlertKeeps ==
    ASSUME ForensicInv, NEW a, PushBundle(AlertBundle(a))
    PROVE  BundlesAreClosed' /\ OneIdPerObservable'
BY AlertBundleIsWhole, PushKeeps

LEMMA PushIncidentKeeps ==
    ASSUME ForensicInv, NEW i, PushBundle(IncidentBundle(i))
    PROVE  BundlesAreClosed' /\ OneIdPerObservable'
<1> DEFINE b == IncidentBundle(i)
<1>1. /\ \A l \in b.links : {l[1], l[2]} \subseteq b.objects
      /\ \A o \in b.objects : \/ o.type \notin Labels /\ o.own
                              \/ \E n \in graphNodes : o = ObjectOf(n)
  BY IncidentBundleIsWhole DEF ForensicInv
<1> HIDE DEF b
<1>2. ASSUME NEW o \in b.objects, o.type \in {"IP_ADDRESS", "USER", "DOMAIN"}, ~o.own
      PROVE  Node(o.type, o.key) \in BroughtIds
  <2>1. PICK n \in graphNodes : o = ObjectOf(n)
    BY <1>1, <1>2
  <2>0. IsNode(n)
    BY DEF ForensicInv, GraphOK
  <2>2. n \in foreignIds /\ n.label = o.type /\ IsNode(n)
    BY <1>2, <2>0, <2>1 DEF ObjectOf
  <2>3. n \in BroughtIds
    BY <1>2, <2>2 DEF ForensicInv, GraphOK
  <2>4. n = Node(o.type, o.key)
    BY <1>2, <2>1, <2>2 DEF IsNode, ObjectOf
  <2> QED BY <2>3, <2>4
<1>3. PushBundle(b)
  BY DEF b
<1> QED BY <1>1, <1>2, <1>3, PushKeeps

\* What is read from a bundle joins the graph.
LEMMA ReadItemsKeep ==
    ASSUME ForensicInv, NEW nodes, NEW foreign, NEW under, ReadItems(nodes, foreign, under),
           \A n \in nodes : IsNode(n), foreign \subseteq nodes,
           \A n \in foreign : n.label \in {"IP_ADDRESS", "USER", "DOMAIN"}
                                => n \in BroughtIds
    PROVE  ForensicInv'
<1> DEFINE alerts == {n.key : n \in {m \in nodes : m.label = "ALERT"}}
<1>1. /\ graphNodes' = graphNodes \cup nodes
      /\ foreignIds' = (foreignIds \ nodes) \cup {n \in foreign : n.label # "ALERT"}
      /\ filedUnder' = [x \in DOMAIN filedUnder \cup alerts |->
                           IF x \in alerts THEN under ELSE filedUnder[x]]
      /\ UNCHANGED <<graphLinks, ctiObjects, ctiLinks, writtenWhole>>
  BY DEF ReadItems
<1>2. GraphOK'
  <2>1. \A n \in graphNodes' : IsNode(n)
    BY <1>1 DEF ForensicInv, GraphOK
  <2>2. /\ \A l \in graphLinks' : LinkOK(l) /\ {l.from, l.to} \subseteq graphNodes'
        /\ IsFiniteSet(graphLinks')
    BY <1>1 DEF ForensicInv, GraphOK
  <2>3. /\ foreignIds' \subseteq graphNodes'
        /\ \A n \in foreignIds' : n.label \in {"IP_ADDRESS", "USER", "DOMAIN"} => n \in BroughtIds
    BY <1>1 DEF ForensicInv, GraphOK
  <2>4. DOMAIN filedUnder' = {n.key : n \in {m \in graphNodes' : m.label = "ALERT"}}
    <3>1. DOMAIN filedUnder' = DOMAIN filedUnder \cup alerts
      BY <1>1
    <3>2. DOMAIN filedUnder = {n.key : n \in {m \in graphNodes : m.label = "ALERT"}}
      BY DEF ForensicInv, GraphOK
    <3> QED BY <1>1, <3>1, <3>2
  <2> QED BY <2>1, <2>2, <2>3, <2>4 DEF GraphOK
<1>3. WrittenOK'
  BY <1>1 DEF ForensicInv, WrittenOK
<1>4. AnsweredIsWritten'
  BY <1>1 DEF ForensicInv, AnsweredIsWritten
<1>5. BundlesAreClosed' /\ OneIdPerObservable'
  BY <1>1 DEF ForensicInv, BundlesAreClosed, OneIdPerObservable
<1> QED BY <1>2, <1>3, <1>4, <1>5 DEF ForensicInv

LEMMA ForensicInitHolds == ForensicInit => ForensicInv
<1> SUFFICES ASSUME ForensicInit PROVE ForensicInv
  OBVIOUS
<1> USE DEF ForensicInit
<1>1. GraphOK
  <2>1. DOMAIN filedUnder = {}
    OBVIOUS
  <2> QED BY <2>1, FS_EmptySet DEF GraphOK
<1> QED BY <1>1 DEF ForensicInv, WrittenOK, AnsweredIsWritten, BundlesAreClosed, OneIdPerObservable

\* One step per request.
LEMMA ForensicNextKeeps ==
    ASSUME ForensicInv, [ForensicNext]_forensicVars
    PROVE  ForensicInv'
<1>1. CASE UNCHANGED forensicVars
  <2>1. /\ UNCHANGED <<graphNodes, graphLinks, filedUnder, foreignIds>>
        /\ UNCHANGED <<ctiObjects, ctiLinks, writtenWhole>>
    BY <1>1 DEF forensicVars
  <2>2. GraphOK'
    BY <2>1 DEF ForensicInv, GraphOK
  <2>3. WrittenOK' /\ AnsweredIsWritten'
    BY <2>1 DEF ForensicInv, WrittenOK, AnsweredIsWritten
  <2>4. BundlesAreClosed' /\ OneIdPerObservable'
    BY <2>1 DEF ForensicInv, BundlesAreClosed, OneIdPerObservable
  <2> QED BY <2>2, <2>3, <2>4 DEF ForensicInv
<1>2. ASSUME UNCHANGED <<ctiObjects, ctiLinks>>
      PROVE  BundlesAreClosed' /\ OneIdPerObservable'
  BY <1>2 DEF ForensicInv, BundlesAreClosed, OneIdPerObservable
<1>3. ASSUME UNCHANGED <<graphNodes, graphLinks, filedUnder, foreignIds, writtenWhole>>
      PROVE  GraphOK' /\ WrittenOK' /\ AnsweredIsWritten'
  <2>1. GraphOK'
    BY <1>3 DEF ForensicInv, GraphOK
  <2>2. WrittenOK' /\ AnsweredIsWritten'
    BY <1>3 DEF ForensicInv, WrittenOK, AnsweredIsWritten
  <2> QED BY <2>1, <2>2
<1>4. ASSUME NEW b \in Bodies, PostAlert(b)
      PROVE  ForensicInv'
  <2>1. DOMAIN AsAlert(b).users = {1, 2}
    <3>1. AsAlert(b).users = <<b.user, NoField>>
      BY DEF AsAlert
    <3> QED BY <3>1
  <2>2. PICK k \in 0 .. Len(GraphWrites(AsAlert(b))) :
           /\ WriteAlert(AsAlert(b), b.incident, k)
           /\ PushBundle(AlertBundle(AsAlert(b))) \/ UNCHANGED <<ctiObjects, ctiLinks>>
    BY <1>4 DEF PostAlert
  <2>3. GraphOK' /\ WrittenOK' /\ AnsweredIsWritten'
    BY <2>1, <2>2, WritesKeepGraph
  <2>4. BundlesAreClosed' /\ OneIdPerObservable'
    BY <1>2, <2>2, PushAlertKeeps
  <2> QED BY <2>3, <2>4 DEF ForensicInv
<1>5. ASSUME NEW a \in WazuhAlerts, SyncAlert(a)
      PROVE  ForensicInv'
  <2>1. DOMAIN a.users = {1, 2}
    BY ForensicAssumption
  <2>2. PICK k \in 0 .. Len(GraphWrites(a)) : WriteAlert(a, IncidentOf(a), k)
    BY <1>5 DEF SyncAlert
  <2>3. GraphOK' /\ WrittenOK' /\ AnsweredIsWritten'
    BY <2>1, <2>2, WritesKeepGraph
  <2>4. BundlesAreClosed' /\ OneIdPerObservable'
    BY <1>5, PushAlertKeeps DEF SyncAlert
  <2> QED BY <2>3, <2>4 DEF ForensicInv
<1>6. ASSUME NEW a \in WazuhAlerts, ForwardAlert(a)
      PROVE  ForensicInv'
  <2>1. BundlesAreClosed' /\ OneIdPerObservable'
    BY <1>6, PushAlertKeeps DEF ForwardAlert
  <2>2. GraphOK' /\ WrittenOK' /\ AnsweredIsWritten'
    BY <1>3, <1>6 DEF ForwardAlert
  <2> QED BY <2>1, <2>2 DEF ForensicInv
<1>7. ASSUME NEW n \in Entities, NEW named \in BOOLEAN, PostEntity(n, named)
      PROVE  ForensicInv'
  <2>1. IsNode(n) /\ n.label # "ALERT"
    BY ForensicAssumption
  <2>2. /\ graphNodes' = graphNodes \cup {n}
        /\ named => n \in NamedEntities
        /\ foreignIds' = IF named THEN foreignIds \cup {n} ELSE foreignIds \ {n}
        /\ UNCHANGED <<graphLinks, filedUnder, ctiObjects, ctiLinks, writtenWhole>>
    BY <1>7 DEF PostEntity
  <2>3. GraphOK'
    <3>1. {m \in graphNodes' : m.label = "ALERT"} = {m \in graphNodes : m.label = "ALERT"}
      BY <2>1, <2>2
    <3>2. /\ foreignIds' \subseteq graphNodes'
          /\ \A m \in foreignIds' : m.label \in {"IP_ADDRESS", "USER", "DOMAIN"} => m \in BroughtIds
      BY <2>2 DEF ForensicInv, GraphOK, BroughtIds
    <3> QED BY <2>1, <2>2, <3>1, <3>2 DEF ForensicInv, GraphOK
  <2>4. WrittenOK' /\ AnsweredIsWritten'
    BY <2>2 DEF ForensicInv, WrittenOK, AnsweredIsWritten
  <2> QED BY <1>2, <2>2, <2>3, <2>4 DEF ForensicInv
<1>8. ASSUME NEW from \in Entities, NEW to \in Entities, PostRelationship(from, to)
      PROVE  ForensicInv'
  <2> DEFINE l == Link(from, "RELATED", to)
  <2>1. /\ {from, to} \subseteq graphNodes /\ graphLinks' = graphLinks \cup {l}
        /\ UNCHANGED <<graphNodes, filedUnder, foreignIds, ctiObjects, ctiLinks, writtenWhole>>
    BY <1>8 DEF PostRelationship
  <2>2. LinkOK(l) /\ {l.from, l.to} \subseteq graphNodes
    BY <2>1 DEF LinkOK, Link
  <2> HIDE DEF l
  <2>3. GraphOK'
    BY <2>1, <2>2, FS_AddElement DEF ForensicInv, GraphOK
  <2>4. WrittenOK' /\ AnsweredIsWritten'
    BY <2>1 DEF ForensicInv, WrittenOK, AnsweredIsWritten
  <2> QED BY <1>2, <2>1, <2>3, <2>4 DEF ForensicInv
<1>9. ASSUME PostForeignBundle
      PROVE  ForensicInv'
  <2>1. PICK items \in AllButOne(ForeignItems), under \in BundleIncidents : ReadItems(items, items, under)
    BY <1>9 DEF PostForeignBundle
  <2>2. items \subseteq ForeignItems
    BY DEF AllButOne
  <2>3. \A n \in items : IsNode(n) /\ n \in BroughtIds
    BY <2>2, ForensicAssumption DEF BroughtIds
  <2> QED BY <2>1, <2>3, ReadItemsKeep
<1>10. ASSUME NEW i, PostOwnBundle(i)
       PROVE  ForensicInv'
  <2> DEFINE objects == {o \in IncidentBundle(i).objects : o.type \in Labels}
  <2>1. PICK items \in AllButOne(objects), under \in BundleIncidents \cup {i} :
           ReadItems(ParsedBundle(items), ForeignAfter(items), under)
    BY <1>10 DEF PostOwnBundle
  <2>2. items \subseteq objects
    BY DEF AllButOne
  <2>3. \A o \in items : \E n \in graphNodes : o = ObjectOf(n)
    BY <2>2, IncidentBundleIsWhole DEF ForensicInv
  <2>4. \A n \in graphNodes : IsNode(n)
    BY DEF ForensicInv, GraphOK
  <2>5. \A n \in ParsedBundle(items) : IsNode(n)
    BY <2>3, <2>4, ReadBackOfNode DEF ParsedBundle
  <2>6. ForeignAfter(items) \subseteq ParsedBundle(items)
    BY <2>2 DEF ForeignAfter, ParsedBundle
  <2>7. ASSUME NEW m \in ForeignAfter(items), m.label \in {"IP_ADDRESS", "USER", "DOMAIN"}
        PROVE  m \in BroughtIds
    <3>1. PICK o \in items : m = ReadBack(o) /\ (~o.own \/ o.at # ReadBack(o).at)
      BY DEF ForeignAfter
    <3>2. PICK n \in graphNodes : o = ObjectOf(n)
      BY <2>3
    <3>3. n.label = m.label
      BY <2>4, <3>1, <3>2, ReadBackOfNode
    <3>4. m = n /\ n \in foreignIds
      <4>1. n.label # "PROCESS"
        BY <2>7, <3>3
      <4>2. ReadBack(o) = n /\ o.at = ReadBack(o).at
        BY <2>4, <3>2, <4>1, ReadBackOfNode
      <4>3. o.own = (n \notin foreignIds)
        BY <3>2 DEF ObjectOf
      <4> QED BY <3>1, <4>2, <4>3
    <3> QED BY <2>7, <3>4 DEF ForensicInv, GraphOK
  <2> QED BY <2>1, <2>5, <2>6, <2>7, ReadItemsKeep
<1>11. ASSUME NEW i, PushIncident(i)
       PROVE  ForensicInv'
  <2>1. BundlesAreClosed' /\ OneIdPerObservable'
    BY <1>11, PushIncidentKeeps DEF PushIncident
  <2>2. GraphOK' /\ WrittenOK' /\ AnsweredIsWritten'
    BY <1>3, <1>11 DEF PushIncident
  <2> QED BY <2>1, <2>2 DEF ForensicInv
<1> QED BY <1>1, <1>4, <1>5, <1>6, <1>7, <1>8, <1>9, <1>10, <1>11 DEF ForensicNext, Request

-----------------------------------------------------------------------------

LEMMA WrittenAreFound ==
    ASSUME ForensicInv
    PROVE  AnsweredIsFound
<1> SUFFICES ASSUME NEW a \in writtenWhole
             PROVE  /\ filedUnder[a.id] # NoField =>
                         /\ \A ip \in {a.src, a.dst} \ {NoField} :
                              filedUnder[a.id] \in FoundByIp(ip)
                         /\ \A u \in ToSet(a.users) \ {NoField} :
                              filedUnder[a.id] \in FoundByUser(u)
                         /\ a.domain # NoField /\ a.dst # NoField
                              => filedUnder[a.id] \in FoundByDomain(a.domain)
                    /\ \A b \in writtenWhole :
                         HostOf(a) # HostOf(b) /\ NoField \notin {HostOf(a), HostOf(b)}
                           => (ToSet(a.users) \cap ToSet(b.users)) \ {NoField}
                                \subseteq LateralMovement(2)
  BY DEF AnsweredIsFound
<1>1. \A b \in writtenWhole :
         /\ DOMAIN b.users = {1, 2}
         /\ FindsOf(b) \subseteq graphLinks
  BY AlertWrites DEF ForensicInv, WrittenOK, AnsweredIsWritten
<1>2. \A b \in writtenWhole : ToSet(b.users) = {b.users[1], b.users[2]}
  BY <1>1 DEF ToSet
<1> DEFINE A == AlertNode(a)
<1>3. A.label = "ALERT" /\ A.key = a.id
  BY DEF AlertNode, Node
<1>4. \A f, r, t : Link(f, r, t).from = f /\ Link(f, r, t).rel = r /\ Link(f, r, t).to = t
  BY DEF Link
<1>5. ASSUME NEW ip \in {a.src, a.dst} \ {NoField}, filedUnder[a.id] # NoField
      PROVE  filedUnder[a.id] \in FoundByIp(ip)
  <2>1. \E r : Link(A, r, Node("IP_ADDRESS", ip)) \in FindsOf(a)
    BY DEF FindsOf
  <2>2. PICK l \in graphLinks : l.from = A /\ l.to = Node("IP_ADDRESS", ip)
    BY <1>1, <1>4, <2>1
  <2> HIDE DEF A
  <2> QED BY <1>3, <1>5, <2>2 DEF FoundByIp
<1>6. ASSUME NEW u \in ToSet(a.users) \ {NoField}, filedUnder[a.id] # NoField
      PROVE  filedUnder[a.id] \in FoundByUser(u)
  <2>1. Link(A, "INVOLVES", Node("USER", u)) \in FindsOf(a)
    BY <1>2 DEF FindsOf
  <2>2. PICK l \in graphLinks : l.from = A /\ l.to = Node("USER", u)
    BY <1>1, <1>4, <2>1
  <2> HIDE DEF A
  <2> QED BY <1>3, <1>6, <2>2 DEF FoundByUser
<1>7. ASSUME a.domain # NoField, a.dst # NoField, filedUnder[a.id] # NoField
      PROVE  filedUnder[a.id] \in FoundByDomain(a.domain)
  <2>1. Link(Node("IP_ADDRESS", a.dst), "RESOLVES_TO", Node("DOMAIN", a.domain)) \in FindsOf(a)
    BY <1>7 DEF FindsOf
  <2>2. PICK l \in graphLinks : /\ l.from = Node("IP_ADDRESS", a.dst) /\ l.rel = "RESOLVES_TO"
                                /\ l.to = Node("DOMAIN", a.domain)
    BY <1>1, <1>4, <2>1
  <2>3. l.from.key = a.dst
    BY <2>2 DEF Node
  <2>4. filedUnder[a.id] \in FoundByIp(a.dst)
    BY <1>5, <1>7
  <2> QED BY <2>2, <2>3, <2>4 DEF FoundByDomain
<1>8. ASSUME NEW b \in writtenWhole, HostOf(a) # HostOf(b), HostOf(a) # NoField, HostOf(b) # NoField,
             NEW u \in (ToSet(a.users) \cap ToSet(b.users)) \ {NoField}
      PROVE  u \in LateralMovement(2)
  <2> DEFINE U == Node("USER", u)
             In(h) == Link(U, "LOGGED_IN_TO", Node("WORKSTATION", h))
  <2>1. In(a.agent) \in FindsOf(a) /\ In(b.agent) \in FindsOf(b)
    BY <1>2, <1>8 DEF FindsOf
  <2>2. a.agent # b.agent
    BY <1>8 DEF HostOf
  <2>3. In(a.agent) # In(b.agent)
    <3>1. In(a.agent).to.key = a.agent /\ In(b.agent).to.key = b.agent
      BY DEF Link, Node
    <3> QED BY <2>2, <3>1
  <2>4. In(a.agent) \in LogIns(u) /\ In(b.agent) \in LogIns(u)
    <3>1. In(a.agent) \in graphLinks /\ In(b.agent) \in graphLinks
      BY <1>1, <2>1
    <3> QED BY <1>4, <3>1 DEF LogIns
  <2>5. U \in graphNodes /\ U.label = "USER" /\ U.key = u
    <3>1. In(a.agent).from = U
      BY <1>4
    <3>2. In(a.agent).from \in graphNodes
      BY <2>4 DEF ForensicInv, GraphOK, LogIns
    <3> QED BY <3>1, <3>2 DEF Node
  <2>6. IsFiniteSet(LogIns(u))
    <3>1. LogIns(u) \subseteq graphLinks
      BY DEF LogIns
    <3> QED BY <3>1, FS_Subset DEF ForensicInv, GraphOK
  <2>7. Cardinality(LogIns(u)) >= 2
    <3>1. Cardinality(LogIns(u)) \in Nat
      BY <2>6, FS_CardinalityType
    <3> HIDE DEF In
    <3>2. Cardinality(LogIns(u)) # 0 /\ Cardinality(LogIns(u)) # 1
      BY <2>3, <2>4, <2>6, FS_EmptySet, FS_Singleton
    <3> QED BY <3>1, <3>2
  <2> HIDE DEF U
  <2> QED BY <2>5, <2>7 DEF LateralMovement
<1> QED BY <1>5, <1>6, <1>7, <1>8

LEMMA ChainsEnd ==
    ASSUME ForensicInv
    PROVE  ChainsEndAtDomains
<1> SUFFICES ASSUME NEW n \in graphNodes, n.label = "IP_ADDRESS",
                    \A l \in graphLinks :
                       l.rel = "RELATED" => l.from.label \notin {"IP_ADDRESS", "DOMAIN"}
             PROVE  \A r \in AttackChain(n.key) \ {n} : r.label = "DOMAIN"
  BY DEF ChainsEndAtDomains
<1> DEFINE Near(S) == \A r \in S : r = n \/ r.label = "DOMAIN"
<1>1. \A S : Near(S) => Near(Hop(S))
  <2> SUFFICES ASSUME NEW S, Near(S), NEW l \in graphLinks, l.from \in S
               PROVE  l.to.label = "DOMAIN"
    BY DEF Hop
  <2>1. LinkOK(l)
    BY DEF ForensicInv, GraphOK
  <2> QED BY <2>1 DEF LinkOK
<1>2. Node("IP_ADDRESS", n.key) = n
  BY DEF ForensicInv, GraphOK, IsNode
<1>3. Near({Node("IP_ADDRESS", n.key)})
  BY <1>2
<1> HIDE DEF Near
<1>4. Near(AttackChain(n.key))
  BY <1>1, <1>3 DEF AttackChain
<1> QED BY <1>4 DEF Near

LEMMA ForensicInvImplies ==
    ASSUME ForensicInv
    PROVE  ForensicsHold
<1>1. ForensicTypeOK
  BY DEF ForensicInv, GraphOK, ForensicTypeOK, IsNode
<1>2. ReadBackIsMerged
  <2> SUFFICES ASSUME NEW i, NEW n \in ParsedBundle(IncidentBundle(i).objects) \ graphNodes
               PROVE  n.label = "PROCESS"
    BY DEF ReadBackIsMerged
  <2>1. PICK o \in IncidentBundle(i).objects : o.type \in Labels /\ n = ReadBack(o)
    BY DEF ParsedBundle
  <2>2. PICK m \in graphNodes : o = ObjectOf(m)
    BY <2>1, IncidentBundleIsWhole DEF ForensicInv
  <2>3. IsNode(m)
    BY DEF ForensicInv, GraphOK
  <2>4. /\ ReadBack(ObjectOf(m)).label = m.label
        /\ m.label # "PROCESS" => ReadBack(ObjectOf(m)) = m
    BY <2>3, ReadBackOfNode
  <2> QED BY <2>1, <2>2, <2>4
<1> QED BY <1>1, <1>2, WrittenAreFound, ChainsEnd DEF ForensicInv, ForensicsHold

THEOREM ForensicsAreKept == ForensicSpec => []ForensicsHold
<1>1. ForensicInit => ForensicInv
  BY ForensicInitHolds
<1>2. ForensicInv /\ [ForensicNext]_forensicVars => ForensicInv'
  BY ForensicNextKeeps
<1>3. ForensicInv => ForensicsHold
  BY ForensicInvImplies
<1> QED BY <1>1, <1>2, <1>3, PTL DEF ForensicSpec
=============================================================================
