---------------------------- MODULE AlertPoller -----------------------------
(*****************************************************************************)
(* The copy of Wazuh alerts to OpenCTI                                       *)
(* (phase4/forensics/opencti_sync.py): a poller that keeps a watermark in    *)
(* memory, and a backfill.  Time is in milliseconds of a short second: the   *)
(* query is sent in whole seconds, the watermark is kept in milliseconds.    *)
(*****************************************************************************)
EXTENDS Integers, FiniteSets, FiniteSetsExt

CONSTANTS
    IndexedAlerts,   \* alerts of the minimum level, in the order they are raised
    PerSecond,       \* milliseconds of a second
    Batch,           \* batch_size
    Lookback,        \* lookback_minutes, in milliseconds
    MaxTime,         \* bound: milliseconds
    MaxPollerStarts  \* bound: starts of the service

ASSUME PollerAssumption ==
    /\ IndexedAlerts = 1 .. Cardinality(IndexedAlerts) /\ IsFiniteSet(IndexedAlerts)
    /\ PerSecond \in Nat \ {0} /\ Batch \in Nat \ {0}
    /\ Lookback \in Nat /\ MaxTime \in Nat /\ MaxPollerStarts \in Nat

VARIABLES
    time,
    raised,     \* alert -> its timestamp, or Never
    indexed,    \* alerts the indexer answers with
    poll,       \* the cycle under way, or the end of the last one: [pc, began, batch]
    watermark,  \* Never before the first cycle of a start
    pushed,     \* alerts OpenCTI has
    excused,    \* alerts that may be missing there for a reason known
    pollerStarts

pollerVars == <<time, raised, indexed, poll, watermark, pushed, excused, pollerStarts>>

Never == -1
Second(t) == t - (t % PerSecond)
Resting == [pc |-> "rest", began |-> time, batch |-> {}]

PollerInit ==
    /\ time = 0 /\ raised = [a \in IndexedAlerts |-> Never] /\ indexed = {}
    /\ poll = [pc |-> "rest", began |-> 0, batch |-> {}] /\ watermark = Never
    /\ pushed = {} /\ excused = {} /\ pollerStarts = 1

Millisecond ==
    /\ time < MaxTime
    /\ time' = time + 1
    /\ UNCHANGED <<raised, indexed, poll, watermark, pushed, excused, pollerStarts>>

NextRaised ==
    {a \in IndexedAlerts :
        raised[a] = Never /\ \A b \in IndexedAlerts : b < a => raised[b] # Never}
NewestSecond(alerts) == Max({raised[a] : a \in alerts})

\* The watermark is, or is about to be, past this very millisecond
Overtaken ==
    \/ watermark # Never /\ Second(watermark) > time
    \/ poll.batch # {} /\ NewestSecond(poll.batch) = time

\* An alert is in the index at once, or later and then excused
Raise(a, prompt) ==
    /\ a \in NextRaised
    /\ raised' = [raised EXCEPT ![a] = time]
    /\ indexed' = IF prompt THEN indexed \union {a} ELSE indexed
    /\ excused' = IF ~prompt \/ Overtaken THEN excused \union {a} ELSE excused
    /\ UNCHANGED <<time, poll, watermark, pushed, pollerStarts>>

Index(a) ==
    /\ raised[a] # Never /\ a \notin indexed
    /\ indexed' = indexed \union {a}
    /\ UNCHANGED <<time, raised, poll, watermark, pushed, excused, pollerStarts>>

From(t) == {a \in indexed : raised[a] >= t}

\* The newest of them, at most Batch
Fetched(matching, batch) ==
    /\ batch \subseteq matching
    /\ Cardinality(batch) = Min({Cardinality(matching), Batch})
    /\ \A a \in batch, b \in matching \ batch : raised[a] >= raised[b]

FirstWatermark == IF time > Lookback THEN time - Lookback ELSE 0

StartCycle ==
    /\ poll.pc = "rest"
    /\ watermark # Never => time > poll.began   \* it slept in between
    /\ poll' = [poll EXCEPT !.pc = "fetch", !.began = time]
    /\ watermark' = IF watermark = Never THEN FirstWatermark ELSE watermark
    \* what an earlier start or the lookback left behind is excused
    /\ excused' = IF watermark = Never
                  THEN excused \union {a \in IndexedAlerts :
                                         raised[a] # Never /\ raised[a] < Second(FirstWatermark)}
                  ELSE excused
    /\ UNCHANGED <<time, raised, indexed, pushed, pollerStarts>>

\* The start of the query: the watermark without its milliseconds
Start == Second(watermark)

Fetch(batch) ==
    /\ poll.pc = "fetch"
    /\ Fetched(From(Start), batch)
    /\ excused' = excused \union (From(Start) \ batch)   \* crowded out
    /\ poll' = [poll EXCEPT !.pc = "push", !.batch = batch]
    /\ UNCHANGED <<time, raised, indexed, watermark, pushed, pollerStarts>>

\* The query fails: the next cycle tries again
FetchFails ==
    /\ poll.pc = "fetch"
    /\ poll' = Resting
    /\ UNCHANGED <<time, raised, indexed, watermark, pushed, excused, pollerStarts>>

\* Mutant of AfterEmpty: the time of the answer
AfterEmptyNow == time
AfterEmpty == poll.began

\* Mutants of AfterBatch: the time of the push; a second after the newest
AfterBatchNow(batch) == time
AfterBatchSecond(batch) == NewestSecond(batch) + PerSecond
\* One millisecond after the newest, whether or not it was pushed
AfterBatch(batch) == NewestSecond(batch) + 1

\* The answer arrives, and each of its alerts is pushed; OpenCTI skips what it has
Push(failed) ==
    /\ poll.pc = "push" /\ failed \subseteq poll.batch
    /\ pushed' = pushed \union (poll.batch \ failed)
    /\ excused' = excused \union failed
    /\ watermark' = IF poll.batch = {} THEN AfterEmpty ELSE AfterBatch(poll.batch)
    /\ poll' = Resting
    /\ UNCHANGED <<time, raised, indexed, pollerStarts>>

\* sync_alerts: the newest of the last hours, without the watermark
Backfill(batch, failed) ==
    /\ Fetched(indexed, batch) /\ failed \subseteq batch /\ batch # {}
    /\ pushed' = pushed \union (batch \ failed)
    /\ UNCHANGED <<time, raised, indexed, poll, watermark, excused, pollerStarts>>

RestartPoller ==
    /\ pollerStarts < MaxPollerStarts
    /\ pollerStarts' = pollerStarts + 1
    /\ poll' = Resting /\ watermark' = Never
    /\ UNCHANGED <<time, raised, indexed, pushed, excused>>

PollerNext ==
    \/ Millisecond \/ StartCycle \/ FetchFails \/ RestartPoller
    \/ \E a \in IndexedAlerts : Index(a) \/ \E prompt \in BOOLEAN : Raise(a, prompt)
    \/ \E batch \in SUBSET indexed :
          Fetch(batch) \/ \E failed \in SUBSET batch : Backfill(batch, failed)
    \/ \E failed \in SUBSET poll.batch : Push(failed)

PollerSpec == PollerInit /\ [][PollerNext]_pollerVars

-----------------------------------------------------------------------------
(* Properties *)

\* Types of the poller.
PollerTypeOK ==
    /\ time \in 0 .. MaxTime
    /\ raised \in [IndexedAlerts -> -1 .. MaxTime]
    /\ indexed \union pushed \union excused \union poll.batch \subseteq IndexedAlerts
    /\ pushed \union poll.batch \subseteq indexed
    /\ poll.pc \in {"rest", "fetch", "push"} /\ poll.began \in 0 .. MaxTime
    /\ watermark \in -1 .. MaxTime + 1

\* What the poller passes over is accounted for: an alert older than the
\* watermark's second is in OpenCTI, or it was indexed late, crowded out of its
\* batch, raised while the service was down, of the same millisecond as the
\* newest one of a batch, or its push failed.
NothingIsPassedOver ==
    poll.pc = "rest" /\ watermark # Never =>
        \A a \in indexed : raised[a] < Second(watermark) => a \in pushed \union excused

\* While the service runs the watermark never falls back below its second, so the
\* query never starts earlier than the one before; within the second it may fall.
WatermarkKeepsItsSecond ==
    [][watermark # Never /\ watermark' # Never
           => Second(watermark') >= Second(watermark)]_pollerVars

\* What the watermark leaves behind is accounted for, and the watermark goes on.
PollerHolds == [](PollerTypeOK /\ NothingIsPassedOver) /\ WatermarkKeepsItsSecond
=============================================================================
