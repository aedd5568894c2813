----------------------------- MODULE PhaseCalls -----------------------------
(*****************************************************************************)
(* Phase 4 (phase4/server.py) calls Phase 3 from its event loop and blocks   *)
(* it until the answer or a timeout; Phase 3, where a run pauses for an      *)
(* approval, posts to Phase 4 before it answers, and waits at most 10 s.     *)
(* Every failure, a late answer among them, moves a call on to the next      *)
(* address, which leads to the same Phase 3.                                 *)
(*****************************************************************************)
EXTENDS Naturals, Sequences, FiniteSets

CONSTANTS
    AddressCount, \* PHASE3_BASE_URLS
    MaxAsks       \* bound: requests to Phase 4 that call Phase 3

ASSUME CallsAssumption == AddressCount \in Nat \ {0} /\ MaxAsks \in Nat

VARIABLES
    caller,   \* the event loop of Phase 4
    work,     \* the calls Phase 3 took, in order
    waits,    \* is the grouping still waiting for its confirmation?
    inbox,    \* of Phase 4: calls of Phase 3 whose approval it has not handled
    rows,     \* calls with an approval row
    heard,    \* calls whose answer Phase 4 got
    asks      \* requests so far

callsVars == <<caller, work, waits, inbox, rows, heard, asks>>

CallKinds == {"run", "resume"}   \* /phase3/run; the confirmation of a grouping
IdleLoop == [pc |-> "idle", kind |-> "run", address |-> 1]
PhaseCallIds == 1 .. Len(work)
MaxCalls == AddressCount * MaxAsks

CallsInit ==
    /\ caller = IdleLoop /\ work = << >> /\ waits = TRUE
    /\ inbox = {} /\ rows = {} /\ heard = {} /\ asks = 0

Ask(kind) ==
    /\ caller.pc = "idle" /\ asks < MaxAsks
    /\ caller' = [pc |-> "trying", kind |-> kind, address |-> 1]
    /\ asks' = asks + 1
    /\ UNCHANGED <<work, waits, inbox, rows, heard>>

\* Mutant of Onward: one address too many
OnwardPast ==
    IF caller.address <= AddressCount
    THEN [caller EXCEPT !.pc = "trying", !.address = @ + 1]
    ELSE IdleLoop
\* The next address, or 502
Onward ==
    IF caller.address < AddressCount
    THEN [caller EXCEPT !.pc = "trying", !.address = @ + 1]
    ELSE IdleLoop

\* The address refuses, or Phase 3 has no such grouping (404)
AddressRefuses ==
    /\ caller.pc = "trying"
    /\ caller' = Onward
    /\ UNCHANGED <<work, waits, inbox, rows, heard, asks>>

\* Mutant of StillWaits: the confirmation leaves it where it is
StillWaitsAfter(kind) == waits
\* A confirmation takes the grouping out of those that wait
StillWaits(kind) == waits /\ kind # "resume"

TakenUp ==
    /\ caller.pc = "trying"
    /\ caller.kind = "resume" => waits
    /\ work' = Append(work, [kind |-> caller.kind, pc |-> "working", ask |-> asks])
    /\ waits' = StillWaits(caller.kind)
    /\ caller' = [caller EXCEPT !.pc = "waiting"]
    /\ UNCHANGED <<inbox, rows, heard, asks>>

(* Phase 3 *)

Pause(k) ==
    /\ work[k].pc = "working" /\ work[k].kind = "run"
    /\ work' = [work EXCEPT ![k].pc = "posting"]
    /\ inbox' = inbox \union {k}
    /\ UNCHANGED <<caller, waits, rows, heard, asks>>

Finish(k) ==
    /\ work[k].pc = "working"
    /\ work' = [work EXCEPT ![k].pc = "over"]
    /\ UNCHANGED <<caller, waits, inbox, rows, heard, asks>>

\* 10 s without an answer; what was posted stays posted
GiveUpPost(k) ==
    /\ work[k].pc = "posting"
    /\ work' = [work EXCEPT ![k].pc = "over"]
    /\ UNCHANGED <<caller, waits, inbox, rows, heard, asks>>

(* Phase 4 *)

\* Mutant of Handles: a request whose sender has gone is dropped
HandlesIfAwaited(k) == work[k].pc = "posting"
\* A request is handled though nobody waits for its answer
Handles(k) == TRUE

CreateRow(k) ==
    /\ caller.pc = "idle" /\ k \in inbox
    /\ inbox' = inbox \ {k}
    /\ rows' = IF Handles(k) THEN rows \union {k} ELSE rows
    /\ work' = [work EXCEPT ![k].pc = "over"]
    /\ UNCHANGED <<caller, waits, heard, asks>>

LastCall == Len(work)

\* Mutant of AfterAnswer: the loop over the addresses goes on
AfterAnswerOnward == Onward
AfterAnswer == IdleLoop

\* Groups that were confirmed are stored only here
AnswerArrives ==
    /\ caller.pc = "waiting" /\ work[LastCall].pc = "over"
    /\ heard' = heard \union {LastCall}
    /\ caller' = AfterAnswer
    /\ UNCHANGED <<work, waits, inbox, rows, asks>>

\* Mutant of GivesUp: only confirmations have a timeout
GivesUpOnResume == caller.kind = "resume"
GivesUp == TRUE

\* 25 s for a run of an ingested alert, 120 s otherwise, or a lost connection
TimedOut ==
    /\ caller.pc = "waiting" /\ GivesUp
    /\ caller' = Onward
    /\ UNCHANGED <<work, waits, inbox, rows, heard, asks>>

CallsNext ==
    \/ \E kind \in CallKinds : Ask(kind)
    \/ AddressRefuses \/ TakenUp \/ AnswerArrives \/ TimedOut
    \/ \E k \in PhaseCallIds : Pause(k) \/ Finish(k) \/ GiveUpPost(k) \/ CreateRow(k)

\* The event loop goes on where it can; that Phase 3 ever finishes is not assumed
CallsFairness ==
    /\ WF_callsVars(AddressRefuses) /\ WF_callsVars(TimedOut)
    /\ WF_callsVars(\E k \in PhaseCallIds : CreateRow(k))

CallsSpec == CallsInit /\ [][CallsNext]_callsVars /\ CallsFairness

-----------------------------------------------------------------------------
(* Properties *)

\* Types of the calls.
CallsTypeOK ==
    /\ caller \in [pc : {"idle", "trying", "waiting"}, kind : CallKinds,
                   address : 1 .. AddressCount]
    /\ Len(work) <= MaxCalls
    /\ \A k \in PhaseCallIds :
          work[k].pc \in {"working", "posting", "over"} /\ work[k].ask \in 1 .. MaxAsks
    /\ inbox \union rows \union heard \subseteq PhaseCallIds
    /\ waits \in BOOLEAN

\* A request begins a run again only while none of its calls was answered: once
\* Phase 4 has heard of a run it begins no other for the same request.
NothingBegunAfterAnAnswer ==
    \A j, k \in PhaseCallIds : j < k /\ work[j].ask = work[k].ask => j \notin heard

\* A grouping is confirmed once, however often its confirmation is sent: so the
\* groups are stored at most once, and if that answer is lost never.
GroupingConfirmedOnce ==
    Cardinality({k \in PhaseCallIds : work[k].kind = "resume"}) <= 1

\* The two services never wait for each other for ever: the loop comes back to
\* its other requests even if Phase 3 never answers.
LoopComesBack == caller.pc # "idle" ~> caller.pc = "idle"

\* Every run that paused for an approval gets its row, though the loop may have
\* been held by the very call that began it.
EveryPauseRecorded == \A k \in 1 .. MaxCalls : k \in inbox ~> k \in rows

\* Calls that time out begin nothing that is known to have been begun, and
\* confirm a grouping once.
CallsBeginOnce == CallsTypeOK /\ NothingBegunAfterAnAnswer /\ GroupingConfirmedOnce

\* The loop comes back from every call, and then records what was posted to it.
CallsComeBack == LoopComesBack /\ EveryPauseRecorded
=============================================================================
