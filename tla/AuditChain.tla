------------------------------ MODULE AuditChain ------------------------------
(***************************************************************************)
(* The security proxy's audit log (mcp_security_proxy/app.py,              *)
(* governance.py): denied and decision events in two ring buffers, linked  *)
(* into one hash chain when the policy enables it, written to one history  *)
(* file after each event and read back at start.  Recorders and handlers   *)
(* run on the event loop without awaiting, so each is one step.            *)
(*                                                                         *)
(* A hash is a number handed out in order: compute_audit_chain_hash covers *)
(* the predecessor's hash and the payload, so no two events of a chain     *)
(* share one, and an altered payload no longer fits its hash.              *)
(***************************************************************************)
EXTENDS Naturals, Sequences, FiniteSets, Functions

CONSTANTS
  Buffers,      \* the ring buffers: denied events, decision events
  Limit,        \* maxlen of each of them
  MaxEvents,    \* bound: chained events
  MaxRestarts,  \* bound: restarts of the proxy
  MaxDamage,    \* bound: events of the history file altered or lost
  NoFile        \* the history file does not exist

Genesis == 0
NoHash == 0     \* chain_hash of an event recorded while the chain was off

Hashes == 1..MaxEvents
Event == [hash : Hashes \cup {NoHash}, prev : Hashes \cup {Genesis},
          seq : 0..MaxEvents, intact : BOOLEAN]
Plain == [hash |-> NoHash, prev |-> Genesis, seq |-> 0, intact |-> TRUE]
Log == [Buffers -> Seq(Event)]
Snapshot == [log : Log, head : Hashes \cup {Genesis}, chain : SUBSET Hashes]

ASSUME AuditAssumption ==
  /\ Limit \in [Buffers -> Nat \ {0}]
  /\ MaxEvents \in Nat
  /\ MaxRestarts \in Nat
  /\ MaxDamage \in Nat
  /\ NoFile \notin Snapshot

VARIABLES
  log,          \* the ring buffers, newest event first
  head,         \* _audit_chain_head
  seq,          \* _audit_chain_seq
  file,         \* the history file
  enabled,      \* governance.audit_chain.enabled in the live policy
  lastHash,     \* hashes handed out so far
  chain,        \* ghost: every event linked since genesis, evicted or not
  switchedOff,  \* ghost: the chain was switched off at some time
  restarts, damage

vars == <<log, head, seq, file, enabled, lastHash, chain, switchedOff, restarts,
          damage>>

AuditTypeOK ==
  /\ log \in Log
  /\ \A b \in Buffers : Len(log[b]) <= Limit[b]
  /\ head \in Hashes \cup {Genesis}
  /\ seq \in 0..MaxEvents
  /\ file \in Snapshot \cup {NoFile}
  /\ enabled \in BOOLEAN
  /\ lastHash \in 0..MaxEvents
  /\ chain \subseteq Hashes
  /\ switchedOff \in BOOLEAN
  /\ restarts \in 0..MaxRestarts
  /\ damage \in 0..MaxDamage

EmptyLog == [b \in Buffers |-> << >>]

Init ==
  /\ log = EmptyLog
  /\ head = Genesis
  /\ seq = 0
  /\ file = NoFile
  /\ enabled \in BOOLEAN
  /\ lastHash = 0
  /\ chain = {}
  /\ switchedOff = FALSE
  /\ restarts = 0
  /\ damage = 0

Chained(l) == {e \in UNION {Range(l[b]) : b \in Buffers} : e.hash # NoHash}
HashesOf(l) == {e.hash : e \in Chained(l)}

(***************************************************************************)
(* Recording.                                                              *)
(***************************************************************************)
\* deque.appendleft: the oldest event falls off a full buffer.
PushedPastLimit(s, e, limit) ==
  <<e>> \o SubSeq(s, 1, IF Len(s) <= limit THEN Len(s) ELSE limit)
Pushed(s, e, limit) ==
  <<e>> \o SubSeq(s, 1, IF Len(s) < limit THEN Len(s) ELSE limit - 1)

\* _persist_runtime_history replaces the file atomically, or raises OSError
\* after the buffers and the head have changed.
PersistBeforePush(saved) ==
  file' = IF saved THEN [log |-> log, head |-> head', chain |-> chain'] ELSE file
Persist(saved) ==
  file' = IF saved THEN [log |-> log', head |-> head', chain |-> chain']
          ELSE file

Unlinked(b) ==
  /\ ~enabled
  /\ log' = [log EXCEPT ![b] = Pushed(@, Plain, Limit[b])]
  /\ UNCHANGED <<head, seq, lastHash, chain>>

Linked(b) ==
  /\ enabled
  /\ lastHash < MaxEvents
  /\ lastHash' = lastHash + 1
  /\ seq' = seq + 1
  /\ head' = lastHash'
  /\ chain' = chain \cup {lastHash'}
  /\ log' = [log EXCEPT ![b] = Pushed(@,
       [hash |-> lastHash', prev |-> head, seq |-> seq', intact |-> TRUE], Limit[b])]

\* _record_denied_event, _record_decision_event
RecordEvent(b, saved) ==
  /\ Unlinked(b) \/ Linked(b)
  /\ Persist(saved)
  /\ UNCHANGED <<enabled, switchedOff, restarts, damage>>

\* _emit_discovery_alert: the alert is not part of the chain, but it writes the
\* file too, also after an event whose own write failed.
EmitAlert ==
  /\ UNCHANGED <<log, head, seq, enabled, lastHash, chain, switchedOff, restarts, damage>>
  /\ Persist(TRUE)

(***************************************************************************)
(* Policy reload, purge, restart.                                          *)
(***************************************************************************)
SwitchChain ==
  /\ enabled' = ~enabled
  /\ switchedOff' = (switchedOff \/ enabled)
  /\ UNCHANGED <<log, head, seq, file, lastHash, chain, restarts, damage>>

\* The file goes, if unlink succeeds; it raises after the buffers are cleared.
Unlink(deleted) == file' = IF deleted THEN NoFile ELSE file

ClearBuffers ==
  /\ log' = EmptyLog
  /\ head' = Genesis
  /\ seq' = 0
  /\ chain' = {}

\* _purge_runtime_history_store(clear_runtime_buffers)
Purge(clear, deleted) ==
  /\ Unlink(deleted)
  /\ IF clear
     THEN ClearBuffers
     ELSE UNCHANGED <<log, head, seq, chain>>
  /\ UNCHANGED <<enabled, lastHash, switchedOff, restarts, damage>>

\* The last chain_seq still in the restored buffers.
RestartedSeq(l) == 0
RestoredSeq(l) ==
  CHOOSE n \in 0..MaxEvents :
    /\ \A e \in Chained(l) : e.seq <= n
    /\ n = 0 \/ \E e \in Chained(l) : e.seq = n

GenesisHead(snapshot) == Genesis
RestoredHead(snapshot) == snapshot.head

\* The module level of app.py, then _load_runtime_history.
Restart ==
  /\ restarts < MaxRestarts
  /\ restarts' = restarts + 1
  /\ IF file = NoFile THEN ClearBuffers
     ELSE /\ log' = file.log
          /\ head' = RestoredHead(file)
          /\ seq' = RestoredSeq(file.log)
          /\ chain' = file.chain
  /\ UNCHANGED <<file, enabled, lastHash, switchedOff, damage>>

(***************************************************************************)
(* The history file is damaged: an event's payload changes, or it is lost. *)
(***************************************************************************)
Altered(s, i) == [s EXCEPT ![i].intact = FALSE]
Removed(s, i) == SubSeq(s, 1, i - 1) \o SubSeq(s, i + 1, Len(s))

DamageFile ==
  /\ damage < MaxDamage
  /\ damage' = damage + 1
  /\ file # NoFile
  /\ \E b \in Buffers : \E i \in DOMAIN file.log[b] :
       \E s \in {Altered(file.log[b], i), Removed(file.log[b], i)} :
         file' = [file EXCEPT !.log[b] = s]
  /\ UNCHANGED <<log, head, seq, enabled, lastHash, chain, switchedOff, restarts>>

Next ==
  \/ \E b \in Buffers, saved \in BOOLEAN : RecordEvent(b, saved)
  \/ EmitAlert
  \/ SwitchChain
  \/ \E clear, deleted \in BOOLEAN : Purge(clear, deleted)
  \/ Restart
  \/ DamageFile

Spec == Init /\ [][Next]_vars

(***************************************************************************)
(* verify_audit_chain: from the tip back along chain_prev.                 *)
(***************************************************************************)
EventOf(l, h) == CHOOSE e \in Chained(l) : e.hash = h

\* _resolve_audit_chain_tip; every chained event of this program has a seq.
Tip(l, h) ==
  IF h # Genesis THEN h
  ELSE (CHOOSE e \in Chained(l) : \A f \in Chained(l) : f.seq <= e.seq).hash

Report(valid, partial, verified) ==
  [valid |-> valid, partial |-> partial, verified |-> verified]

ReachedGenesis == Report(TRUE, FALSE, {})
LostPredecessor == Report(TRUE, TRUE, {})

\* One step of the walk, at the event with hash i.
WalkStep(l, walk, i) ==
  IF i = Genesis THEN ReachedGenesis
  ELSE IF i \notin HashesOf(l) THEN LostPredecessor
  ELSE IF ~EventOf(l, i).intact THEN Report(FALSE, FALSE, {})
  ELSE [walk[EventOf(l, i).prev] EXCEPT !.verified = @ \cup {i}]

\* Every link goes to an earlier hash, so the walk never meets a cycle.
Verification(l, h) ==
  LET walk[i \in Hashes \cup {Genesis}] == WalkStep(l, walk, i)
  IN  IF Chained(l) = {} THEN Report(TRUE, FALSE, {})
      ELSE IF Tip(l, h) \notin HashesOf(l) THEN Report(FALSE, FALSE, {})
      ELSE walk[Tip(l, h)]

\* /admin/audit-integrity
Integrity == Verification(log, head)

(***************************************************************************)
(* Properties.                                                             *)
(***************************************************************************)
\* As long as the chain was never switched off and the file never damaged, the
\* integrity report is valid: no eviction, failed write, purge or restart
\* makes an honest log look broken (governance.py:356-358).
HonestLogVerifies == ~switchedOff /\ damage = 0 => Integrity.valid

\* A report that is valid and not partial vouches for every event linked since
\* genesis, whatever was evicted, lost or altered.
CompleteReportIsTrue ==
  Integrity.valid /\ ~Integrity.partial /\ Chained(log) # {}
    => Integrity.verified = chain

\* The log is one chain: no two buffered events claim the same predecessor,
\* after any restart or purge (app.py:463-470, 516).
NoFork == \A e, f \in Chained(log) : e.prev = f.prev => e.hash = f.hash

\* A link goes to the event numbered just before (app.py:465-469, 519-530).
LinksAscend ==
  \A e, f \in Chained(log) : e.prev = f.hash => e.seq = f.seq + 1

(* A log nobody touched verifies, and a report that is complete vouches    *)
(* for every event it covers.                                              *)
ReportsAreTrue == HonestLogVerifies /\ CompleteReportIsTrue

(* The events are one chain: no two follow the same one, and their numbers *)
(* ascend along it.                                                        *)
ChainHolds == NoFork /\ LinksAscend
===============================================================================
