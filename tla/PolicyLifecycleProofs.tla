----------------------- MODULE PolicyLifecycleProofs -----------------------
(***************************************************************************)
(* Invariance proofs about the two policy files of the system, and about    *)
(* the firewall that works by the second.                                   *)
(*                                                                          *)
(* PolicyLifecycle, the policy of the security proxy, whose handlers take   *)
(* turns: what a handler may rely on at each of its steps is the invariant, *)
(* that is, which steps belong to which kind of handler, what the step      *)
(* before it has put on disk, and that the proposal it applies is pending.  *)
(*                                                                          *)
(* GuardPolicy, the policy of AgentGuard, whose updates run on threads and  *)
(* overlap: the invariant says how far a request got that overlapped none.  *)
(*                                                                          *)
(* AgentGuard at work: lemmas about risks and about what scanners find and  *)
(* leave, then how far the call under way was scanned, and the events.      *)
(***************************************************************************)
EXTENDS PolicyLifecycle, AgentGuard, FiniteSetTheorems, SequenceTheorems,
        NaturalsInduction, TLAPS

-----------------------------------------------------------------------------
(* The policy of the security proxy.                                       *)

\* The steps each kind of handler takes, and the proposal it applies
StepsOfKind ==
    /\ handler.kind = "manual" => handler.step \in {"record", "list"}
    /\ handler.kind = "console" => handler.step \in {"backup", "write", "reload"}
    /\ handler.kind = "patch" => handler.step \in {"write", "reload"}
    /\ handler.proposal # 0 =>
          /\ handler.kind = "update"
          /\ proposals[handler.proposal] = [policy |-> handler.policy, status |-> "pending"]

\* Once written and loaded, the handler's policy is in the file and in force
AppliedInv ==
    /\ handler.step = "reload" => policyFile = handler.policy
    /\ handler.kind = "update" /\ handler.step \in {"record", "list", "close"} =>
          policyFile = handler.policy /\ live = policyFile

\* What is about to be replaced is kept, step by step
KeptInv ==
    /\ handler.step = "keep" => policyFile \in Policies
    /\ handler.step = "listkept" => records[Len(records)] = policyFile
    /\ handler.kind = "update" /\ handler.step \in {"backup", "write"} /\ Versioned(live) =>
          versions # << >> /\ records[versions[1]] = policyFile
    /\ handler.kind \in {"update", "console"} /\ handler.step = "write" =>
          policyFile \in backups

\* A version saved is not on the list until it is listed
UnlistedInv ==
    handler.step \in {"listkept", "list"} =>
        records # << >> /\ \A k \in DOMAIN versions : versions[k] < Len(records)

PolicyInv ==
    /\ PolicyIsKept
    /\ StepsOfKind
    /\ AppliedInv
    /\ KeptInv
    /\ UnlistedInv

----------------------------------------------------------------------------
(* The step relation, arranged by what a step does to the handler.          *)

\* What holds of the handler a request begins
BeginsAs(kind, p, i, step) ==
    \/ /\ kind = "update" /\ step = "keep" /\ policyFile \in Policies
       /\ i # 0 => proposals[i] = [policy |-> p, status |-> "pending"]
    \/ kind = "console" /\ step = "backup" /\ i = 0
    \/ kind = "patch" /\ step = "write" /\ i = 0
    \/ kind = "manual" /\ step = "record" /\ i = 0

HandlerBegins ==
    \E kind \in Writers \cup {"manual"}, p \in Policies, i \in 0 .. Len(proposals),
       step \in Steps :
          BeginsAs(kind, p, i, step) /\ Begin(kind, p, i, step) /\ UNCHANGED proposals

ProposalFiled == \E p \in Policies : handler = Idle /\ File(p)

PolicyStep ==
    \/ HandlerBegins \/ ProposalFiled
    \/ \E i \in DOMAIN proposals : Reject(i)
    \/ ReloadRequest
    \/ Keep \/ ListKept \/ Backup \/ Write \/ Reload \/ Record \/ List \/ Close
    \/ \E alive \in BOOLEAN : Interrupt(alive)
    \/ Start
    \/ \E p \in Policies \cup {Unreadable} : Edit(p)

\* Every request is refused, files a proposal or begins a handler.
LEMMA StepsOfTheProxy ==
    ASSUME PolicyTypeOK, PolicyNext
    PROVE  PolicyStep
<1> USE DEF PolicyTypeOK, HandlerBegins, BeginsAs, Steps, Writers
<1>1. CASE \E p \in Policies : \E direct \in BOOLEAN : Update(p, direct)
  <2>1. PICK p \in Policies, direct \in BOOLEAN : Update(p, direct)
    BY <1>1
  <2>2. CASE Queued(live) /\ ~direct
    BY <2>1, <2>2 DEF Update, ProposalFiled, PolicyStep
  <2>3. CASE ~(Queued(live) /\ ~direct)
    <3>1. policyFile \in Policies /\ Begin("update", p, 0, "keep") /\ UNCHANGED proposals
      BY <2>1, <2>3 DEF Update
    <3>2. 0 \in 0 .. Len(proposals)
      OBVIOUS
    <3> QED BY <3>1, <3>2 DEF PolicyStep
  <2> QED BY <2>2, <2>3
<1>2. CASE \E p \in Policies : ApplyBundle(p) \/ ConsoleWrite(p) \/ Patch(p)
  <2>1. PICK p \in Policies : ApplyBundle(p) \/ ConsoleWrite(p) \/ Patch(p)
    BY <1>2
  <2>2. 0 \in 0 .. Len(proposals)
    OBVIOUS
  <2>3. CASE ApplyBundle(p)
    BY <2>2, <2>3 DEF ApplyBundle, PolicyStep
  <2>4. CASE ConsoleWrite(p)
    BY <2>2, <2>4 DEF ConsoleWrite, PolicyStep
  <2>5. CASE Patch(p)
    BY <2>2, <2>5 DEF Patch, PolicyStep
  <2> QED BY <2>1, <2>3, <2>4, <2>5
<1>3. CASE \E p \in Policies : Propose(p)
  BY <1>3 DEF Propose, ProposalFiled, PolicyStep
<1>4. CASE \E v \in DOMAIN records : Rollback(v)
  <2>1. PICK v \in DOMAIN records : Rollback(v)
    BY <1>4
  <2>2. records[v] \in Policies /\ 0 \in 0 .. Len(proposals)
    OBVIOUS
  <2>3. policyFile \in Policies /\ Begin("update", records[v], 0, "keep") /\ UNCHANGED proposals
    BY <2>1 DEF Rollback
  <2> QED BY <2>2, <2>3 DEF PolicyStep
<1>5. CASE \E i \in DOMAIN proposals : Approve(i)
  <2>1. PICK i \in DOMAIN proposals : Approve(i)
    BY <1>5
  <2> DEFINE Filed == [policy : Policies, status : {"pending", "approved", "rejected"}]
  <2>2. proposals[i] \in Filed /\ i \in 0 .. Len(proposals)
    <3>1. proposals \in Seq(Filed)
      OBVIOUS
    <3> HIDE DEF Filed
    <3>2. i \in 1 .. Len(proposals) /\ Len(proposals) \in Nat
      BY <3>1, LenProperties
    <3> QED BY <3>1, <3>2, ElementOfSeq
  <2>3. /\ policyFile \in Policies /\ UNCHANGED proposals
        /\ Begin("update", proposals[i].policy, i, "keep")
        /\ proposals[i].status = "pending"
    BY <2>1 DEF Approve
  <2>4. proposals[i] = [policy |-> proposals[i].policy, status |-> "pending"]
    BY <2>2, <2>3
  <2>5. proposals[i].policy \in Policies
    BY <2>2
  <2> QED BY <2>2, <2>3, <2>4, <2>5 DEF PolicyStep
<1>6. CASE ManualSnapshot
  <2>1. policyFile \in Policies /\ 0 \in 0 .. Len(proposals)
    BY <1>6 DEF ManualSnapshot
  <2> QED BY <1>6, <2>1 DEF ManualSnapshot, PolicyStep
<1>7. CASE Refuse \/ CrashProxy
  BY <1>7 DEF Refuse, CrashProxy, PolicyStep
<1> QED BY <1>1, <1>2, <1>3, <1>4, <1>5, <1>6, <1>7 DEF PolicyNext, PolicyStep

\* The list of versions with the newest one in front: it is not empty, names no
\* version twice and keeps to its length.
LEMMA ListedIsNewest ==
    ASSUME records \in Seq(Policies), records # << >>,
           versions \in Seq(DOMAIN records),
           \A j, k \in DOMAIN versions : j < k => versions[j] > versions[k],
           \A k \in DOMAIN versions : versions[k] < Len(records)
    PROVE  /\ Listed \in Seq(DOMAIN records)
           /\ Listed # << >> /\ Len(Listed) <= MaxVersions
           /\ Listed[1] = Len(records)
           /\ \A j, k \in DOMAIN Listed : j < k => Listed[j] > Listed[k]
<1> DEFINE one == <<Len(records)>>
           all == one \o versions
           size == IF Len(all) > MaxVersions THEN MaxVersions ELSE Len(all)
           S == DOMAIN records
<1>1. Len(records) \in S /\ S \subseteq Nat
  BY EmptySeq, LenProperties
<1>2. one \in Seq(S) /\ Len(one) = 1 /\ one[1] = Len(records)
  BY <1>1
<1>3. /\ all \in Seq(S)
      /\ Len(all) = 1 + Len(versions)
      /\ \A i \in 1 .. 1 + Len(versions) :
            all[i] = IF i <= 1 THEN one[i] ELSE versions[i - 1]
  <2> HIDE DEF one, S
  <2>1. versions \in Seq(S)
    BY DEF S
  <2>2. /\ one \o versions \in Seq(S)
        /\ Len(one \o versions) = Len(one) + Len(versions)
        /\ \A i \in 1 .. Len(one) + Len(versions) :
              (one \o versions)[i] = IF i <= Len(one) THEN one[i] ELSE versions[i - Len(one)]
    BY ZenonT(60), <1>2, <2>1, ConcatProperties
  <2> QED BY <1>2, <2>2
<1>4. Listed = SubSeq(all, 1, size)
  BY DEF Listed
<1> HIDE DEF one, all
<1>5. Len(versions) \in Nat /\ DOMAIN versions = 1 .. Len(versions)
  BY LenProperties
<1>6. size \in Nat /\ size >= 1 /\ size <= Len(all) /\ size <= MaxVersions
  BY <1>3, <1>5, PolicyAssumption
<1> HIDE DEF size
<1>7. \A i \in 1 .. size : all[i] \in S
  BY <1>3, <1>6, ElementOfSeq
<1>8. /\ Listed \in Seq(S)
      /\ Len(Listed) = size
      /\ \A i \in 1 .. size : Listed[i] = all[i]
  <2> HIDE DEF S
  <2>1. /\ SubSeq(all, 1, size) \in Seq(S)
        /\ Len(SubSeq(all, 1, size)) = IF 1 <= size THEN size - 1 + 1 ELSE 0
        /\ \A i \in 1 .. size - 1 + 1 : SubSeq(all, 1, size)[i] = all[1 + i - 1]
    <3>1. 1 \in Int /\ size \in Int
      BY <1>6
    <3> QED BY <1>7, <3>1, SubSeqProperties
  <2>2. \A i \in 1 .. size : 1 + i - 1 = i /\ i \in 1 .. size - 1 + 1
    BY <1>6
  <2>3. Len(Listed) = size
    BY <1>4, <1>6, <2>1
  <2> QED BY <1>4, <2>1, <2>2, <2>3
<1>9. DOMAIN Listed = 1 .. size
  BY <1>8, LenProperties
<1>10. Listed[1] = Len(records)
  BY <1>2, <1>3, <1>5, <1>6, <1>8
<1>11. \A i \in 2 .. size : Listed[i] = versions[i - 1] /\ i - 1 \in DOMAIN versions
  <2>1. SUFFICES ASSUME NEW i \in 2 .. size
                 PROVE  Listed[i] = versions[i - 1] /\ i - 1 \in DOMAIN versions
    OBVIOUS
  <2>2. size <= 1 + Len(versions)
    BY <1>3, <1>6
  <2>3. /\ i \in 1 .. size /\ i \in 1 .. 1 + Len(versions) /\ ~(i <= 1)
        /\ i - 1 \in 1 .. Len(versions)
    BY <1>5, <1>6, <2>2
  <2>4. all[i] = versions[i - 1]
    BY <1>3, <2>3
  <2> QED BY <1>5, <1>8, <2>3, <2>4
<1>12. ASSUME NEW j \in DOMAIN Listed, NEW k \in DOMAIN Listed, j < k
       PROVE  Listed[j] > Listed[k]
  <2>1. j \in Nat /\ k \in Nat /\ j >= 1 /\ k \in 2 .. size
    BY <1>6, <1>9, <1>12
  <2>2. Listed[k] = versions[k - 1] /\ k - 1 \in DOMAIN versions
    BY <1>11, <2>1
  <2>3. versions[k - 1] \in Nat /\ Len(records) \in Nat
    BY <1>1, <2>2
  <2>4. CASE j = 1
    BY <1>10, <2>2, <2>3, <2>4
  <2>5. CASE j # 1
    <3>1. Listed[j] = versions[j - 1] /\ j - 1 \in DOMAIN versions /\ j - 1 < k - 1
      BY SMTT(30), <1>6, <1>9, <1>11, <1>12, <2>1, <2>5
    <3> QED BY <2>2, <3>1
  <2> QED BY <2>4, <2>5
<1> QED BY <1>6, <1>8, <1>9, <1>10, <1>12

----------------------------------------------------------------------------
(* Types.                                                                   *)

Filing == [policy : Policies, status : {"pending", "approved", "rejected"}]

\* Types of what is on disk and in memory besides the handler
StateTypes ==
    /\ policyFile \in Policies \cup {Unreadable}
    /\ live \in Loadable
    /\ up \in BOOLEAN
    /\ backups \subseteq Policies \cup {Unreadable}
    /\ answered \in Policies \cup {Nothing}
    /\ mishaps \in 0 .. MaxMishaps

\* Types of the handler
HandlerTypes ==
    /\ handler \in Busy \cup {Idle}
    /\ ~up => handler = Idle

ProposalTypes == proposals \in Seq(Filing)

VersionTypes ==
    /\ records \in Seq(Policies)
    /\ versions \in Seq(DOMAIN records)
    /\ Len(versions) <= MaxVersions

LEMMA TypesInParts ==
    PolicyTypeOK <=> StateTypes /\ HandlerTypes /\ ProposalTypes /\ VersionTypes
BY DEF PolicyTypeOK, StateTypes, HandlerTypes, ProposalTypes, VersionTypes, Filing

LEMMA StateTypesKept ==
    ASSUME PolicyTypeOK, PolicyStep
    PROVE  StateTypes'
<1> USE PolicyAssumption DEF StateTypes
<1>0. StateTypes /\ HandlerTypes
  BY TypesInParts
<1>1. handler # Idle => handler.policy \in Policies
  BY <1>0 DEF HandlerTypes, Busy
<1>2. CASE HandlerBegins \/ ProposalFiled \/ \E i \in DOMAIN proposals : Reject(i)
  BY <1>0, <1>2 DEF HandlerBegins, Begin, ProposalFiled, File, Reject
<1>3. CASE ReloadRequest \/ Start
  BY <1>0, <1>3 DEF ReloadRequest, Start
<1>4. CASE Keep \/ ListKept
  BY <1>0, <1>4 DEF Keep, ListKept
<1>5. CASE Backup \/ Write
  BY <1>0, <1>1, <1>5 DEF Backup, Write, At, Idle
<1>6. CASE Reload
  BY <1>0, <1>1, <1>6 DEF Reload, At, Idle, Answer, GoTo
<1>7. CASE Record \/ List \/ Close
  BY <1>0, <1>1, <1>7 DEF Record, List, Close, At, Idle, Answer, GoTo, CloseOrAnswer
<1>8. CASE \E alive \in BOOLEAN : Interrupt(alive)
  BY <1>0, <1>8 DEF Interrupt, Torn
<1>9. CASE \E p \in Policies \cup {Unreadable} : Edit(p)
  BY <1>0, <1>9 DEF Edit
<1> QED BY <1>2, <1>3, <1>4, <1>5, <1>6, <1>7, <1>8, <1>9, PolicyStep DEF PolicyStep

LEMMA HandlerTypesKept ==
    ASSUME PolicyTypeOK, PolicyStep
    PROVE  HandlerTypes' /\ ProposalTypes'
<1> DEFINE Sized(n) == [kind : Writers \cup {"manual"}, policy : Policies,
                        proposal : 0 .. n, step : Steps]
<1>0. StateTypes /\ HandlerTypes /\ ProposalTypes
  BY TypesInParts
<1>1. Len(proposals) \in Nat /\ DOMAIN proposals = 1 .. Len(proposals)
  BY <1>0, LenProperties DEF ProposalTypes
<1>2. handler # Idle => up /\ handler \in Sized(Len(proposals))
  BY <1>0 DEF HandlerTypes, Busy
<1>3. ASSUME NEW step \in Steps, handler # Idle, GoTo(step), UNCHANGED up,
             ProposalTypes', Len(proposals') = Len(proposals)
      PROVE  HandlerTypes'
  <2>1. handler' \in Sized(Len(proposals))
    BY <1>2, <1>3 DEF GoTo
  <2> QED BY <1>2, <1>3, <2>1 DEF HandlerTypes, Busy
<1>4. CASE UNCHANGED proposals
  <2>1. ProposalTypes' /\ Len(proposals') = Len(proposals)
    BY <1>0, <1>4 DEF ProposalTypes
  <2>2. UNCHANGED <<handler, up>> => HandlerTypes'
    BY <1>0, <1>4 DEF HandlerTypes, Busy
  <2>3. handler' = Idle => HandlerTypes'
    BY DEF HandlerTypes
  <2>4. CASE HandlerBegins
    <3>1. PICK kind \in Writers \cup {"manual"}, p \in Policies,
               i \in 0 .. Len(proposals), step \in Steps : Begin(kind, p, i, step)
      BY <2>4 DEF HandlerBegins
    <3>2. handler' \in Sized(Len(proposals)) /\ up'
      BY <3>1 DEF Begin
    <3> QED BY <1>4, <2>1, <3>2 DEF HandlerTypes, Busy
  <2>5. CASE ReloadRequest
    BY <2>1, <2>2, <2>5 DEF ReloadRequest
  <2>6. CASE Keep \/ ListKept \/ Backup \/ Write \/ Reload \/ Record \/ List \/ Close
    <3>1. handler # Idle /\ UNCHANGED up
      BY <2>6 DEF Keep, ListKept, Backup, Write, Reload, Record, List, Close, At, Idle
    <3>2. \/ handler' = Idle
          \/ \E step \in Steps : GoTo(step)
      BY <2>6 DEF Keep, ListKept, Backup, Write, Reload, Record, List, Close, Answer,
                  CloseOrAnswer, Steps
    <3> QED BY <1>3, <2>1, <2>3, <3>1, <3>2
  <2>7. CASE \E alive \in BOOLEAN : Interrupt(alive)
    BY <2>1, <2>3, <2>7 DEF Interrupt
  <2>8. CASE Start
    <3>1. handler' = Idle
      BY <1>2, <2>8 DEF Start
    <3> QED BY <2>1, <2>3, <3>1
  <2>9. CASE \E p \in Policies \cup {Unreadable} : Edit(p)
    BY <2>1, <2>2, <2>9 DEF Edit
  <2>10. CASE ProposalFiled \/ \E i \in DOMAIN proposals : Reject(i)
    BY <2>1, <2>2, <2>10 DEF ProposalFiled, File, Reject
  <2> QED BY <2>1, <2>4, <2>5, <2>6, <2>7, <2>8, <2>9, <2>10, PolicyStep DEF PolicyStep
<1>5. CASE ProposalFiled
  <2>1. PICK p \in Policies : handler = Idle /\ File(p)
    BY <1>5 DEF ProposalFiled
  <2>2. [policy |-> p, status |-> "pending"] \in Filing
    BY DEF Filing
  <2>3. ProposalTypes'
    BY <1>0, <2>1, <2>2 DEF File, ProposalTypes
  <2>4. handler' = Idle
    BY <2>1 DEF File
  <2> QED BY <2>3, <2>4 DEF HandlerTypes
<1>6. ASSUME NEW i \in DOMAIN proposals, NEW s \in {"approved", "rejected"},
             proposals' = [proposals EXCEPT ![i].status = s]
      PROVE  ProposalTypes' /\ Len(proposals') = Len(proposals)
  <2>1. proposals[i] \in Filing
    BY <1>0, <1>1, ElementOfSeq DEF ProposalTypes
  <2> DEFINE r == [proposals[i] EXCEPT !.status = s]
  <2>2. r \in Filing
    BY <2>1 DEF Filing
  <2>3. proposals' = [proposals EXCEPT ![i] = r]
    BY <1>6
  <2> HIDE DEF r
  <2>4. i \in 1 .. Len(proposals) /\ proposals \in Seq(Filing)
    BY <1>0, <1>1 DEF ProposalTypes
  <2> QED BY <2>2, <2>3, <2>4, ExceptSeq DEF ProposalTypes
<1>7. CASE \E i \in DOMAIN proposals : Reject(i)
  <2>1. PICK i \in DOMAIN proposals : Reject(i)
    BY <1>7
  <2>2. ProposalTypes' /\ handler' = Idle
    <3>1. proposals' = [proposals EXCEPT ![i].status = "rejected"] /\ handler' = Idle
      BY <2>1 DEF Reject
    <3> QED BY <1>6, <3>1
  <2> QED BY <2>2 DEF HandlerTypes
<1>8. CASE Close
  <2>1. handler' = Idle
    BY <1>8 DEF Close, Answer
  <2>2. handler # Idle
    BY <1>8 DEF Close, At, Idle
  <2>3. CASE handler.proposal \in DOMAIN proposals
    <3>1. proposals' = [proposals EXCEPT ![handler.proposal].status = "approved"]
      BY <1>8 DEF Close
    <3> QED BY <1>6, <2>1, <2>3, <3>1 DEF HandlerTypes
  <2>4. CASE handler.proposal \notin DOMAIN proposals
    <3>1. proposals' = proposals
      <4>1. proposals' = [proposals EXCEPT ![handler.proposal].status = "approved"]
        BY <1>8 DEF Close
      <4>2. proposals = [j \in 1 .. Len(proposals) |-> proposals[j]]
        BY <1>0, LenProperties DEF ProposalTypes
      <4> QED BY <2>4, <4>1, <4>2
    <3> QED BY <1>4, <3>1
  <2> QED BY <2>3, <2>4
<1>9. HandlerBegins \/ ReloadRequest \/ Keep \/ ListKept \/ Backup \/ Write \/ Reload \/ Record
      \/ List \/ (\E alive \in BOOLEAN : Interrupt(alive)) \/ Start
      \/ (\E p \in Policies \cup {Unreadable} : Edit(p)) => UNCHANGED proposals
  BY DEF HandlerBegins, ReloadRequest, Keep, ListKept, Backup, Write, Reload, Record, List,
         Interrupt, Start, Edit
<1> QED BY <1>4, <1>5, <1>7, <1>8, <1>9, PolicyStep DEF PolicyStep

\* A handler that goes on keeps what it was begun with.
LEMMA GoesOn ==
    ASSUME HandlerTypes, handler # Idle, NEW step, GoTo(step)
    PROVE  /\ handler'.step = step /\ handler'.kind = handler.kind
           /\ handler'.policy = handler.policy /\ handler'.proposal = handler.proposal
BY DEF HandlerTypes, Busy, GoTo

\* The records only grow, so the positions on the list stay positions of records;
\* the list stays the newest first.
LEMMA VersionTypesKept ==
    ASSUME PolicyTypeOK, ListIsHistory, UnlistedInv, KeptInv, PolicyStep
    PROVE  VersionTypes' /\ ListIsHistory' /\ UnlistedInv'
<1>0. /\ VersionTypes /\ HandlerTypes /\ StateTypes
      /\ Len(records) \in Nat /\ DOMAIN records = 1 .. Len(records)
      /\ Len(versions) \in Nat /\ DOMAIN versions = 1 .. Len(versions)
      /\ \A k \in DOMAIN versions : versions[k] \in 1 .. Len(records)
  <2>1. VersionTypes /\ HandlerTypes /\ StateTypes
    BY TypesInParts
  <2>2. Len(records) \in Nat /\ DOMAIN records = 1 .. Len(records)
    BY <2>1, LenProperties DEF VersionTypes
  <2>3. Len(versions) \in Nat /\ DOMAIN versions = 1 .. Len(versions)
    BY <2>1, LenProperties DEF VersionTypes
  <2> QED BY <2>1, <2>2, <2>3, ElementOfSeq DEF VersionTypes
\* Neither saves nor lists
<1>1. ASSUME UNCHANGED <<records, versions>>,
             handler'.step \in {"listkept", "list"} => handler' = handler,
             handler.step \in {"listkept", "list"} => handler' = handler \/ mishaps' # 0,
             mishaps' = 0 => mishaps = 0
      PROVE  VersionTypes' /\ ListIsHistory' /\ UnlistedInv'
  BY <1>0, <1>1 DEF VersionTypes, ListIsHistory, UnlistedInv
\* Saves a version, and has it to list
<1>2. ASSUME NEW p \in Policies, records' = Append(records, p), UNCHANGED versions,
             handler'.step \in {"listkept", "list"}
      PROVE  VersionTypes' /\ ListIsHistory' /\ UnlistedInv'
  <2>1. /\ records' \in Seq(Policies) /\ Len(records') = Len(records) + 1
        /\ DOMAIN records' = 1 .. Len(records) + 1
    BY <1>0, <1>2, AppendProperties DEF VersionTypes
  <2>2. versions' \in Seq(DOMAIN records')
    <3>1. DOMAIN records \subseteq DOMAIN records'
      BY <1>0, <2>1
    <3> QED BY <1>0, <1>2, <3>1, SeqMonotonic DEF VersionTypes
  <2>3. \A k \in DOMAIN versions' : versions'[k] < Len(records')
    BY <1>0, <1>2, <2>1
  <2>4. records' # << >>
    BY <1>0, <2>1
  <2> QED BY <1>0, <1>2, <2>1, <2>2, <2>3, <2>4 DEF VersionTypes, ListIsHistory, UnlistedInv
\* Lists the version saved
<1>3. ASSUME handler.step \in {"listkept", "list"}, handler'.step \notin {"listkept", "list"},
             versions' = Listed, UNCHANGED records
      PROVE  VersionTypes' /\ ListIsHistory' /\ UnlistedInv'
  <2>1. /\ Listed \in Seq(DOMAIN records)
        /\ Listed # << >> /\ Len(Listed) <= MaxVersions
        /\ Listed[1] = Len(records)
        /\ \A j, k \in DOMAIN Listed : j < k => Listed[j] > Listed[k]
    BY <1>0, <1>3, ListedIsNewest DEF VersionTypes, ListIsHistory, UnlistedInv
  <2> HIDE DEF Listed
  <2> QED BY <1>0, <1>3, <2>1 DEF VersionTypes, ListIsHistory, UnlistedInv
<1>4. CASE HandlerBegins
  BY <1>1, <1>4 DEF HandlerBegins, BeginsAs, Begin, Idle
<1>5. CASE ProposalFiled \/ (\E i \in DOMAIN proposals : Reject(i)) \/ ReloadRequest
  BY <1>1, <1>5 DEF ProposalFiled, File, Reject, ReloadRequest
<1>6. CASE Keep
  <2>1. CASE Versioned(live)
    <3>1. /\ policyFile \in Policies /\ records' = Append(records, policyFile)
          /\ handler'.step = "listkept" /\ UNCHANGED versions
      BY <1>0, <1>6, <2>1, GoesOn DEF Keep, At, Idle, KeptInv
    <3> QED BY <1>2, <3>1
  <2>2. CASE ~Versioned(live)
    <3>1. handler'.step = "backup" /\ handler.step = "keep"
      BY <1>0, <1>6, <2>2, GoesOn DEF Keep, At, Idle
    <3> QED BY <1>1, <1>6, <2>2, <3>1 DEF Keep
  <2> QED BY <2>1, <2>2
<1>7. CASE ListKept
  <2>1. handler'.step = "backup"
    BY <1>0, <1>7, GoesOn DEF ListKept, At, Idle
  <2> QED BY <1>3, <1>7, <2>1 DEF ListKept, At
<1>8. CASE Backup \/ Write \/ Close \/ Reload
  <2>1. /\ handler.step \in {"backup", "write", "close", "reload"}
        /\ UNCHANGED <<records, versions>>
        /\ \/ handler' = Idle
           \/ GoTo("write") \/ GoTo("reload") \/ GoTo("record")
    BY <1>8 DEF Backup, Write, Close, Reload, At, Answer
  <2>2. handler'.step \notin {"listkept", "list"}
    BY <1>0, <2>1, GoesOn DEF Idle
  <2>3. UNCHANGED mishaps
    BY <1>8 DEF Backup, Write, Close, Reload
  <2> QED BY <1>1, <2>1, <2>2, <2>3
<1>9. CASE Record
  <2>1. handler # Idle /\ handler.step = "record" /\ UNCHANGED <<versions, mishaps>>
    BY <1>9 DEF Record, At, Idle
  <2>2. CASE handler.kind = "manual" \/ Versioned(live)
    <3>1. handler'.step = "list"
      BY <1>0, <1>9, <2>1, <2>2, GoesOn DEF Record
    <3>2. handler.policy \in Policies
      BY <1>0, <2>1 DEF HandlerTypes, Busy
    <3> QED BY <1>2, <1>9, <2>1, <2>2, <3>1, <3>2 DEF Record
  <2>3. CASE ~(handler.kind = "manual" \/ Versioned(live))
    <3>1. CloseOrAnswer /\ UNCHANGED records
      BY <1>9, <2>3 DEF Record
    <3>2. handler'.step \in {"close", "none"}
      BY <1>0, <2>1, <3>1, GoesOn DEF CloseOrAnswer, Answer, Idle
    <3> QED BY <1>1, <2>1, <3>1, <3>2
  <2> QED BY <2>2, <2>3
<1>10. CASE List
  <2>1. handler # Idle /\ handler.step = "list" /\ CloseOrAnswer
    BY <1>10 DEF List, At, Idle
  <2>2. handler'.step \in {"close", "none"}
    BY <1>0, <2>1, GoesOn DEF CloseOrAnswer, Answer, Idle
  <2> QED BY <1>3, <1>10, <2>1, <2>2 DEF List
<1>11. CASE \E alive \in BOOLEAN : Interrupt(alive)
  BY <1>0, <1>1, <1>11 DEF Interrupt, Idle, StateTypes
<1>12. CASE Start
  BY <1>1, <1>12 DEF Start
<1>13. CASE \E p \in Policies \cup {Unreadable} : Edit(p)
  BY <1>0, <1>1, <1>13 DEF Edit, Idle, StateTypes
<1> QED BY <1>4, <1>5, <1>6, <1>7, <1>8, <1>9, <1>10, <1>11, <1>12, <1>13, PolicyStep
        DEF PolicyStep

----------------------------------------------------------------------------
(* What a handler may rely on.                                              *)

HandlerInv == StepsOfKind /\ AppliedInv /\ KeptInv

LEMMA HandlerKept ==
    ASSUME PolicyTypeOK, HandlerInv, UnlistedInv, ListIsHistory, PolicyStep
    PROVE  HandlerInv'
<1> USE DEF HandlerInv
<1>0. HandlerTypes /\ VersionTypes /\ StateTypes
  BY TypesInParts
<1>1. handler' = Idle => HandlerInv'
  BY DEF Idle, StepsOfKind, AppliedInv, KeptInv
<1>2. CASE HandlerBegins
  <2>1. PICK kind \in Writers \cup {"manual"}, p \in Policies, i \in 0 .. Len(proposals),
             step \in Steps :
                BeginsAs(kind, p, i, step) /\ Begin(kind, p, i, step) /\ UNCHANGED proposals
    BY <1>2 DEF HandlerBegins
  <2>2. /\ handler'.kind = kind /\ handler'.policy = p
        /\ handler'.proposal = i /\ handler'.step = step
        /\ UNCHANGED <<policyFile, live, backups, records, versions, proposals>>
    BY <2>1 DEF Begin
  <2>3. StepsOfKind'
    BY <2>1, <2>2 DEF StepsOfKind, BeginsAs
  <2>4. AppliedInv'
    BY <2>1, <2>2 DEF AppliedInv, BeginsAs
  <2>5. KeptInv'
    BY <2>1, <2>2 DEF KeptInv, BeginsAs
  <2> QED BY <2>3, <2>4, <2>5
<1>3. CASE ProposalFiled \/ \E i \in DOMAIN proposals : Reject(i)
  BY <1>1, <1>3 DEF ProposalFiled, File, Reject
<1>4. CASE ReloadRequest \/ Start \/ \E alive \in BOOLEAN : Interrupt(alive)
  <2>1. handler' = Idle
    BY <1>0, <1>4 DEF HandlerTypes, ReloadRequest, Start, Interrupt
  <2> QED BY <1>1, <2>1
<1>5. CASE \E p \in Policies \cup {Unreadable} : Edit(p)
  BY <1>1, <1>5 DEF Edit
<1>6. ASSUME HandlerTypes, handler # Idle, NEW step, GoTo(step), UNCHANGED proposals,
             handler.kind = "manual" => step \in {"record", "list"},
             handler.kind = "console" => step \in {"backup", "write", "reload"},
             handler.kind = "patch" => step \in {"write", "reload"}
      PROVE  StepsOfKind'
  <2>1. /\ handler'.step = step /\ handler'.kind = handler.kind
        /\ handler'.policy = handler.policy /\ handler'.proposal = handler.proposal
    BY <1>6, GoesOn
  <2> QED BY <1>6, <2>1 DEF StepsOfKind
<1>7. CASE Keep
  <2>1. /\ handler # Idle /\ handler.step = "keep" /\ policyFile \in Policies
        /\ UNCHANGED <<policyFile, live, backups, versions, proposals>>
    BY <1>7 DEF Keep, At, Idle, KeptInv
  <2>2. handler.kind = "update"
    BY <1>0, <2>1 DEF HandlerTypes, Busy, Writers, StepsOfKind
  <2>3. CASE Versioned(live)
    <3>1. GoTo("listkept") /\ records' = Append(records, policyFile)
      BY <1>7, <2>3 DEF Keep
    <3>2. records'[Len(records')] = policyFile
      BY <1>0, <2>1, <3>1, AppendProperties DEF VersionTypes
    <3>3. StepsOfKind'
      BY <1>0, <1>6, <2>1, <2>2, <3>1
    <3>4. handler'.step = "listkept" /\ handler'.kind = "update"
      BY <1>0, <2>1, <2>2, <3>1, GoesOn
    <3> QED BY <2>1, <3>2, <3>3, <3>4 DEF AppliedInv, KeptInv
  <2>4. CASE ~Versioned(live)
    <3>1. GoTo("backup")
      BY <1>7, <2>4 DEF Keep
    <3>2. StepsOfKind'
      BY <1>0, <1>6, <2>1, <2>2, <3>1
    <3>3. handler'.step = "backup" /\ handler'.kind = "update"
      BY <1>0, <2>1, <2>2, <3>1, GoesOn
    <3>4. ~Versioned(live')
      BY <2>1, <2>4
    <3> QED BY <3>2, <3>3, <3>4 DEF AppliedInv, KeptInv
  <2> QED BY <2>3, <2>4
<1>8. CASE ListKept
  <2>1. /\ handler # Idle /\ handler.step = "listkept" /\ GoTo("backup")
        /\ versions' = Listed
        /\ UNCHANGED <<policyFile, live, backups, records, proposals>>
    BY <1>8 DEF ListKept, At, Idle
  <2>2. handler.kind = "update"
    BY <1>0, <2>1 DEF HandlerTypes, Busy, Writers, StepsOfKind
  <2>3. Listed # << >> /\ Listed[1] = Len(records)
    BY <1>0, <2>1, ListedIsNewest DEF VersionTypes, ListIsHistory, UnlistedInv
  <2>4. records[Len(records)] = policyFile
    BY <2>1 DEF KeptInv
  <2>5. StepsOfKind'
    BY <1>0, <1>6, <2>1, <2>2
  <2>6. handler'.step = "backup" /\ handler'.kind = "update"
    BY <1>0, <2>1, <2>2, GoesOn
  <2> HIDE DEF Listed
  <2> QED BY <2>1, <2>3, <2>4, <2>5, <2>6 DEF AppliedInv, KeptInv
<1>9. CASE Backup
  <2>1. /\ handler # Idle /\ handler.step = "backup" /\ GoTo("write")
        /\ backups' = backups \cup {policyFile}
        /\ UNCHANGED <<policyFile, live, records, versions, proposals>>
    BY <1>9 DEF Backup, At, Idle
  <2>2. StepsOfKind'
    BY <1>0, <1>6, <2>1 DEF StepsOfKind
  <2>3. handler'.step = "write" /\ handler'.kind = handler.kind
    BY <1>0, <2>1, GoesOn
  <2>4. Versioned(live') <=> Versioned(live)
    BY <2>1
  <2> QED BY <2>1, <2>2, <2>3, <2>4 DEF AppliedInv, KeptInv
<1>10. CASE Write
  <2>1. /\ handler # Idle /\ handler.step = "write" /\ GoTo("reload")
        /\ policyFile' = handler.policy /\ UNCHANGED proposals
    BY <1>10 DEF Write, At, Idle
  <2>2. StepsOfKind'
    BY <1>0, <1>6, <2>1 DEF StepsOfKind
  <2>3. handler'.step = "reload" /\ handler'.policy = handler.policy
    BY <1>0, <2>1, GoesOn
  <2> QED BY <2>1, <2>2, <2>3 DEF AppliedInv, KeptInv
<1>11. CASE Reload
  <2>1. CASE handler' = Idle
    BY <1>1, <2>1
  <2>2. CASE handler' # Idle
    <3>1. /\ handler # Idle /\ handler.step = "reload" /\ GoTo("record")
          /\ handler.kind = "update" /\ live' = policyFile
          /\ UNCHANGED <<policyFile, proposals>>
      BY <1>11, <2>2 DEF Reload, At, Idle, Answer
    <3>2. StepsOfKind'
      BY <1>0, <1>6, <3>1
    <3>3. /\ handler'.step = "record" /\ handler'.policy = handler.policy
          /\ policyFile = handler.policy
      BY <1>0, <3>1, GoesOn DEF AppliedInv
    <3> QED BY <3>1, <3>2, <3>3 DEF AppliedInv, KeptInv
  <2> QED BY <2>1, <2>2
<1>12. CASE Record \/ List
  <2>1. CASE handler' = Idle
    BY <1>1, <2>1
  <2>2. CASE handler' # Idle
    <3>1. /\ handler # Idle /\ handler.step \in {"record", "list"}
          /\ UNCHANGED <<policyFile, live, proposals>>
      BY <1>12, <2>2 DEF Record, List, At, Idle
    <3>2. PICK step \in {"list", "close"} :
             GoTo(step) /\ (step = "close" => handler.proposal # 0)
      BY <1>12, <2>2 DEF Record, List, CloseOrAnswer, Answer
    <3>3. step = "close" => handler.kind = "update"
      BY <3>2 DEF StepsOfKind
    <3>4. handler.kind \in {"manual", "update"}
      BY <1>0, <3>1 DEF HandlerTypes, Busy, Writers, StepsOfKind
    <3>5. StepsOfKind'
      BY <1>0, <1>6, <3>1, <3>2, <3>3, <3>4
    <3>6. /\ handler'.step = step /\ handler'.kind = handler.kind
          /\ handler'.policy = handler.policy
      BY <1>0, <3>1, <3>2, GoesOn
    <3> QED BY <3>1, <3>2, <3>5, <3>6 DEF AppliedInv, KeptInv
  <2> QED BY <2>1, <2>2
<1>13. CASE Close
  BY <1>1, <1>13 DEF Close, Answer
<1> QED BY <1>2, <1>3, <1>4, <1>5, <1>7, <1>8, <1>9, <1>10, <1>11, <1>12, <1>13, PolicyStep
        DEF PolicyStep

\* What was answered stays in the file and in force.
LEMMA AnsweredKept ==
    ASSUME PolicyTypeOK, HandlerInv, AnsweredStaysInPlace, PolicyStep
    PROVE  AnsweredStaysInPlace'
<1> USE DEF HandlerInv, AnsweredStaysInPlace
<1>0. HandlerTypes /\ StateTypes
  BY TypesInParts
<1>1. ASSUME UNCHANGED <<policyFile, live, answered>>, up' => up
      PROVE  AnsweredStaysInPlace'
  BY <1>1
<1>2. CASE HandlerBegins
  BY <1>1, <1>2 DEF HandlerBegins, Begin
<1>3. CASE ProposalFiled \/ \E i \in DOMAIN proposals : Reject(i)
  BY <1>1, <1>3 DEF ProposalFiled, File, Reject
<1>4. CASE ReloadRequest
  BY <1>4 DEF ReloadRequest
<1>5. CASE Keep \/ ListKept \/ Backup
  BY <1>1, <1>5 DEF Keep, ListKept, Backup
<1>6. CASE Write
  BY <1>6 DEF Write
<1>7. handler.kind # "manual" /\ handler.step \in {"record", "list", "close"} =>
          policyFile = handler.policy /\ live = policyFile
  BY <1>0 DEF HandlerTypes, Busy, Idle, Writers, StepsOfKind, AppliedInv
<1>8. CASE Reload
  <2>1. CASE policyFile \in Loadable
    <3>1. /\ policyFile = handler.policy /\ live' = policyFile /\ UNCHANGED policyFile
          /\ answered' \in {answered, handler.policy}
      BY <1>8, <2>1 DEF Reload, At, AppliedInv, Answer
    <3> QED BY <3>1
  <2>2. CASE policyFile \notin Loadable
    BY <1>1, <1>8, <2>2 DEF Reload
  <2> QED BY <2>1, <2>2
<1>9. CASE Record \/ List \/ Close
  <2>1. /\ handler.step \in {"record", "list", "close"}
        /\ UNCHANGED <<policyFile, live, up>>
        /\ UNCHANGED answered \/ (handler.kind # "manual" /\ answered' = handler.policy)
    <3>1. CloseOrAnswer \/ Answer =>
             UNCHANGED answered \/ (handler.kind # "manual" /\ answered' = handler.policy)
      BY DEF CloseOrAnswer, Answer
    <3>2. CASE Record
      BY <3>1, <3>2 DEF Record, At
    <3>3. CASE List
      BY <3>1, <3>3 DEF List, At
    <3>4. CASE Close
      BY <3>1, <3>4 DEF Close, At
    <3> QED BY <1>9, <3>2, <3>3, <3>4
  <2> QED BY <1>1, <1>7, <2>1
<1>10. CASE \E alive \in BOOLEAN : Interrupt(alive)
  BY <1>1, <1>10 DEF Interrupt, Torn
<1>11. CASE Start
  BY <1>11 DEF Start
<1>12. CASE \E p \in Policies \cup {Unreadable} : Edit(p)
  BY <1>12 DEF Edit
<1> QED BY <1>2, <1>3, <1>4, <1>5, <1>6, <1>8, <1>9, <1>10, <1>11, <1>12, PolicyStep
        DEF PolicyStep

----------------------------------------------------------------------------

LEMMA PolicyInvariant == PolicySpec => []PolicyInv
<1>1. PolicyInit => PolicyInv
  <2> SUFFICES ASSUME PolicyInit PROVE PolicyInv
    OBVIOUS
  <2> USE DEF PolicyInit
  <2>1. StateTypes /\ HandlerTypes
    BY PolicyAssumption DEF StateTypes, HandlerTypes
  <2>2. ProposalTypes /\ VersionTypes
    BY PolicyAssumption, EmptySeq DEF ProposalTypes, VersionTypes
  <2>3. ListIsHistory /\ AnsweredStaysInPlace
    BY DEF ListIsHistory, AnsweredStaysInPlace
  <2>4. StepsOfKind /\ AppliedInv /\ KeptInv /\ UnlistedInv
    BY DEF StepsOfKind, AppliedInv, KeptInv, UnlistedInv, Idle
  <2> QED BY <2>1, <2>2, <2>3, <2>4, TypesInParts DEF PolicyInv, PolicyIsKept
<1>2. PolicyInv /\ [PolicyNext]_policyVars => PolicyInv'
  <2> SUFFICES ASSUME PolicyInv, [PolicyNext]_policyVars PROVE PolicyInv'
    OBVIOUS
  <2>0. /\ PolicyTypeOK /\ ListIsHistory /\ AnsweredStaysInPlace
        /\ StepsOfKind /\ AppliedInv /\ KeptInv /\ UnlistedInv
    BY DEF PolicyInv, PolicyIsKept
  <2>1. CASE UNCHANGED policyVars
    BY <2>0, <2>1 DEF PolicyInv, PolicyIsKept, PolicyTypeOK, Busy, ListIsHistory,
                      AnsweredStaysInPlace, StepsOfKind, AppliedInv, KeptInv, UnlistedInv,
                      Versioned, policyVars
  <2>2. CASE PolicyNext
    <3>1. PolicyStep
      BY <2>0, <2>2, StepsOfTheProxy
    <3>2. StateTypes' /\ HandlerTypes' /\ ProposalTypes' /\ VersionTypes'
      BY <2>0, <3>1, StateTypesKept, HandlerTypesKept, VersionTypesKept
    <3>3. PolicyTypeOK'
      BY <3>2, TypesInParts, PTL
    <3>4. ListIsHistory' /\ UnlistedInv'
      BY <2>0, <3>1, VersionTypesKept
    <3>5. HandlerInv'
      BY <2>0, <3>1, HandlerKept DEF HandlerInv
    <3>6. AnsweredStaysInPlace'
      BY <2>0, <3>1, AnsweredKept DEF HandlerInv
    <3> QED BY <3>3, <3>4, <3>5, <3>6 DEF PolicyInv, PolicyIsKept, HandlerInv
  <2> QED BY <2>1, <2>2
<1> QED BY <1>1, <1>2, PTL DEF PolicySpec

\* What was reported to be in place is in the file and in force, and the list of
\* versions is the history of it, for every set of policies: PolicyIsKept, the
\* run's invariant. The handlers are _apply_policy_update and those beside it.
THEOREM PolicyStaysKept == PolicySpec => []PolicyIsKept
<1>1. PolicyInv => PolicyIsKept
  BY DEF PolicyInv
<1> QED BY <1>1, PolicyInvariant, PTL

\* A policy that is replaced can be restored, one marked approved is in place, and
\* one rejected stays rejected: ChangesAreAccounted, step by step.
THEOREM ChangesStayAccounted == PolicySpec => ChangesAreAccounted
<1> DEFINE Restorable ==
              (handler.kind \in {"update", "console"} /\ policyFile' # policyFile
                 /\ handler # Idle) =>
                /\ policyFile \in backups
                /\ handler.kind = "update" /\ Versioned(live) =>
                      versions # << >> /\ records[versions[1]] = policyFile
           InPlace ==
              \A i \in DOMAIN proposals :
                 proposals[i].status # "approved" /\ proposals'[i].status = "approved"
                   => live = proposals[i].policy /\ policyFile = proposals[i].policy
           Final ==
              \A i \in DOMAIN proposals :
                 proposals[i].status = "rejected" => proposals'[i].status = "rejected"
<1>1. PolicyInv /\ [PolicyNext]_policyVars =>
          [Restorable]_policyVars /\ [InPlace]_policyVars /\ [Final]_policyVars
  <2> SUFFICES ASSUME PolicyInv, PolicyNext
               PROVE  Restorable /\ InPlace /\ Final
    OBVIOUS
  <2>0. /\ PolicyTypeOK /\ StepsOfKind /\ AppliedInv /\ KeptInv
        /\ HandlerTypes /\ ProposalTypes
    BY TypesInParts DEF PolicyInv, PolicyIsKept
  <2>1. PolicyStep
    BY <2>0, StepsOfTheProxy
  <2>2. Restorable
    <3> SUFFICES ASSUME handler.kind \in {"update", "console"}, policyFile' # policyFile,
                        handler # Idle
                 PROVE  handler.step = "write"
      BY <2>0 DEF KeptInv
    <3> QED BY <2>1 DEF PolicyStep, HandlerBegins, Begin, ProposalFiled, File, Reject, ReloadRequest, Keep,
              ListKept, Backup, Write, At, Reload, Record, List, Close, Interrupt, Torn,
              Start, Edit
  <2>3. DOMAIN proposals = 1 .. Len(proposals) /\ Len(proposals) \in Nat
    BY <2>0, LenProperties DEF ProposalTypes
  <2>4. ASSUME NEW i \in DOMAIN proposals, NEW s, NEW n,
               proposals' = [proposals EXCEPT ![n].status = s]
        PROVE  proposals'[i].status = IF i = n THEN s ELSE proposals[i].status
    <3>1. proposals[i] \in Filing
      BY <2>0, <2>3, ElementOfSeq DEF ProposalTypes
    <3>2. [proposals[i] EXCEPT !.status = s].status = s
      BY <3>1 DEF Filing
    <3>3. proposals \in [1 .. Len(proposals) -> Filing]
      BY <2>0, LenProperties DEF ProposalTypes
    <3> QED BY <2>3, <2>4, <3>2, <3>3
  <2>5. CASE UNCHANGED proposals
    BY <2>2, <2>5
  <2>6. CASE ProposalFiled
    <3>1. PICK p \in Policies :
             proposals' = Append(proposals, [policy |-> p, status |-> "pending"])
      BY <2>6 DEF ProposalFiled, File
    <3>2. ASSUME NEW i \in DOMAIN proposals PROVE proposals'[i] = proposals[i]
      <4> DEFINE filed == [policy |-> p, status |-> "pending"]
      <4>1. filed \in Filing
        BY DEF Filing
      <4> HIDE DEF filed
      <4>2. proposals' = Append(proposals, filed)
        BY <3>1 DEF filed
      <4> QED BY <2>0, <2>3, <4>1, <4>2, AppendProperties DEF ProposalTypes
    <3> QED BY <2>2, <3>2
  <2>7. CASE \E i \in DOMAIN proposals : Reject(i)
    <3>1. PICK n \in DOMAIN proposals :
             proposals' = [proposals EXCEPT ![n].status = "rejected"]
      BY <2>7 DEF Reject
    <3> QED BY <2>2, <2>4, <3>1
  <2>8. CASE Close
    <3>1. /\ handler.step = "close"
          /\ proposals' = [proposals EXCEPT ![handler.proposal].status = "approved"]
      BY <2>8 DEF Close, At
    <3>2. handler.kind = "update"
      BY <2>0, <3>1 DEF HandlerTypes, Busy, Idle, Writers, StepsOfKind
    <3>3. policyFile = handler.policy /\ live = policyFile
      BY <2>0, <3>1, <3>2 DEF AppliedInv
    <3>4. ASSUME NEW i \in DOMAIN proposals, i = handler.proposal
          PROVE  proposals[i].policy = handler.policy /\ proposals[i].status = "pending"
      BY <2>0, <2>3, <3>4 DEF StepsOfKind
    <3>5. ASSUME NEW i \in DOMAIN proposals
          PROVE  proposals'[i].status = IF i = handler.proposal THEN "approved"
                                        ELSE proposals[i].status
      BY <2>4, <3>1
    <3> QED BY <2>2, <3>3, <3>4, <3>5
  <2>9. HandlerBegins \/ ReloadRequest \/ Keep \/ ListKept \/ Backup \/ Write \/ Reload \/ Record
        \/ List \/ (\E alive \in BOOLEAN : Interrupt(alive)) \/ Start
        \/ (\E p \in Policies \cup {Unreadable} : Edit(p)) => UNCHANGED proposals
    BY DEF HandlerBegins, ReloadRequest, Keep, ListKept, Backup, Write, Reload, Record, List,
           Interrupt, Start, Edit
  <2> QED BY <2>1, <2>5, <2>6, <2>7, <2>8, <2>9 DEF PolicyStep
<1> QED BY <1>1, PolicyInvariant, PTL
        DEF PolicySpec, ChangesAreAccounted, ReplacedCanBeRestored, ApprovedIsInPlace,
            RejectedIsFinal

-----------------------------------------------------------------------------
(* The policy of AgentGuard, whose updates overlap.                        *)

GuardPolicies == {DefaultGuard} \cup {PolicyIn[t] : t \in DOMAIN PolicyIn}
Contents == {Absent, Blank} \cup GuardTexts
GuardFiles == {"none", "tmp", "file", "lost"}
AdminRecord ==
    [pc : {"idle", "write", "load", "replace", "set", "digest", "stamp"},
     text : GuardTexts \cup {Blank}, loaded : GuardPolicies, open : GuardFiles, alone : BOOLEAN]

AdminTypes ==
    /\ fileText \in Contents /\ tmpText \in Contents
    /\ inForce \in GuardPolicies
    /\ admin \in [GuardAdmins -> AdminRecord]
    /\ guardUp \in BOOLEAN /\ settled \in BOOLEAN

\* A request that overlapped no other is the only one, and while the last change
\* was of such a request there is no other kind.
AloneIsOnly ==
    \A a, b \in GuardAdmins :
        admin[a].pc # "idle" /\ admin[a].alone /\ b # a => admin[b].pc = "idle"
SettledIsAlone ==
    settled => guardUp /\ \A a \in GuardAdmins : admin[a].pc # "idle" => admin[a].alone

\* How far a request has got that overlapped no other.
Filed(a) == /\ Loads(fileText) /\ admin[a].loaded = Loaded(fileText)
            /\ admin[a].text # Blank => fileText = admin[a].text
GoesRight(a) ==
    /\ admin[a].pc \in {"write", "load", "replace"} => admin[a].text # Blank
    /\ admin[a].pc = "write" => admin[a].open = "tmp" /\ tmpText = Blank
    /\ admin[a].pc \in {"load", "replace"} => tmpText = admin[a].text
    /\ admin[a].pc = "replace" =>
          Loads(admin[a].text) /\ admin[a].loaded = Loaded(admin[a].text)
    /\ admin[a].pc \in {"set", "digest", "stamp"} => Filed(a)
    /\ admin[a].pc \in {"digest", "stamp"} => inForce = Loaded(fileText)
AloneGoesRight == \A a \in GuardAdmins : admin[a].alone => GoesRight(a)

\* Up to the moment such a request has moved its text into the file, what was
\* settled is.
Setting(a) == admin[a].pc \in {"set", "digest", "stamp"}
SettledIsFiled ==
    settled /\ (\A a \in GuardAdmins : ~Setting(a)) =>
        Loads(fileText) /\ inForce = Loaded(fileText) /\ stamp = inForce

\* A text that was confirmed is in the file, and no update is on its way there.
ConfirmedIsFiled ==
    confirmed # Absent =>
        /\ fileText = confirmed
        /\ \A a \in GuardAdmins : admin[a].pc \notin {"write", "load", "replace"}

GuardPolicyInv ==
    /\ AdminTypes /\ AloneIsOnly /\ SettledIsAlone /\ AloneGoesRight
    /\ SettledIsFiled /\ ConfirmedIsFiled

\* What a request is after the others overlapped it, or a file was moved.
LEMMA BeganIsTyped ==
  ASSUME AdminTypes, NEW a \in GuardAdmins, NEW request \in AdminRecord
  PROVE  /\ Began(a, request) \in [GuardAdmins -> AdminRecord]
         /\ Began(a, request)[a] = [request EXCEPT !.alone = (Others(a) = {})]
         /\ \A b \in GuardAdmins \ {a} :
              /\ Began(a, request)[b].pc = admin[b].pc
              /\ Began(a, request)[b].text = admin[b].text
              /\ Began(a, request)[b].loaded = admin[b].loaded
              /\ Began(a, request)[b].open = admin[b].open
              /\ Began(a, request)[b].alone <=> admin[b].alone /\ admin[b].pc = "idle"
<1>1. admin \in [GuardAdmins -> AdminRecord]
  BY DEF AdminTypes
<1>2. ASSUME NEW b \in GuardAdmins \ {a}
      PROVE  /\ Began(a, request)[b] =
                  [admin[b] EXCEPT !.alone = @ /\ b \notin Others(a)]
             /\ b \in Others(a) <=> admin[b].pc # "idle"
  BY DEF Began, Others
<1>3. Began(a, request)[a] = [request EXCEPT !.alone = (Others(a) = {})]
  BY DEF Began
<1>4. ASSUME NEW b \in GuardAdmins \ {a}
      PROVE  /\ Began(a, request)[b] \in AdminRecord
             /\ Began(a, request)[b].pc = admin[b].pc
             /\ Began(a, request)[b].text = admin[b].text
             /\ Began(a, request)[b].loaded = admin[b].loaded
             /\ Began(a, request)[b].open = admin[b].open
             /\ Began(a, request)[b].alone <=> admin[b].alone /\ admin[b].pc = "idle"
  <2> DEFINE still == admin[b].alone /\ b \notin Others(a)
  <2>1. /\ still \in BOOLEAN
        /\ Began(a, request)[b] = [admin[b] EXCEPT !.alone = still]
    BY <1>2
  <2>2. still <=> admin[b].alone /\ admin[b].pc = "idle"
    BY <1>2
  <2> HIDE DEF still
  <2>3. admin[b] \in AdminRecord
    BY <1>1
  <2> QED BY <2>1, <2>2, <2>3 DEF AdminRecord
<1>5. [request EXCEPT !.alone = (Others(a) = {})] \in AdminRecord
  <2> DEFINE only == Others(a) = {}
  <2>1. only \in BOOLEAN
    OBVIOUS
  <2> HIDE DEF only
  <2>2. [request EXCEPT !.alone = only] \in AdminRecord
    BY <2>1 DEF AdminRecord
  <2> QED BY <2>2 DEF only
<1>6. \A b \in GuardAdmins : Began(a, request)[b] \in AdminRecord
  BY <1>3, <1>4, <1>5
<1>7. Began(a, request) \in [GuardAdmins -> AdminRecord]
  BY <1>6 DEF Began
<1> QED BY <1>3, <1>4, <1>7

LEMMA MovedIsTyped ==
  ASSUME AdminTypes, NEW names \in {Renames, Unlinks}
  PROVE  /\ Moved(admin, names) \in [GuardAdmins -> AdminRecord]
         /\ \A b \in GuardAdmins :
              /\ Moved(admin, names)[b].pc = admin[b].pc
              /\ Moved(admin, names)[b].text = admin[b].text
              /\ Moved(admin, names)[b].loaded = admin[b].loaded
              /\ Moved(admin, names)[b].alone = admin[b].alone
<1>1. admin \in [GuardAdmins -> AdminRecord]
  BY DEF AdminTypes
<1>2. \A f \in GuardFiles : names[f] \in GuardFiles
  BY DEF GuardFiles, Renames, Unlinks
<1>3. ASSUME NEW b \in GuardAdmins
      PROVE  /\ Moved(admin, names)[b] \in AdminRecord
             /\ Moved(admin, names)[b].pc = admin[b].pc
             /\ Moved(admin, names)[b].text = admin[b].text
             /\ Moved(admin, names)[b].loaded = admin[b].loaded
             /\ Moved(admin, names)[b].alone = admin[b].alone
  <2>1. admin[b] \in AdminRecord /\ admin[b].open \in GuardFiles
    BY <1>1 DEF AdminRecord
  <2>2. Moved(admin, names)[b] = [admin[b] EXCEPT !.open = names[admin[b].open]]
    BY DEF Moved
  <2>3. names[admin[b].open] \in GuardFiles
    BY <1>2, <2>1
  <2> QED BY <2>1, <2>2, <2>3 DEF AdminRecord
<1>4. Moved(admin, names) \in [GuardAdmins -> AdminRecord]
  BY <1>3 DEF Moved
<1> QED BY <1>3, <1>4

LEMMA IdleAdminIsTyped ==
  /\ IdleAdmin \in AdminRecord /\ IdleAdmin.pc = "idle" /\ IdleAdmin.text = Blank
  /\ Blank \in Contents /\ Absent \in Contents /\ GuardTexts \subseteq Contents
  /\ Blank \notin GuardTexts /\ Absent \notin GuardTexts /\ Absent # Blank
  /\ \A c : Loads(c) => Loaded(c) \in GuardPolicies
<1>1. IdleAdmin \in AdminRecord /\ IdleAdmin.pc = "idle" /\ IdleAdmin.text = Blank
  BY DEF IdleAdmin, AdminRecord, GuardPolicies, GuardFiles
<1>2. \A c : Loads(c) => Loaded(c) \in GuardPolicies
  BY DEF Loads, Loaded, GuardPolicies
<1> QED BY <1>1, <1>2, GuardPolicyAssumption DEF Contents

\* A step of one request leaves what the others are about.
StepOfAdmin(a) ==
    /\ admin' \in [GuardAdmins -> AdminRecord]
    /\ \A b \in GuardAdmins \ {a} :
         /\ admin'[b].pc = admin[b].pc /\ admin'[b].text = admin[b].text
         /\ admin'[b].loaded = admin[b].loaded /\ admin'[b].alone = admin[b].alone

\* A request goes on, or ends: it is as alone as it was, and if it was, all that
\* is to be shown is where it got to.
LEMMA GoingOnKeeps ==
  ASSUME GuardPolicyInv, NEW a \in GuardAdmins, StepOfAdmin(a),
         admin[a].pc # "idle", guardUp' = guardUp,
         admin'[a].pc = "idle" \/ admin'[a].alone = admin[a].alone,
         fileText' \in Contents, tmpText' \in Contents, inForce' \in GuardPolicies,
         settled' \in BOOLEAN, settled' => settled \/ (guardUp /\ admin[a].alone),
         settled' # settled => admin'[a].pc = "idle",
         admin[a].alone => GoesRight(a)',
         admin[a].alone /\ settled' /\ ~Setting(a)' =>
            (Loads(fileText) /\ inForce = Loaded(fileText) /\ stamp = inForce)',
         ConfirmedIsFiled'
  PROVE  GuardPolicyInv'
<1>1. /\ admin \in [GuardAdmins -> AdminRecord] /\ AloneIsOnly /\ SettledIsAlone
      /\ AloneGoesRight /\ SettledIsFiled /\ AdminTypes
  BY DEF GuardPolicyInv, AdminTypes
<1>2. AdminTypes'
  BY <1>1 DEF AdminTypes, StepOfAdmin
<1>3. AloneIsOnly'
  BY <1>1 DEF AloneIsOnly, StepOfAdmin
<1>4. SettledIsAlone'
  <2> SUFFICES ASSUME settled'
               PROVE  guardUp' /\ \A b \in GuardAdmins : admin'[b].pc # "idle" => admin'[b].alone
    BY DEF SettledIsAlone
  <2>1. CASE settled
    BY <1>1, <2>1 DEF SettledIsAlone, StepOfAdmin
  <2>2. CASE ~settled
    BY <1>1, <2>2 DEF AloneIsOnly, StepOfAdmin
  <2> QED BY <2>1, <2>2
<1>5. \A b \in GuardAdmins : b # a /\ admin[b].alone => admin[b].pc = "idle"
  BY <1>1 DEF AloneIsOnly
<1>6. AloneGoesRight'
  <2> SUFFICES ASSUME NEW b \in GuardAdmins, admin'[b].alone PROVE GoesRight(b)'
    BY DEF AloneGoesRight
  <2>1. CASE admin'[b].pc = "idle"
    BY <2>1 DEF GoesRight
  <2>2. CASE admin'[b].pc # "idle" /\ b # a
    BY <1>5, <2>2 DEF StepOfAdmin
  <2>3. CASE admin'[b].pc # "idle" /\ b = a
    BY <2>3
  <2> QED BY <2>1, <2>2, <2>3
<1>7. SettledIsFiled'
  <2> SUFFICES ASSUME settled', \A b \in GuardAdmins : ~Setting(b)'
               PROVE  (Loads(fileText) /\ inForce = Loaded(fileText) /\ stamp = inForce)'
    BY DEF SettledIsFiled
  <2>1. admin[a].alone
    BY <1>1 DEF SettledIsAlone
  <2> QED BY <2>1
<1> QED BY <1>2, <1>3, <1>4, <1>6, <1>7 DEF GuardPolicyInv

LEMMA UpdateKeeps ==
  ASSUME GuardPolicyInv, NEW a \in GuardAdmins,
         WriteTmp(a) \/ LoadTmp(a) \/ ReplaceFile(a) \/ RefuseFile(a)
  PROVE  GuardPolicyInv'
<1>1. /\ admin \in [GuardAdmins -> AdminRecord] /\ AdminTypes
      /\ fileText \in Contents /\ tmpText \in Contents /\ inForce \in GuardPolicies
      /\ settled \in BOOLEAN /\ SettledIsAlone /\ SettledIsFiled /\ AloneIsOnly
      /\ ConfirmedIsFiled
      /\ admin[a].alone => GoesRight(a)
  BY DEF GuardPolicyInv, AdminTypes, AloneGoesRight
<1>2. /\ IdleAdmin \in AdminRecord /\ IdleAdmin.pc = "idle"
      /\ GuardTexts \subseteq Contents /\ Absent \in Contents
      /\ \A c : Loads(c) => Loaded(c) \in GuardPolicies
  BY IdleAdminIsTyped
<1>3. /\ admin[a].pc \in {"write", "load", "replace"}
      /\ confirmed' = confirmed /\ settled' = settled /\ guardUp' = guardUp
      /\ inForce' = inForce /\ stamp' = stamp
  BY DEF WriteTmp, LoadTmp, ReplaceFile, RefuseFile, AdminAt
<1>4. ConfirmedIsFiled'
  BY <1>1, <1>3 DEF ConfirmedIsFiled
\* While it is alone and has not renamed its file, what was settled is.
<1>5. ASSUME settled, admin[a].alone
      PROVE  Loads(fileText) /\ inForce = Loaded(fileText) /\ stamp = inForce
  BY <1>1, <1>3, <1>5 DEF SettledIsFiled, AloneIsOnly, Setting
<1>6. CASE WriteTmp(a)
  <2>1. /\ admin[a].pc = "write"
        /\ admin' = [admin EXCEPT ![a].pc = "load", ![a].open = "none"]
    BY <1>6 DEF WriteTmp, AdminAt
  <2>2. /\ admin'[a].pc = "load" /\ admin'[a].text = admin[a].text
        /\ admin'[a].alone = admin[a].alone /\ admin'[a].loaded = admin[a].loaded
        /\ StepOfAdmin(a)
    BY ZenonT(60), <1>1, <2>1 DEF StepOfAdmin, AdminRecord, GuardFiles
  <2>3. \A old \in Contents : WrittenOver(old, admin[a].text) \subseteq Contents
    BY <1>1, <1>2, IdleAdminIsTyped DEF WrittenOver, AdminRecord
  <2>4. fileText' \in Contents /\ tmpText' \in Contents
    BY <1>1, <1>6, <2>3 DEF WriteTmp
  <2>5. ASSUME admin[a].alone
        PROVE  tmpText' = admin[a].text /\ fileText' = fileText /\ admin[a].text # Blank
    <3>1. admin[a].open = "tmp" /\ tmpText = Blank /\ admin[a].text # Blank
      BY <1>1, <2>1, <2>5 DEF GoesRight
    <3> QED BY <1>6, <3>1 DEF WriteTmp, WrittenOver
  <2>6. admin[a].alone => GoesRight(a)'
    BY <2>2, <2>5 DEF GoesRight
  <2>7. admin[a].alone /\ settled' /\ ~Setting(a)' =>
          (Loads(fileText) /\ inForce = Loaded(fileText) /\ stamp = inForce)'
    BY <1>3, <1>5, <2>5
  <2> QED BY <1>1, <1>3, <1>4, <2>1, <2>2, <2>4, <2>6, <2>7, GoingOnKeeps
<1>7. CASE LoadTmp(a)
  <2>1. admin[a].pc = "load" /\ fileText' = fileText /\ tmpText' \in {tmpText, Absent}
    BY <1>7 DEF LoadTmp, AdminAt
  <2>2. admin[a].alone /\ settled' /\ ~Setting(a)' =>
          (Loads(fileText) /\ inForce = Loaded(fileText) /\ stamp = inForce)'
    BY <1>3, <1>5, <2>1
  <2>3. CASE Loads(tmpText)
    <3>1. /\ admin' = [admin EXCEPT ![a].pc = "replace", ![a].loaded = Loaded(tmpText)]
          /\ tmpText' = tmpText
      BY <1>7, <2>3 DEF LoadTmp
    <3>2. Loaded(tmpText) \in GuardPolicies
      BY <1>2, <2>3
    <3>3. /\ admin'[a].pc = "replace" /\ admin'[a].text = admin[a].text
          /\ admin'[a].alone = admin[a].alone /\ admin'[a].loaded = Loaded(tmpText)
          /\ StepOfAdmin(a)
      BY <1>1, <3>1, <3>2 DEF StepOfAdmin, AdminRecord
    <3>4. admin[a].alone => GoesRight(a)'
      BY <1>1, <2>1, <2>3, <3>1, <3>3 DEF GoesRight, Filed
    <3> QED BY <1>1, <1>3, <1>4, <2>1, <2>2, <3>1, <3>3, <3>4, GoingOnKeeps
  <2>4. CASE ~Loads(tmpText)
    <3>1. admin' = [Moved(admin, Unlinks) EXCEPT ![a] = IdleAdmin]
      BY <1>7, <2>4 DEF LoadTmp, Failed
    <3>2. admin'[a].pc = "idle" /\ StepOfAdmin(a)
      BY <1>1, <1>2, <3>1, MovedIsTyped DEF StepOfAdmin
    <3>3. GoesRight(a)'
      BY <3>2 DEF GoesRight
    <3> QED BY <1>1, <1>2, <1>3, <1>4, <2>1, <2>2, <3>2, <3>3, GoingOnKeeps
  <2> QED BY <2>3, <2>4
<1>8. CASE ReplaceFile(a)
  <2>1. admin[a].pc = "replace"
    BY <1>8 DEF ReplaceFile, AdminAt
  <2>2. CASE tmpText = Absent
    <3>1. /\ admin' = [admin EXCEPT ![a] = IdleAdmin]
          /\ fileText' = fileText /\ tmpText' = tmpText
      BY <1>8, <2>2 DEF ReplaceFile, Failed
    <3>2. admin'[a].pc = "idle" /\ StepOfAdmin(a)
      BY <1>1, <1>2, <3>1 DEF StepOfAdmin
    <3>3. GoesRight(a)'
      BY <3>2 DEF GoesRight
    <3>4. admin[a].alone /\ settled' /\ ~Setting(a)' =>
            (Loads(fileText) /\ inForce = Loaded(fileText) /\ stamp = inForce)'
      BY <1>3, <1>5, <3>1
    <3> QED BY <1>1, <1>3, <1>4, <2>1, <3>1, <3>2, <3>3, <3>4, GoingOnKeeps
  <2>3. CASE tmpText # Absent
    <3>1. /\ admin' = [Moved(admin, Renames) EXCEPT ![a].pc = "set"]
          /\ fileText' = tmpText /\ tmpText' = Absent
      BY <1>8, <2>3 DEF ReplaceFile
    <3> DEFINE moved == Moved(admin, Renames)
    <3>2. /\ moved \in [GuardAdmins -> AdminRecord]
          /\ \A b \in GuardAdmins :
              /\ moved[b].pc = admin[b].pc /\ moved[b].text = admin[b].text
              /\ moved[b].loaded = admin[b].loaded /\ moved[b].alone = admin[b].alone
      BY <1>1, MovedIsTyped
    <3>3. admin' = [moved EXCEPT ![a].pc = "set"]
      BY <3>1
    <3> HIDE DEF moved
    <3>4. /\ admin'[a].pc = "set" /\ admin'[a].text = admin[a].text
          /\ admin'[a].alone = admin[a].alone /\ admin'[a].loaded = admin[a].loaded
          /\ StepOfAdmin(a)
      BY <3>2, <3>3 DEF StepOfAdmin, AdminRecord
    <3>5. admin[a].alone => GoesRight(a)'
      BY <1>1, <2>1, <3>1, <3>4 DEF GoesRight, Filed
    <3>6. Setting(a)'
      BY <3>4 DEF Setting
    <3> QED BY <1>1, <1>2, <1>3, <1>4, <2>1, <3>1, <3>4, <3>5, <3>6, GoingOnKeeps
  <2> QED BY <2>2, <2>3
<1>9. CASE RefuseFile(a)
  <2>1. /\ admin' = [admin EXCEPT ![a] = IdleAdmin]
        /\ fileText' = fileText /\ tmpText' = tmpText
    BY <1>9 DEF RefuseFile, Failed
  <2>2. admin'[a].pc = "idle" /\ StepOfAdmin(a)
    BY <1>1, <1>2, <2>1 DEF StepOfAdmin
  <2>3. GoesRight(a)'
    BY <2>2 DEF GoesRight
  <2>4. admin[a].alone /\ settled' /\ ~Setting(a)' =>
          (Loads(fileText) /\ inForce = Loaded(fileText) /\ stamp = inForce)'
    BY <1>3, <1>5, <2>1
  <2> QED BY <1>1, <1>3, <1>4, <2>1, <2>2, <2>3, <2>4, GoingOnKeeps
<1> QED BY <1>6, <1>7, <1>8, <1>9

LEMMA SettingKeeps ==
  ASSUME GuardPolicyInv, NEW a \in GuardAdmins,
         SetPolicy(a) \/ DigestPolicy(a) \/ StampPolicy(a)
  PROVE  GuardPolicyInv'
<1>1. /\ admin \in [GuardAdmins -> AdminRecord] /\ AdminTypes
      /\ fileText \in Contents /\ tmpText \in Contents /\ inForce \in GuardPolicies
      /\ settled \in BOOLEAN /\ SettledIsAlone /\ SettledIsFiled /\ AloneIsOnly
      /\ ConfirmedIsFiled
      /\ admin[a].alone => GoesRight(a)
  BY DEF GuardPolicyInv, AdminTypes, AloneGoesRight
<1>2. IdleAdmin \in AdminRecord /\ IdleAdmin.pc = "idle"
  BY IdleAdminIsTyped
<1>3. /\ admin[a].pc \in {"set", "digest", "stamp"}
      /\ fileText' = fileText /\ tmpText' = tmpText /\ guardUp' = guardUp
      /\ guardUp
  BY DEF SetPolicy, DigestPolicy, StampPolicy, AdminAt
<1>4. CASE SetPolicy(a)
  <2>1. /\ admin[a].pc = "set" /\ admin' = [admin EXCEPT ![a].pc = "digest"]
        /\ inForce' = admin[a].loaded /\ settled' = settled /\ confirmed' = confirmed
    BY <1>4 DEF SetPolicy, AdminAt, Proceed
  <2>2. /\ admin'[a].pc = "digest" /\ admin'[a].text = admin[a].text
        /\ admin'[a].alone = admin[a].alone /\ admin'[a].loaded = admin[a].loaded
        /\ StepOfAdmin(a) /\ inForce' \in GuardPolicies
    BY <1>1, <2>1 DEF StepOfAdmin, AdminRecord
  <2>3. admin[a].alone => GoesRight(a)'
    BY <1>1, <1>3, <2>1, <2>2 DEF GoesRight, Filed
  <2>4. Setting(a)'
    BY <2>2 DEF Setting
  <2>5. ConfirmedIsFiled'
    BY <1>1, <1>3, <2>1, <2>2 DEF ConfirmedIsFiled, StepOfAdmin
  <2> QED BY <1>1, <1>3, <2>1, <2>2, <2>3, <2>4, <2>5, GoingOnKeeps
<1>5. CASE DigestPolicy(a)
  <2>1. /\ admin[a].pc = "digest"
        /\ admin' = [admin EXCEPT ![a].pc = "stamp", ![a].loaded = inForce]
        /\ inForce' = inForce /\ settled' = settled /\ confirmed' = confirmed
    BY <1>5 DEF DigestPolicy, AdminAt
  <2>2. /\ admin'[a].pc = "stamp" /\ admin'[a].text = admin[a].text
        /\ admin'[a].alone = admin[a].alone /\ admin'[a].loaded = inForce
        /\ StepOfAdmin(a)
    BY <1>1, <2>1 DEF StepOfAdmin, AdminRecord
  <2>3. admin[a].alone => GoesRight(a)'
    BY <1>1, <1>3, <2>1, <2>2 DEF GoesRight, Filed
  <2>4. Setting(a)'
    BY <2>2 DEF Setting
  <2>5. ConfirmedIsFiled'
    BY <1>1, <1>3, <2>1, <2>2 DEF ConfirmedIsFiled, StepOfAdmin
  <2> QED BY <1>1, <1>3, <2>1, <2>2, <2>3, <2>4, <2>5, GoingOnKeeps
<1>6. CASE StampPolicy(a)
  <2>1. /\ admin[a].pc = "stamp" /\ admin' = [admin EXCEPT ![a] = IdleAdmin]
        /\ stamp' = admin[a].loaded /\ inForce' = inForce
        /\ settled' = (settled \/ admin[a].alone)
        /\ confirmed' = IF ~admin[a].alone THEN Absent
                        ELSE IF admin[a].text = Blank THEN confirmed ELSE admin[a].text
    BY <1>6 DEF StampPolicy, AdminAt, Failed
  <2>2. admin'[a].pc = "idle" /\ StepOfAdmin(a)
    BY <1>1, <1>2, <2>1 DEF StepOfAdmin
  <2>3. GoesRight(a)'
    BY <2>2 DEF GoesRight
  <2>4. ASSUME admin[a].alone
        PROVE  /\ Loads(fileText) /\ inForce = Loaded(fileText)
               /\ admin[a].loaded = inForce
               /\ admin[a].text # Blank => fileText = admin[a].text
               /\ \A b \in GuardAdmins : b # a => admin[b].pc = "idle"
    BY <1>1, <2>1, <2>4 DEF GoesRight, Filed, AloneIsOnly
  <2>5. admin[a].alone => (Loads(fileText) /\ inForce = Loaded(fileText) /\ stamp = inForce)'
    BY <1>3, <2>1, <2>4
  <2>6. ConfirmedIsFiled'
    <3>1. CASE ~admin[a].alone
      <4>1. confirmed' = Absent
        BY <2>1, <3>1
      <4> QED BY <4>1 DEF ConfirmedIsFiled
    <3>2. CASE admin[a].alone /\ admin[a].text = Blank
      <4>1. confirmed' = confirmed
        BY <2>1, <3>2
      <4> QED BY <1>1, <1>3, <2>2, <4>1 DEF ConfirmedIsFiled, StepOfAdmin
    <3>3. CASE admin[a].alone /\ admin[a].text # Blank
      <4>1. confirmed' = admin[a].text
        BY <2>1, <3>3
      <4> QED BY <1>3, <2>2, <2>4, <3>3, <4>1 DEF ConfirmedIsFiled, StepOfAdmin
    <3> QED BY <3>1, <3>2, <3>3
  <2>7. settled' \in BOOLEAN /\ (settled' => settled \/ (guardUp /\ admin[a].alone))
    BY <1>3, <2>1
  <2> QED BY <1>1, <1>3, <2>1, <2>2, <2>3, <2>5, <2>6, <2>7, GoingOnKeeps
<1> QED BY <1>4, <1>5, <1>6

\* A request begins: from now on it overlaps those under way.
LEMMA BeginningKeeps ==
  ASSUME GuardPolicyInv, NEW a \in GuardAdmins, OpenTmp(a) \/ ReloadPolicy(a)
  PROVE  GuardPolicyInv'
<1>1. /\ admin \in [GuardAdmins -> AdminRecord] /\ AdminTypes
      /\ fileText \in Contents /\ tmpText \in Contents /\ inForce \in GuardPolicies
      /\ settled \in BOOLEAN /\ SettledIsAlone /\ SettledIsFiled /\ AloneIsOnly
      /\ ConfirmedIsFiled /\ AloneGoesRight
  BY DEF GuardPolicyInv, AdminTypes
<1>2. /\ IdleAdmin \in AdminRecord /\ IdleAdmin.pc = "idle" /\ IdleAdmin.text = Blank
      /\ Blank \in Contents /\ Blank \notin GuardTexts
      /\ \A c : Loads(c) => Loaded(c) \in GuardPolicies
  BY IdleAdminIsTyped
<1>3. /\ guardUp /\ guardUp' = guardUp /\ admin[a].pc = "idle"
      /\ settled' = (settled /\ Others(a) = {})
      /\ fileText' = fileText /\ inForce' = inForce /\ stamp' = stamp
  BY DEF OpenTmp, ReloadPolicy, Begins, AdminAt
<1>4. Others(a) = {} <=> \A b \in GuardAdmins \ {a} : admin[b].pc = "idle"
  BY DEF Others
<1>5. PICK request \in AdminRecord :
        /\ admin' = Began(a, request)
        /\ \/ /\ request.pc = "write" /\ request.text # Blank /\ request.open = "tmp"
              /\ tmpText' = Blank /\ confirmed' = Absent
           \/ /\ request.pc = "set" /\ request.text = Blank /\ Loads(fileText)
              /\ request.loaded = Loaded(fileText)
              /\ tmpText' = tmpText /\ confirmed' = confirmed
           \/ /\ request.pc = "idle" /\ ~Loads(fileText)
              /\ tmpText' = tmpText /\ confirmed' = confirmed
  <2>1. CASE OpenTmp(a)
    <3>1. PICK t \in GuardTexts :
            admin' = Began(a, [IdleAdmin EXCEPT !.pc = "write", !.text = t, !.open = "tmp"])
      BY <2>1 DEF OpenTmp
    <3> DEFINE request == [IdleAdmin EXCEPT !.pc = "write", !.text = t, !.open = "tmp"]
    <3>2. request \in AdminRecord /\ request.pc = "write" /\ request.text = t
          /\ request.open = "tmp"
      BY <1>2 DEF AdminRecord, GuardFiles
    <3> QED BY <1>2, <2>1, <3>1, <3>2 DEF OpenTmp
  <2>2. CASE ReloadPolicy(a) /\ Loads(fileText)
    <3> DEFINE loaded == Loaded(fileText)
               request == [IdleAdmin EXCEPT !.pc = "set", !.loaded = loaded]
    <3>1. admin' = Began(a, request) /\ tmpText' = tmpText /\ confirmed' = confirmed
      BY <2>2 DEF ReloadPolicy
    <3>2. loaded \in GuardPolicies
      BY <1>2, <2>2
    <3> HIDE DEF loaded
    <3>3. request \in AdminRecord /\ request.pc = "set" /\ request.text = Blank
          /\ request.loaded = loaded
      BY <1>2, <3>2 DEF AdminRecord
    <3> QED BY <2>2, <3>1, <3>3 DEF loaded
  <2>3. CASE ReloadPolicy(a) /\ ~Loads(fileText)
    BY <1>2, <2>3 DEF ReloadPolicy
  <2> QED BY <2>1, <2>2, <2>3
<1>6. /\ admin' \in [GuardAdmins -> AdminRecord]
      /\ admin'[a].pc = request.pc /\ admin'[a].text = request.text
      /\ admin'[a].loaded = request.loaded /\ admin'[a].open = request.open
      /\ admin'[a].alone <=> Others(a) = {}
      /\ \A b \in GuardAdmins \ {a} :
           /\ admin'[b].pc = admin[b].pc
           /\ admin'[b].alone => admin[b].pc = "idle"
  <2>1. /\ Began(a, request) \in [GuardAdmins -> AdminRecord]
        /\ Began(a, request)[a] = [request EXCEPT !.alone = (Others(a) = {})]
        /\ \A b \in GuardAdmins \ {a} :
             /\ Began(a, request)[b].pc = admin[b].pc
             /\ Began(a, request)[b].alone => admin[b].pc = "idle"
    BY <1>1, BeganIsTyped
  <2> DEFINE only == Others(a) = {}
  <2>2. admin'[a] = [request EXCEPT !.alone = only] /\ only \in BOOLEAN
    BY <1>5, <2>1
  <2> HIDE DEF only
  <2>3. /\ admin'[a].pc = request.pc /\ admin'[a].text = request.text
        /\ admin'[a].loaded = request.loaded /\ admin'[a].open = request.open
        /\ admin'[a].alone <=> only
    BY <2>2 DEF AdminRecord
  <2> QED BY <1>5, <2>1, <2>3 DEF only
<1>7. AdminTypes'
  BY <1>1, <1>2, <1>3, <1>5, <1>6 DEF AdminTypes
<1>8. AloneIsOnly'
  BY <1>4, <1>6 DEF AloneIsOnly
<1>9. SettledIsAlone'
  BY <1>3, <1>4, <1>6 DEF SettledIsAlone
<1>10. AloneGoesRight'
  <2> SUFFICES ASSUME NEW b \in GuardAdmins, admin'[b].alone PROVE GoesRight(b)'
    BY DEF AloneGoesRight
  <2>1. CASE b = a
    BY <1>3, <1>5, <1>6, <2>1 DEF GoesRight, Filed
  <2>2. CASE b # a
    BY <1>6, <2>2 DEF GoesRight
  <2> QED BY <2>1, <2>2
<1>11. SettledIsFiled'
  <2> SUFFICES ASSUME settled'
               PROVE  (Loads(fileText) /\ inForce = Loaded(fileText) /\ stamp = inForce)'
    BY DEF SettledIsFiled
  <2>1. settled /\ \A b \in GuardAdmins : ~Setting(b)
    BY <1>3, <1>4 DEF Setting
  <2> QED BY <1>1, <1>3, <2>1 DEF SettledIsFiled
<1>12. ConfirmedIsFiled'
  BY <1>1, <1>3, <1>5, <1>6 DEF ConfirmedIsFiled
<1> QED BY <1>7, <1>8, <1>9, <1>10, <1>11, <1>12 DEF GuardPolicyInv

LEMMA RestartGuardKeeps == GuardPolicyInv /\ RestartGuard => GuardPolicyInv'
<1> SUFFICES ASSUME GuardPolicyInv, RestartGuard PROVE GuardPolicyInv'
  OBVIOUS
<1>1. /\ \A a \in GuardAdmins : admin'[a] = IdleAdmin
      /\ admin' = [a \in GuardAdmins |-> IdleAdmin]
      /\ guardUp' = Loads(fileText) /\ settled' = Loads(fileText)
      /\ inForce' = IF Loads(fileText) THEN Loaded(fileText) ELSE inForce
      /\ stamp' = inForce'
      /\ fileText' = fileText /\ tmpText' = tmpText /\ confirmed' = confirmed
  BY DEF RestartGuard
<1>2. /\ IdleAdmin \in AdminRecord /\ IdleAdmin.pc = "idle"
      /\ \A c : Loads(c) => Loaded(c) \in GuardPolicies
  BY IdleAdminIsTyped
<1>3. Loads(fileText) \in BOOLEAN
  BY DEF Loads
<1>4. AdminTypes'
  BY <1>1, <1>2, <1>3 DEF GuardPolicyInv, AdminTypes
<1>5. AloneIsOnly' /\ SettledIsAlone' /\ AloneGoesRight'
  BY <1>1, <1>2 DEF AloneIsOnly, SettledIsAlone, AloneGoesRight, GoesRight
<1>6. SettledIsFiled'
  BY <1>1 DEF SettledIsFiled
<1>7. ConfirmedIsFiled'
  BY <1>1, <1>2 DEF GuardPolicyInv, ConfirmedIsFiled
<1> QED BY <1>4, <1>5, <1>6, <1>7 DEF GuardPolicyInv

LEMMA GuardPolicyInitially == GuardPolicyInit => GuardPolicyInv
<1> SUFFICES ASSUME GuardPolicyInit PROVE GuardPolicyInv
  OBVIOUS
<1>1. /\ IdleAdmin \in AdminRecord /\ IdleAdmin.pc = "idle"
      /\ Absent \in Contents /\ GuardTexts \subseteq Contents
      /\ \A c : Loads(c) => Loaded(c) \in GuardPolicies
  BY IdleAdminIsTyped
<1>2. Loads(fileText) /\ fileText \in Contents
  BY <1>1, GuardPolicyAssumption DEF GuardPolicyInit, Loads
<1>3. AdminTypes
  BY <1>1, <1>2 DEF GuardPolicyInit, AdminTypes
<1>4. /\ AloneIsOnly /\ SettledIsAlone /\ AloneGoesRight /\ SettledIsFiled
      /\ ConfirmedIsFiled
  BY <1>1, <1>2 DEF GuardPolicyInit, AloneIsOnly, SettledIsAlone, AloneGoesRight, GoesRight,
                    SettledIsFiled, ConfirmedIsFiled
<1> QED BY <1>3, <1>4 DEF GuardPolicyInv

LEMMA GuardPolicyNextKeeps == GuardPolicyInv /\ [AgentGuardNext]_guardVars => GuardPolicyInv'
<1> SUFFICES ASSUME GuardPolicyInv, [AgentGuardNext]_guardVars PROVE GuardPolicyInv'
  OBVIOUS
<1>1. CASE UNCHANGED guardPolicyVars
  BY <1>1 DEF guardPolicyVars, GuardPolicyInv, AdminTypes, AloneIsOnly, SettledIsAlone,
              AloneGoesRight, GoesRight, Filed, Setting, SettledIsFiled, ConfirmedIsFiled
<1>2. CASE AdminNext
  BY <1>2, UpdateKeeps, SettingKeeps, BeginningKeeps DEF AdminNext
<1>3. CASE RestartGuard
  BY <1>3, RestartGuardKeeps
<1>4. UNCHANGED guardPolicyVars \/ AdminNext \/ RestartGuard
  BY DEF AgentGuardNext, guardVars, RestartAll, ProxyCall, ScanMessage, Forward,
         UpstreamAnswers, ScanAnswer, HandOn, ProposeCall, AskGuard, GuardUnreachable,
         RunTool, OtherScan, Steady, Quiet
<1> QED BY <1>1, <1>2, <1>3, <1>4

LEMMA GuardPolicyInvariant == AgentGuardSpec => []GuardPolicyInv
<1>1. AgentGuardInit => GuardPolicyInv
  BY GuardPolicyInitially DEF AgentGuardInit
<1> QED BY <1>1, GuardPolicyNextKeeps, PTL DEF AgentGuardSpec

\* Whatever overlapped, was refused or died before, a request of an admin that
\* overlaps no other leaves policy, file and fingerprint one, and what it answered
\* stays in the file, which loads.
THEOREM GuardPolicyStaysFiled == AgentGuardSpec => [](PolicyIsFiled /\ UpdateIsKept)
<1>1. GuardPolicyInv => PolicyIsFiled /\ UpdateIsKept
  BY DEF GuardPolicyInv, PolicyIsFiled, UpdateIsKept, NoRequest, SettledIsFiled,
         SettledIsAlone, ConfirmedIsFiled, Setting
<1> QED BY <1>1, GuardPolicyInvariant, PTL

-----------------------------------------------------------------------------
(* Least numbers and sizes of sets.                                        *)

LEMMA LeastOf ==
    ASSUME NEW T \in SUBSET Nat, T # {}
    PROVE  \E n \in T : \A m \in T : ~(m < n)
<1>1. \E n \in T : \A m \in T : ~(<<m, n>> \in OpToRel(<, Nat))
  BY NatLessThanWellFounded, WFMin
<1> QED BY <1>1 DEF OpToRel

LEMMA SubsetSize ==
  ASSUME NEW S, IsFiniteSet(S), NEW T \in SUBSET S
  PROVE  /\ IsFiniteSet(T) /\ Cardinality(T) \in Nat /\ Cardinality(S) \in Nat
         /\ Cardinality(T) <= Cardinality(S)
<1>1. IsFiniteSet(T) /\ Cardinality(T) <= Cardinality(S)
  BY FS_Subset
<1> QED BY <1>1, FS_CardinalityType

LEMMA MatchedSize ==
  ASSUME NEW S, IsFiniteSet(S), NEW T, NEW f \in [S -> T],
         \A a, b \in S : f[a] = f[b] => a = b,
         \A t \in T : \E s \in S : f[s] = t
  PROVE  IsFiniteSet(T) /\ Cardinality(T) = Cardinality(S)
<1>1. f \in Bijection(S, T)
  BY DEF Bijection, Injection, Surjection, IsInjective
<1> QED BY <1>1, FS_Bijection DEF ExistsBijection

-----------------------------------------------------------------------------
(* Risks and findings.                                                     *)

\* The greatest and the least, and the images of finite sets.
LEMMA GreatestOf ==
  ASSUME NEW S \in SUBSET (0 .. 100), S # {}
  PROVE  Max(S) \in S /\ \A s \in S : s <= Max(S)
<1> DEFINE T == {n \in Nat : 100 - n \in S}
<1>1. T \in SUBSET Nat /\ T # {}
  <2>1. PICK s \in S : TRUE
    OBVIOUS
  <2>2. 100 - s \in T
    BY <2>1
  <2> QED BY <2>2
<1>2. PICK n \in T : \A m \in T : ~(m < n)
  <2> HIDE DEF T
  <2> QED BY <1>1, LeastOf
<1>3. 100 - n \in S /\ n \in Nat
  BY <1>2
<1>4. \A s \in S : s <= 100 - n
  <2> SUFFICES ASSUME NEW s \in S PROVE s <= 100 - n
    OBVIOUS
  <2>1. 100 - s \in T
    OBVIOUS
  <2>2. ~(100 - s < n)
    BY <1>2, <2>1
  <2> QED BY <1>3, <2>2
<1>5. \E x \in S : \A y \in S : x >= y
  BY <1>3, <1>4
<1>6. Max(S) \in S /\ \A y \in S : Max(S) >= y
  BY <1>5 DEF Max
<1> QED BY <1>6

LEMMA LeastOfTwo ==
  ASSUME NEW a \in Int, NEW b \in Int
  PROVE  Min({a, b}) = IF a <= b THEN a ELSE b
<1>1. \E x \in {a, b} : \A y \in {a, b} : x <= y
  OBVIOUS
<1>2. Min({a, b}) \in {a, b} /\ \A y \in {a, b} : Min({a, b}) <= y
  BY <1>1 DEF Min
<1> QED BY <1>2

LEMMA GreatestOfTwo ==
  ASSUME NEW a \in Int, NEW b \in Int
  PROVE  Max({a, b}) = IF a >= b THEN a ELSE b
<1>1. \E x \in {a, b} : \A y \in {a, b} : x >= y
  OBVIOUS
<1>2. Max({a, b}) \in {a, b} /\ \A y \in {a, b} : Max({a, b}) >= y
  BY <1>1 DEF Max
<1> QED BY <1>2

LEMMA ImageIsFinite ==
  ASSUME NEW S, IsFiniteSet(S), NEW f
  PROVE  IsFiniteSet({f[x] : x \in S}) /\ Cardinality({f[x] : x \in S}) <= Cardinality(S)
<1> DEFINE T == {f[x] : x \in S}
           g == [x \in S |-> f[x]]
<1>1. g \in Surjection(S, T)
  BY DEF Surjection
<1> HIDE DEF g, T
<1>2. IsFiniteSet(T) /\ Cardinality(T) <= Cardinality(S)
  BY <1>1, FS_Surjection
<1> QED BY <1>2 DEF T

\* Findings are finitely many, with severities up to 100
AreFindings(F) == IsFiniteSet(F) /\ \A f \in F : f.severity \in 0 .. 100
High(F) == {f \in F : f.severity >= 70}

\* A risk is within 100, and more findings are no smaller risk: aggregate_risk.
LEMMA RiskGrows ==
  ASSUME NEW G, AreFindings(G), NEW F \in SUBSET G
  PROVE  AreFindings(F) /\ Risk(F) \in 0 .. 100 /\ Risk(F) <= Risk(G)
<1> DEFINE bump(high) == IF high > 1 THEN Min({10 * (high - 1), 15}) ELSE 0
           top(H) == Max({f.severity : f \in H})
<1>1. AreFindings(F)
  BY FS_Subset DEF AreFindings
<1>2. ASSUME NEW H, AreFindings(H), H # {}
      PROVE  /\ top(H) \in {f.severity : f \in H} /\ top(H) \in 0 .. 100
             /\ \A f \in H : f.severity <= top(H)
  <2>1. {f.severity : f \in H} \in SUBSET (0 .. 100) /\ {f.severity : f \in H} # {}
    BY <1>2 DEF AreFindings
  <2> QED BY <2>1, GreatestOf
<1>3. \A n \in Nat : bump(n) = IF n > 1 THEN (IF 10 * (n - 1) <= 15 THEN 10 * (n - 1) ELSE 15)
                               ELSE 0
  BY LeastOfTwo
<1> HIDE DEF bump, top
<1>4. \A n \in Nat : bump(n) \in 0 .. 15
  BY <1>3
<1>5. \A m, n \in Nat : m <= n => bump(m) <= bump(n)
  BY <1>3
<1>6. ASSUME NEW H, AreFindings(H), H # {}
      PROVE  /\ Cardinality(High(H)) \in Nat
             /\ LET s == top(H) + bump(Cardinality(High(H)))
                IN  Risk(H) = IF s <= 100 THEN s ELSE 100
  <2>1. High(H) \in SUBSET H /\ IsFiniteSet(H)
    BY <1>6 DEF High, AreFindings
  <2>2. Cardinality(High(H)) \in Nat
    BY <2>1, SubsetSize
  <2>3. Risk(H) = Min({100, top(H) + bump(Cardinality(High(H)))})
    BY <1>6 DEF Risk, High, top, bump
  <2>4. top(H) + bump(Cardinality(High(H))) \in Int
    BY <1>2, <1>4, <1>6, <2>2
  <2>5. Min({100, top(H) + bump(Cardinality(High(H)))}) =
          IF 100 <= top(H) + bump(Cardinality(High(H))) THEN 100
          ELSE top(H) + bump(Cardinality(High(H)))
    BY <2>4, LeastOfTwo
  <2> QED BY <2>2, <2>3, <2>4, <2>5
<1>7. ASSUME NEW H, AreFindings(H) PROVE Risk(H) \in 0 .. 100
  <2>1. CASE H = {}
    BY <2>1 DEF Risk
  <2>2. CASE H # {}
    <3>1. top(H) \in 0 .. 100 /\ bump(Cardinality(High(H))) \in 0 .. 15
      BY <1>2, <1>4, <1>6, <1>7, <2>2
    <3> QED BY <1>6, <1>7, <2>2, <3>1
  <2> QED BY <2>1, <2>2
<1>8. Risk(F) <= Risk(G)
  <2>1. CASE F = {}
    <3>1. Risk(F) = 0
      BY <2>1 DEF Risk
    <3>2. Risk(G) \in 0 .. 100
      BY <1>7
    <3> QED BY <3>1, <3>2
  <2>2. CASE F # {}
    <3>1. G # {}
      BY <2>2
    <3>2. top(F) <= top(G)
      <4>1. PICK f \in F : f.severity = top(F)
        BY <1>1, <1>2, <2>2
      <4> QED BY <1>2, <3>1, <4>1
    <3>3. Cardinality(High(F)) <= Cardinality(High(G))
      <4>1. High(G) \in SUBSET G /\ IsFiniteSet(G)
        BY DEF High, AreFindings
      <4>2. IsFiniteSet(High(G))
        BY <4>1, FS_Subset
      <4>3. High(F) \in SUBSET High(G)
        BY DEF High
      <4> QED BY <4>2, <4>3, FS_Subset
    <3>4. /\ Cardinality(High(F)) \in Nat /\ Cardinality(High(G)) \in Nat
          /\ top(F) \in 0 .. 100 /\ top(G) \in 0 .. 100
      BY <1>1, <1>2, <1>6, <2>2, <3>1
    <3>5. bump(Cardinality(High(F))) <= bump(Cardinality(High(G)))
      BY <1>5, <3>3, <3>4
    <3>6. bump(Cardinality(High(F))) \in 0 .. 15 /\ bump(Cardinality(High(G))) \in 0 .. 15
      BY <1>4, <3>4
    <3>7. /\ LET s == top(F) + bump(Cardinality(High(F)))
             IN  Risk(F) = IF s <= 100 THEN s ELSE 100
          /\ LET s == top(G) + bump(Cardinality(High(G)))
             IN  Risk(G) = IF s <= 100 THEN s ELSE 100
      BY <1>1, <1>6, <2>2, <3>1
    <3> DEFINE tf == top(F)
               tg == top(G)
               bf == bump(Cardinality(High(F)))
               bg == bump(Cardinality(High(G)))
    <3>8. /\ tf \in 0 .. 100 /\ tg \in 0 .. 100 /\ bf \in 0 .. 15 /\ bg \in 0 .. 15
          /\ tf <= tg /\ bf <= bg
          /\ Risk(F) = IF tf + bf <= 100 THEN tf + bf ELSE 100
          /\ Risk(G) = IF tg + bg <= 100 THEN tg + bg ELSE 100
      BY <3>2, <3>4, <3>5, <3>6, <3>7
    <3> HIDE DEF tf, tg, bf, bg
    <3> QED BY <3>8
  <2> QED BY <2>1, <2>2
<1> QED BY <1>1, <1>7, <1>8

\* A finding of one severity for each thing.
LEMMA FlatFindings ==
  ASSUME NEW S, IsFiniteSet(S), NEW severity \in 0 .. 100
  PROVE  AreFindings({Finding(x, severity) : x \in S})
<1> DEFINE f == [x \in S |-> Finding(x, severity)]
<1>1. {Finding(x, severity) : x \in S} = {f[x] : x \in S}
  OBVIOUS
<1> HIDE DEF f
<1>2. IsFiniteSet({Finding(x, severity) : x \in S})
  BY <1>1, ImageIsFinite
<1> QED BY <1>2 DEF AreFindings, Finding

\* A finding of the table of its kind for each thing.
LEMMA TableFindings ==
  ASSUME NEW text, IsFiniteSet(text), NEW table,
         \A k \in DOMAIN table : table[k] \in 0 .. 100
  PROVE  AreFindings(FromTable(text, table))
<1> DEFINE S == Of(text, table)
           f == [x \in S |-> Finding(x, table[x.kind])]
<1>1. S \in SUBSET text /\ \A x \in S : table[x.kind] \in 0 .. 100
  BY DEF Of
<1>2. FromTable(text, table) = {f[x] : x \in S}
  BY DEF FromTable
<1> HIDE DEF S
<1>3. \A x \in S : f[x].severity \in 0 .. 100
  BY <1>1 DEF Finding
<1> HIDE DEF f
<1>4. IsFiniteSet(S)
  BY <1>1, FS_Subset
<1>5. IsFiniteSet({f[x] : x \in S})
  BY <1>4, ImageIsFinite
<1> QED BY <1>2, <1>3, <1>5 DEF AreFindings

LEMMA JoinedFindings ==
  ASSUME NEW F, NEW G, AreFindings(F), AreFindings(G)
  PROVE  AreFindings(F \cup G)
<1>1. IsFiniteSet(F \cup G)
  BY FS_Union DEF AreFindings
<1> QED BY <1>1 DEF AreFindings

LEMMA OneFinding ==
  ASSUME NEW x, NEW severity \in 0 .. 100
  PROVE  AreFindings({Finding(x, severity)})
<1>1. IsFiniteSet({x})
  BY FS_Singleton
<1>2. {Finding(y, severity) : y \in {x}} = {Finding(x, severity)}
  OBVIOUS
<1>3. AreFindings({Finding(y, severity) : y \in {x}})
  BY <1>1, FlatFindings
<1> QED BY <1>2, <1>3

LEMMA NoFinding == AreFindings({})
BY FS_EmptySet DEF AreFindings

-----------------------------------------------------------------------------
(* What a scan finds, and what it leaves of a text.                        *)

Shown(text, p) == IF p.hidden THEN Unsplit(text) ELSE text
Commented(text, p) == {x \in Shown(text, p) : p.comments /\ x.comment /\ x.late = "no"}
Open(text, p) == Without(Shown(text, p), Commented(text, p), "comment")
Uninjected(text, p) ==
    Without(Open(text, p), Kind(Open(text, p), "markdown_js_link"), "link")
InjectionsFound(text, p) ==
    (IF Shown(text, p) # text THEN {Finding(Mark("hidden_chars"), 60)} ELSE {})
    \cup {Finding(x, 75) : x \in Suggestive(Commented(text, p))}
    \cup {Finding(x, 70) : x \in Kind(Open(text, p), "markdown_js_link")}
    \cup FromTable(Uninjected(text, p), Instruction)
    \cup {Finding(x, 80) : x \in Encoded(Uninjected(text, p))}
Impersonal(text, on) == IF on THEN Redacted(text) ELSE text
Unsecret(text, on) == IF on THEN Concealed(text) ELSE text
FoundIf(on, text, table) == IF on THEN FromTable(text, table) ELSE {}

\* What scan_input leaves and finds
Left(text, p) == Unsecret(Impersonal(Uninjected(text, p), p.pii), p.secrets)
FoundIn(text, p, score) ==
    InjectionsFound(text, p) \cup URLs(Uninjected(text, p), p) \cup Classified(score)
    \cup FoundIf(p.pii, Uninjected(text, p), Personal)
    \cup FoundIf(p.secrets, Impersonal(Uninjected(text, p), p.pii), Secret)

\* scan_input, put together of its five scanners.
LEMMA InputIsScanned ==
  ASSUME NEW text, NEW p, NEW score
  PROVE  ScanInput(text, p, score) =
           [decision |-> Decide(Risk(FoundIn(text, p, score)), p.input),
            risk |-> Risk(FoundIn(text, p, score)), text |-> Left(text, p)]
<1>1. Injections(text, p) = [text |-> Uninjected(text, p), findings |-> InjectionsFound(text, p)]
  BY DEF Injections, Uninjected, InjectionsFound, Open, Commented, Shown, Unsplit, Scanned
<1>2. ASSUME NEW t, NEW on
      PROVE  /\ Strip(t, on) = [text |-> Impersonal(t, on), findings |-> FoundIf(on, t, Personal)]
             /\ Conceal(t, on) = [text |-> Unsecret(t, on), findings |-> FoundIf(on, t, Secret)]
  BY DEF Strip, Conceal, Impersonal, Unsecret, FoundIf, Scanned
<1> QED BY <1>1, <1>2 DEF ScanInput, Left, FoundIn, VerdictOn

\* Texts stay texts, and what is found are findings.
LEMMA UnsplitIsText ==
  ASSUME NEW text \in Texts
  PROVE  /\ Unsplit(text) \in Texts /\ \A x \in Unsplit(text) : ~x.split
         /\ Cardinality(Unsplit(text)) <= Cardinality(text)
<1> DEFINE f == [x \in text |-> [x EXCEPT !.split = FALSE]]
<1>1. Unsplit(text) = {f[x] : x \in text}
  BY DEF Unsplit
<1>2. \A x \in text : f[x] \in Things /\ ~f[x].split
  BY DEF Texts, Things
<1> HIDE DEF f
<1>3. IsFiniteSet({f[x] : x \in text}) /\ Cardinality({f[x] : x \in text}) <= Cardinality(text)
  BY ImageIsFinite DEF Texts
<1> QED BY <1>1, <1>2, <1>3 DEF Texts

\* What is left when something was taken out is a text, no longer than before.
LEMMA WithoutIsText ==
  ASSUME NEW text \in Texts, NEW gone, NEW by
  PROVE  /\ Without(text, gone, by) \in Texts
         /\ Cardinality(Without(text, gone, by)) <= Cardinality(text)
<1> DEFINE rest == text \ gone
           f == [x \in rest |-> IF gone # {} /\ x.late = by THEN [x EXCEPT !.late = "no"] ELSE x]
<1>1. Without(text, gone, by) = {f[x] : x \in rest}
  BY DEF Without
<1>2. rest \in SUBSET text /\ IsFiniteSet(text) /\ text \in SUBSET Things
  BY DEF Texts
<1>3. \A x \in rest : f[x] \in Things
  <2> SUFFICES ASSUME NEW x \in rest PROVE f[x] \in Things
    OBVIOUS
  <2>1. x \in Things
    BY <1>2
  <2>2. [x EXCEPT !.late = "no"] \in Things
    BY <2>1 DEF Things
  <2> HIDE DEF rest
  <2> QED BY <2>1, <2>2
<1>4. IsFiniteSet(rest) /\ Cardinality(rest) <= Cardinality(text)
  BY <1>2, FS_Subset
<1>5. Cardinality(rest) \in Nat /\ Cardinality(text) \in Nat
  BY <1>2, <1>4, FS_CardinalityType
<1> HIDE DEF f, rest
<1>6. IsFiniteSet({f[x] : x \in rest}) /\ Cardinality({f[x] : x \in rest}) <= Cardinality(rest)
  BY <1>4, ImageIsFinite
<1>7. Cardinality({f[x] : x \in rest}) \in Nat
  BY <1>6, FS_CardinalityType
<1>8. {f[x] : x \in rest} \in Texts
  BY <1>3, <1>6 DEF Texts
<1> QED BY <1>1, <1>4, <1>5, <1>6, <1>7, <1>8

\* Where nothing is late, what is left is what was not taken out.
LEMMA WithoutOfWhole ==
  ASSUME NEW text, \A x \in text : x.late = "no", NEW gone, NEW by, by # "no"
  PROVE  Without(text, gone, by) = text \ gone /\ Without(text, {}, by) = text
<1>1. \A x \in text : ~(x.late = by)
  OBVIOUS
<1>2. ASSUME NEW out PROVE Without(text, out, by) = text \ out
  BY <1>1 DEF Without
<1>3. text \ {} = text
  OBVIOUS
<1> QED BY <1>2, <1>3

LEMMA PartIsText ==
  ASSUME NEW text \in Texts, NEW part \in SUBSET text
  PROVE  part \in Texts
BY FS_Subset DEF Texts

\* What each scanner leaves of a text is a text.
LEMMA LeftIsText ==
  ASSUME NEW text \in Texts, NEW p
  PROVE  /\ Shown(text, p) \in Texts /\ Commented(text, p) \in Texts /\ Open(text, p) \in Texts
         /\ Uninjected(text, p) \in Texts /\ Impersonal(Uninjected(text, p), p.pii) \in Texts
         /\ Left(text, p) \in Texts
<1>1. Shown(text, p) \in Texts
  BY UnsplitIsText DEF Shown
<1>2. Commented(text, p) \in Texts /\ Open(text, p) \in Texts
  <2>1. Commented(text, p) \in SUBSET Shown(text, p)
    BY DEF Commented
  <2> QED BY <1>1, <2>1, PartIsText, WithoutIsText DEF Open
<1>3. Uninjected(text, p) \in Texts
  BY <1>2, WithoutIsText DEF Uninjected
<1>4. Impersonal(Uninjected(text, p), p.pii) \in Texts
  BY <1>3, WithoutIsText DEF Impersonal, Redacted
<1>5. Left(text, p) \in Texts
  BY <1>4, WithoutIsText DEF Left, Unsecret, Concealed
<1> QED BY <1>1, <1>2, <1>3, <1>4, <1>5

LEMMA KindIsFinite ==
  ASSUME NEW text \in Texts, NEW kind, NEW severity \in 0 .. 100
  PROVE  AreFindings({Finding(x, severity) : x \in Kind(text, kind)})
<1>1. Kind(text, kind) \in SUBSET text /\ IsFiniteSet(text)
  BY DEF Kind, Texts
<1>2. IsFiniteSet(Kind(text, kind))
  BY <1>1, FS_Subset
<1> QED BY <1>2, FlatFindings

\* The severities of URLThreatScanner.
LEMMA URLsAreFindings ==
  ASSUME NEW text \in Texts, NEW p
  PROVE  AreFindings(URLs(text, p))
<1> DEFINE one == {Finding(x, 100) : x \in Kind(text, "metadata_url")}
           private == {y \in Kind(text, "private_url") : p.private \/ p.listed}
           foreign == {y \in Kind(text, "foreign_url") : p.listed}
           two == {Finding(x, IF p.private THEN 85 ELSE 50) : x \in private}
           three == {Finding(x, 50) : x \in foreign}
<1>0. 100 \in 0 .. 100 /\ 50 \in 0 .. 100
  OBVIOUS
<1>1. URLs(text, p) = one \cup two \cup three
  BY DEF URLs
<1>2. AreFindings(one)
  BY <1>0, KindIsFinite
<1>3. private \in SUBSET text /\ foreign \in SUBSET text /\ IsFiniteSet(text)
  BY DEF Kind, Texts
<1>4. IsFiniteSet(private) /\ IsFiniteSet(foreign)
  <2> HIDE DEF private, foreign
  <2> QED BY <1>3, FS_Subset
<1>5. (IF p.private THEN 85 ELSE 50) \in 0 .. 100
  OBVIOUS
<1>6. AreFindings(two)
  <2> HIDE DEF private
  <2> QED BY <1>4, <1>5, FlatFindings
<1>7. AreFindings(three)
  <2> HIDE DEF foreign
  <2> QED BY <1>0, <1>4, FlatFindings
<1> HIDE DEF one, two, three
<1> QED BY <1>1, <1>2, <1>6, <1>7, JoinedFindings

LEMMA TablesOfSeverities ==
  /\ \A k \in DOMAIN Instruction : Instruction[k] \in 0 .. 100
  /\ \A k \in DOMAIN Personal : Personal[k] \in 0 .. 100
  /\ \A k \in DOMAIN Secret : Secret[k] \in 0 .. 100
BY DEF Instruction, Personal, Secret

\* All that scan_input finds are findings, so that they have a risk.
LEMMA FoundAreFindings ==
  ASSUME NEW text \in Texts, NEW p, NEW score \in Int
  PROVE  AreFindings(FoundIn(text, p, score))
<1>1. /\ \A t \in Texts : IsFiniteSet(t)
      /\ Commented(text, p) \in Texts /\ Open(text, p) \in Texts
      /\ Uninjected(text, p) \in Texts /\ Impersonal(Uninjected(text, p), p.pii) \in Texts
  BY LeftIsText DEF Texts
<1>0. /\ 60 \in 0 .. 100 /\ 70 \in 0 .. 100
      /\ 75 \in 0 .. 100 /\ 80 \in 0 .. 100
  OBVIOUS
<1>2. AreFindings(IF Shown(text, p) # text THEN {Finding(Mark("hidden_chars"), 60)} ELSE {})
  BY <1>0, OneFinding, NoFinding
<1>3. AreFindings({Finding(x, 75) : x \in Suggestive(Commented(text, p))})
  <2>1. Suggestive(Commented(text, p)) \in SUBSET Commented(text, p)
    BY DEF Of, Kind, Suggestive
  <2>2. IsFiniteSet(Suggestive(Commented(text, p)))
    BY <1>1, <2>1, FS_Subset
  <2> QED BY <1>0, <2>2, FlatFindings
<1>4. /\ AreFindings({Finding(x, 70) : x \in Kind(Open(text, p), "markdown_js_link")})
      /\ AreFindings({Finding(x, 80) : x \in Encoded(Uninjected(text, p))})
  <2>1. Encoded(Uninjected(text, p)) \in SUBSET Uninjected(text, p)
    BY DEF Kind, Encoded
  <2>2. IsFiniteSet(Encoded(Uninjected(text, p)))
    BY <1>1, <2>1, FS_Subset
  <2> QED BY <1>0, <1>1, <2>2, KindIsFinite, FlatFindings
<1>5. AreFindings(FromTable(Uninjected(text, p), Instruction))
  BY <1>1, TableFindings, TablesOfSeverities
<1>6. AreFindings(InjectionsFound(text, p))
  BY <1>2, <1>3, <1>4, <1>5, JoinedFindings DEF InjectionsFound
<1>7. AreFindings(URLs(Uninjected(text, p), p))
  BY <1>1, URLsAreFindings
<1>8. AreFindings(Classified(score))
  <2>1. CASE score \in 50 .. 100
    <3>1. score \in 0 .. 100
      BY <2>1
    <3> QED BY <2>1, <3>1, OneFinding DEF Classified
  <2>2. CASE score \notin 50 .. 100
    BY <2>2, NoFinding DEF Classified
  <2> QED BY <2>1, <2>2
<1>9. ASSUME NEW t \in Texts, NEW on
      PROVE  AreFindings(FoundIf(on, t, Personal)) /\ AreFindings(FoundIf(on, t, Secret))
  <2>1. AreFindings(FromTable(t, Personal)) /\ AreFindings(FromTable(t, Secret))
    BY <1>1, TableFindings, TablesOfSeverities
  <2> QED BY <2>1, NoFinding DEF FoundIf
<1> QED BY <1>1, <1>6, <1>7, <1>8, <1>9, JoinedFindings DEF FoundIn

\* A text that was scanned is clean where one pass is enough: scanned again nothing more
\* is taken out of it, and no more is found.
LEMMA CleanStaysClean ==
  ASSUME NEW text \in Texts, OnePassIsEnough(text), NEW p, NEW score
  PROVE  /\ Left(Left(text, p), p) = Left(text, p)
         /\ FoundIn(Left(text, p), p, score) \in SUBSET FoundIn(text, p, score)
<1> DEFINE left == Left(text, p)
           two == Impersonal(Uninjected(text, p), p.pii)
<1>0. /\ \A x \in Shown(text, p) :
            /\ x.late = "no"
            /\ x.kind = "encoded" => Cardinality(text) <= DecodeLimit
      /\ Cardinality(Shown(text, p)) <= Cardinality(text) /\ Cardinality(text) \in Nat
  <2>1. IsFiniteSet(text) /\ \A x \in text : x \in Things
    BY DEF Texts
  <2>2. Cardinality(text) \in Nat /\ Cardinality(Unsplit(text)) <= Cardinality(text)
    BY <2>1, FS_CardinalityType, UnsplitIsText
  <2>3. \A x \in text : /\ [x EXCEPT !.split = FALSE].late = x.late
                        /\ [x EXCEPT !.split = FALSE].kind = x.kind
    BY <2>1 DEF Things
  <2>4. \A x \in text : x.late = "no" /\ (x.kind = "encoded" => Cardinality(text) <= DecodeLimit)
    BY DEF OnePassIsEnough
  <2>5. CASE p.hidden
    <3>1. \A x \in Unsplit(text) :
            x.late = "no" /\ (x.kind = "encoded" => Cardinality(text) <= DecodeLimit)
      BY <2>3, <2>4 DEF Unsplit
    <3> QED BY <2>2, <2>5, <3>1 DEF Shown
  <2>6. CASE ~p.hidden
    BY <2>2, <2>4, <2>6 DEF Shown
  <2> QED BY <2>5, <2>6
<1>1. /\ left \subseteq two /\ two \subseteq Uninjected(text, p)
      /\ Uninjected(text, p) = Open(text, p) \ Kind(Open(text, p), "markdown_js_link")
      /\ Open(text, p) = Shown(text, p) \ Commented(text, p)
      /\ left \in Texts /\ Shown(text, p) \in Texts
      /\ p.pii => two = Uninjected(text, p)
                          \ (Of(Uninjected(text, p), Personal)
                             \cup IF Kind(Uninjected(text, p), "credit_card") = {} THEN {}
                                  ELSE Kind(Uninjected(text, p), "digits"))
      /\ p.secrets => left = two \ Of(two, Secret)
  <2>1. left \in Texts /\ Shown(text, p) \in Texts
    BY LeftIsText
  <2>2. Open(text, p) = Shown(text, p) \ Commented(text, p)
    BY <1>0, WithoutOfWhole DEF Open
  <2>3. Uninjected(text, p) = Open(text, p) \ Kind(Open(text, p), "markdown_js_link")
    BY <1>0, <2>2, WithoutOfWhole DEF Uninjected
  <2>4. \A x \in Uninjected(text, p) : x.late = "no"
    BY <1>0, <2>2, <2>3
  <2>5. p.pii => two = Uninjected(text, p)
                          \ (Of(Uninjected(text, p), Personal)
                             \cup IF Kind(Uninjected(text, p), "credit_card") = {} THEN {}
                                  ELSE Kind(Uninjected(text, p), "digits"))
    BY <2>4, WithoutOfWhole DEF Impersonal, Redacted
  <2>6. ~p.pii => two = Uninjected(text, p)
    BY DEF Impersonal
  <2>7. two \subseteq Uninjected(text, p)
    BY <2>5, <2>6
  <2>8. p.secrets => left = two \ Of(two, Secret)
    BY <2>4, <2>7, WithoutOfWhole DEF Left, Unsecret, Concealed
  <2>9. ~p.secrets => left = two
    BY DEF Left, Unsecret
  <2> QED BY <2>1, <2>2, <2>3, <2>5, <2>7, <2>8, <2>9
<1>a. left \subseteq Shown(text, p) /\ \A x \in left : x.late = "no"
  BY <1>0, <1>1
<1>2. Shown(left, p) = left
  <2>1. CASE p.hidden
    <3>1. \A x \in left : x.split = FALSE /\ x \in Things
      BY <1>1, <2>1, UnsplitIsText DEF Shown, Texts, Things
    <3>2. \A x \in left : [x EXCEPT !.split = FALSE] = x
      BY <3>1 DEF Things
    <3> HIDE DEF left
    <3> QED BY <2>1, <3>2 DEF Shown, Unsplit
  <2>2. CASE ~p.hidden
    BY <2>2 DEF Shown
  <2> QED BY <2>1, <2>2
<1>3. Commented(left, p) = {} /\ Open(left, p) = left
  <2>1. \A x \in left : ~(p.comments /\ x.comment /\ x.late = "no")
    BY <1>1 DEF Commented
  <2>2. \A x \in left : x.late = "no"
    BY <1>a
  <2> HIDE DEF left
  <2>3. Commented(left, p) = {}
    BY <1>2, <2>1 DEF Commented
  <2>4. Without(left, {}, "comment") = left
    BY <2>2, WithoutOfWhole
  <2> QED BY <1>2, <2>3, <2>4 DEF Open
<1>4. Kind(left, "markdown_js_link") = {} /\ Uninjected(left, p) = left
  <2>1. \A x \in left : ~(x.kind = "markdown_js_link" /\ Legible(x))
    BY <1>1 DEF Kind
  <2>2. \A x \in left : x.late = "no"
    BY <1>a
  <2> HIDE DEF left
  <2>3. Kind(left, "markdown_js_link") = {}
    BY <2>1 DEF Kind
  <2>4. Without(left, {}, "link") = left
    BY <2>2, WithoutOfWhole
  <2> QED BY <1>3, <2>3, <2>4 DEF Uninjected
<1>5. ASSUME p.pii PROVE Of(left, Personal) = {} /\ Redacted(left) = left
  <2>1. \A x \in left : x \in two
    BY <1>1
  <2>2. \A x \in two : x \notin Of(Uninjected(text, p), Personal) /\ x \in Uninjected(text, p)
    <3> HIDE DEF two, left
    <3> QED BY <1>1, <1>5
  <2>0. \A x \in left : x.late = "no"
    BY <1>a
  <2> HIDE DEF left, two
  <2>3. Of(left, Personal) = {}
    BY <2>1, <2>2 DEF Of
  <2>4. Kind(left, "credit_card") = {}
    <3>1. "credit_card" \in DOMAIN Personal
      BY DEF Personal
    <3> QED BY <2>3, <3>1 DEF Of, Kind
  <2>5. Without(left, {}, "redaction") = left
    BY <2>0, WithoutOfWhole
  <2> QED BY <2>3, <2>4, <2>5 DEF Redacted
<1>6. ASSUME p.secrets PROVE Of(left, Secret) = {} /\ Concealed(left) = left
  <2>1. left = two \ Of(two, Secret)
    BY <1>1, <1>6
  <2>2. \A x \in left : x.late = "no"
    BY <1>a
  <2> HIDE DEF left, two
  <2>3. Of(left, Secret) = {}
    BY <2>1 DEF Of
  <2>4. Without(left, {}, "redaction") = left
    BY <2>2, WithoutOfWhole
  <2> QED BY <2>3, <2>4 DEF Concealed
<1>7. Impersonal(left, p.pii) = left
  BY <1>5 DEF Impersonal
<1>8. Left(left, p) = left
  <2> HIDE DEF left
  <2> QED BY <1>4, <1>6, <1>7 DEF Left, Unsecret
<1>9. FoundIf(p.pii, left, Personal) = {} /\ FoundIf(p.secrets, left, Secret) = {}
  <2> HIDE DEF left
  <2> QED BY <1>5, <1>6 DEF FoundIf, FromTable
<1>10. InjectionsFound(left, p) \subseteq InjectionsFound(text, p)
  <2>1. InjectionsFound(left, p) =
          FromTable(left, Instruction) \cup {Finding(x, 80) : x \in Encoded(left)}
    <3> HIDE DEF left
    <3>1. Suggestive({}) = {}
      BY DEF Suggestive, Of, Kind
    <3> QED BY <1>2, <1>3, <1>4, <3>1 DEF InjectionsFound
  <2>2. left \subseteq Uninjected(text, p)
    BY <1>1
  <2>0. \A x \in left : x.kind = "encoded" => Cardinality(text) <= DecodeLimit
    BY <1>0, <1>a
  <2> HIDE DEF left
  <2>3. FromTable(left, Instruction) \subseteq FromTable(Uninjected(text, p), Instruction)
    BY <2>2 DEF FromTable, Of
  <2>4. Encoded(left) \subseteq Encoded(Uninjected(text, p))
    <3> DEFINE u == Uninjected(text, p)
    <3>1. Kind(left, "encoded") \subseteq Kind(u, "encoded")
      BY <2>2 DEF Kind
    <3>2. Kind(left, "encoded") # {} => Cardinality(text) <= DecodeLimit
      BY <2>0 DEF Kind
    <3>3. u \in SUBSET Shown(text, p) /\ IsFiniteSet(Shown(text, p))
      <4>1. IsFiniteSet(Shown(text, p))
        BY <1>1 DEF Texts
      <4> QED BY <1>1, <4>1
    <3> HIDE DEF u
    <3>4. IsFiniteSet(u) /\ Cardinality(u) <= Cardinality(Shown(text, p))
      BY <3>3, FS_Subset
    <3>5. Cardinality(u) \in Nat /\ Cardinality(Shown(text, p)) \in Nat /\ DecodeLimit \in Nat
      BY <3>3, <3>4, FS_CardinalityType, AgentGuardAssumption
    <3>6. Cardinality(text) <= DecodeLimit => Cardinality(u) <= DecodeLimit
      BY <1>0, <3>4, <3>5
    <3>7. Kind(left, "encoded") # {} => Encoded(u) = Kind(u, "encoded")
      BY <3>2, <3>6 DEF Encoded
    <3>8. Encoded(left) \subseteq Kind(left, "encoded")
      BY DEF Encoded
    <3> QED BY <3>1, <3>7, <3>8 DEF u
  <2> QED BY <2>1, <2>3, <2>4 DEF InjectionsFound
<1>11. URLs(left, p) \subseteq URLs(Uninjected(text, p), p)
  <2>1. left \subseteq Uninjected(text, p)
    BY <1>1
  <2> HIDE DEF left
  <2>2. \A k : Kind(left, k) \subseteq Kind(Uninjected(text, p), k)
    BY <2>1 DEF Kind
  <2> QED BY <2>2 DEF URLs
<1>12. FoundIn(left, p, score) \subseteq FoundIn(text, p, score)
  <2> HIDE DEF left
  <2> QED BY <1>4, <1>7, <1>9, <1>10, <1>11 DEF FoundIn
<1> QED BY <1>8, <1>12

\* Where invisible characters are stripped, more is found of a text with them.
LEMMA HiddenIsFound ==
  ASSUME NEW text \in Texts, NEW p, NEW score, p.hidden
  PROVE  FoundIn(Unsplit(text), p, score) \in SUBSET FoundIn(text, p, score)
<1>1. Unsplit(Unsplit(text)) = Unsplit(text)
  <2>1. \A x \in text : [[x EXCEPT !.split = FALSE] EXCEPT !.split = FALSE]
                          = [x EXCEPT !.split = FALSE]
    BY DEF Texts, Things
  <2> QED BY ZenonT(60), <2>1 DEF Unsplit
<1>2. Shown(Unsplit(text), p) = Unsplit(text) /\ Shown(text, p) = Unsplit(text)
  BY <1>1 DEF Shown
<1>3. /\ Commented(Unsplit(text), p) = Commented(text, p)
      /\ Open(Unsplit(text), p) = Open(text, p)
  BY <1>2 DEF Commented, Open
<1>4. Uninjected(Unsplit(text), p) = Uninjected(text, p)
  BY <1>3 DEF Uninjected
<1>5. InjectionsFound(Unsplit(text), p) \subseteq InjectionsFound(text, p)
  BY <1>2, <1>3, <1>4 DEF InjectionsFound
<1> QED BY <1>4, <1>5 DEF FoundIn

-----------------------------------------------------------------------------
(* Verdicts.                                                               *)

Decisions == {"allow", "challenge", "block"}
Verdicts == [decision : Decisions, risk : 0 .. 100, text : Texts]
              \cup [decision : Decisions, risk : 0 .. 100, text : Texts, approval : BOOLEAN]

ToolFound(call, p) ==
    {Finding(x, 90) : x \in Kind(call.args, "destructive_argument")} \cup URLs(call.args, p)
    \cup (IF Mismatch(call) > 0
          THEN {Finding(Mark("intent_mismatch"), Mismatch(call))} ELSE {})

LEMMA DecisionsAreMade ==
  ASSUME NEW risk, NEW limits
  PROVE  Decide(risk, limits) \in Decisions
BY DEF Decide, Decisions

\* The verdicts of scan_input, scan_output and scan_tool.
LEMMA InputVerdicts ==
  ASSUME NEW text \in Texts, NEW p, NEW score \in Int
  PROVE  ScanInput(text, p, score) \in Verdicts /\ ScanInput(text, p, score).text \in Texts
<1>1. Risk(FoundIn(text, p, score)) \in 0 .. 100
  BY FoundAreFindings, RiskGrows
<1> QED BY <1>1, InputIsScanned, LeftIsText, DecisionsAreMade DEF Verdicts

LEMMA OutputVerdicts ==
  ASSUME NEW text \in Texts, NEW p
  PROVE  ScanOutput(text, p) \in Verdicts
<1> DEFINE bare == Concealed(text)
           found == FromTable(text, Secret) \cup FromTable(bare, Personal)
                      \cup URLs(Redacted(bare), p)
<1>1. ScanOutput(text, p) = [decision |-> Decide(Risk(found), p.default),
                             risk |-> Risk(found), text |-> Redacted(bare)]
  BY DEF ScanOutput, Conceal, Strip, Scanned, VerdictOn
<1>2. bare \in Texts
  BY WithoutIsText DEF Concealed
<1> HIDE DEF bare
<1>3. Redacted(bare) \in Texts
  BY <1>2, WithoutIsText DEF Redacted
<1>4. AreFindings(found)
  <2>1. AreFindings(FromTable(text, Secret)) /\ AreFindings(FromTable(bare, Personal))
    <3>1. IsFiniteSet(text) /\ IsFiniteSet(bare)
      BY <1>2 DEF Texts
    <3> QED BY <3>1, TableFindings, TablesOfSeverities
  <2>2. AreFindings(URLs(Redacted(bare), p))
    BY <1>3, URLsAreFindings
  <2> QED BY <2>1, <2>2, JoinedFindings
<1> HIDE DEF found
<1>5. Risk(found) \in 0 .. 100
  BY <1>4, RiskGrows
<1> QED BY <1>1, <1>3, <1>5, DecisionsAreMade DEF Verdicts

\* What check_tool finds in a call, and its risk and decision.
LEMMA ToolsAreScanned ==
  ASSUME NEW call, call.args \in Texts, NEW p
  PROVE  /\ AreFindings(ToolFound(call, p))
         /\ ScanTool(call, p).risk = Risk(ToolFound(call, p))
         /\ ScanTool(call, p).decision = Decide(Risk(ToolFound(call, p)), LimitsOf(p, call.tool))
<1>0. 90 \in 0 .. 100 /\ 60 \in 0 .. 100 /\ 80 \in 0 .. 100 /\ 0 \in 0 .. 100
  OBVIOUS
<1>1. AreFindings({Finding(x, 90) : x \in Kind(call.args, "destructive_argument")})
  BY <1>0, KindIsFinite
<1>2. AreFindings(URLs(call.args, p))
  BY URLsAreFindings
<1>3. Mismatch(call) \in 0 .. 100
  BY <1>0 DEF Mismatch
<1>4. AreFindings(IF Mismatch(call) > 0
                  THEN {Finding(Mark("intent_mismatch"), Mismatch(call))} ELSE {})
  BY <1>3, OneFinding, NoFinding
<1>5. AreFindings(ToolFound(call, p))
  BY <1>1, <1>2, <1>4, JoinedFindings DEF ToolFound
<1> QED BY <1>5 DEF ScanTool, ToolFound, VerdictOn

\* A verdict on a tool tells about an approval, and a challenge asks for one.
LEMMA ToolVerdicts ==
  ASSUME NEW call \in AgentCalls, NEW p \in GuardPolicies
  PROVE  /\ ScanTool(call, p) \in Verdicts /\ "approval" \in DOMAIN ScanTool(call, p)
         /\ ScanTool(call, p).decision = "challenge" => ScanTool(call, p).approval
<1>1. call.args \in Texts
  BY AgentGuardAssumption
<1>2. /\ ScanTool(call, p).risk \in 0 .. 100 /\ ScanTool(call, p).decision \in Decisions
      /\ ScanTool(call, p).text = call.args
  <2>1. ScanTool(call, p).text = call.args
    BY DEF ScanTool
  <2> QED BY <1>1, <2>1, ToolsAreScanned, RiskGrows, DecisionsAreMade
<1>3. LimitsOf(p, call.tool).approval \in BOOLEAN
  <2>1. p.default \in ThresholdsOf /\ \A t \in DOMAIN p.tools : p.tools[t] \in ThresholdsOf
    BY AgentGuardAssumption DEF GuardPolicies
  <2> QED BY <2>1 DEF LimitsOf, ThresholdsOf
<1>4. ScanTool(call, p) =
        [decision |-> ScanTool(call, p).decision, risk |-> ScanTool(call, p).risk,
         text |-> ScanTool(call, p).text,
         approval |-> /\ ScanTool(call, p).decision # "block"
                      /\ \/ LimitsOf(p, call.tool).approval
                         \/ ScanTool(call, p).decision = "challenge"]
  BY DEF ScanTool
<1> DEFINE decision == ScanTool(call, p).decision
           approval == decision # "block" /\ (LimitsOf(p, call.tool).approval
                                              \/ decision = "challenge")
<1>5. approval \in BOOLEAN
  OBVIOUS
<1>6. decision = "challenge" => approval
  OBVIOUS
<1> HIDE DEF approval
<1>7. ScanTool(call, p) =
        [decision |-> decision, risk |-> ScanTool(call, p).risk,
         text |-> ScanTool(call, p).text, approval |-> approval]
  BY <1>4 DEF approval
<1> QED BY <1>1, <1>2, <1>5, <1>6, <1>7 DEF Verdicts

\* Of a call with less in its arguments no more is found, when its intent mismatches as
\* much or not at all.
LEMMA LessIsFound ==
  ASSUME NEW call \in AgentCalls, NEW p, NEW less \in SUBSET call.args, NEW part,
         part.args = less, Mismatch(part) \in {0, Mismatch(call)}
  PROVE  /\ ScanTool(part, p).risk <= ScanTool(call, p).risk
         /\ ScanTool(call, p).risk <= 100
<1>1. call.args \in Texts
  BY AgentGuardAssumption
<1>2. less \in Texts
  BY <1>1, PartIsText
<1>3. ToolFound(part, p) \in SUBSET ToolFound(call, p)
  <2>1. \A k : Kind(less, k) \subseteq Kind(call.args, k)
    BY DEF Kind
  <2>2. URLs(less, p) \subseteq URLs(call.args, p)
    BY <2>1 DEF URLs
  <2>3. {Finding(x, 90) : x \in Kind(less, "destructive_argument")}
          \subseteq {Finding(x, 90) : x \in Kind(call.args, "destructive_argument")}
    BY <2>1
  <2>4. ~(0 > 0)
    OBVIOUS
  <2> QED BY <2>2, <2>3, <2>4 DEF ToolFound
<1>4. /\ AreFindings(ToolFound(call, p)) /\ ScanTool(call, p).risk = Risk(ToolFound(call, p))
      /\ ScanTool(part, p).risk = Risk(ToolFound(part, p))
  BY <1>1, <1>2, ToolsAreScanned
<1>5. Risk(ToolFound(part, p)) <= Risk(ToolFound(call, p)) /\ Risk(ToolFound(call, p)) \in 0 .. 100
  BY <1>3, <1>4, RiskGrows
<1> QED BY <1>4, <1>5

\* More in the arguments is judged milder only for the word the intent was missing.
LEMMA MoreIsNoMilderOf ==
  ASSUME NEW call \in AgentCalls, NEW p, NEW less \in SUBSET call.args,
         NEW part, part = [call EXCEPT !.args = less],
         NEW matched, matched = [part EXCEPT !.intent = "matches"]
  PROVE  /\ Mismatch(part) = Mismatch(call) => ScanTool(part, p).risk <= ScanTool(call, p).risk
         /\ ScanTool(matched, p).risk <= ScanTool(call, p).risk
         /\ ScanTool(call, p).risk <= 100
<1>1. call \in [tool : STRING, args : Texts, intent : STRING, says : Texts, gives : Texts]
  BY AgentGuardAssumption
<1>2. part.args = less /\ matched.args = less /\ matched.intent = "matches"
  BY <1>1
<1>3. Mismatch(matched) = 0
  BY <1>2 DEF Mismatch
<1>4. Mismatch(part) = Mismatch(call) => ScanTool(part, p).risk <= ScanTool(call, p).risk
  BY <1>2, LessIsFound
<1>5. ScanTool(matched, p).risk <= ScanTool(call, p).risk /\ ScanTool(call, p).risk <= 100
  BY <1>2, <1>3, LessIsFound
<1> QED BY <1>4, <1>5

-----------------------------------------------------------------------------
(* Events of a call.                                                       *)

GuardEvent == [by : {"use", "other"}, decision : Decisions]
Uses(events, i, j) == {k \in i .. j : events[k].by = "use"}
ToldAt(i, events, n, verdicts, m) ==
    LET later == Cardinality(Uses(events, i + 1, n))
    IN  later < m /\ events[i].decision = verdicts[m - later].decision
Tell(events, verdicts) ==
    \A i \in Uses(events, 1, Len(events)) :
        ToldAt(i, events, Len(events), verdicts, Len(verdicts))

\* The events of a call in a part of the buffer are finitely many.
LEMMA UsesAreCounted ==
  ASSUME NEW events, NEW i \in Int, NEW j \in Int
  PROVE  IsFiniteSet(Uses(events, i, j)) /\ Cardinality(Uses(events, i, j)) \in Nat
<1>1. IsFiniteSet(i .. j)
  BY FS_Interval
<1>2. Uses(events, i, j) \in SUBSET (i .. j)
  BY DEF Uses
<1> QED BY <1>1, <1>2, SubsetSize

\* A verdict and its event go together, and another's event changes nothing.
LEMMA VerdictIsTold ==
  ASSUME NEW events \in Seq(GuardEvent), NEW verdicts \in Seq(Verdicts), NEW verdict \in Verdicts,
         Tell(events, verdicts)
  PROVE  Tell(Append(events, [by |-> "use", decision |-> verdict.decision]),
              Append(verdicts, verdict))
<1> DEFINE n == Len(events)
           m == Len(verdicts)
           event == [by |-> "use", decision |-> verdict.decision]
           more == Append(events, event)
           all == Append(verdicts, verdict)
<1>1. /\ n \in Nat /\ m \in Nat /\ Len(more) = n + 1 /\ Len(all) = m + 1
      /\ more[n + 1] = event /\ all[m + 1] = verdict
      /\ \A k \in 1 .. n : more[k] = events[k]
      /\ \A k \in 1 .. m : all[k] = verdicts[k]
  <2>1. event \in GuardEvent
    BY DEF GuardEvent, Verdicts
  <2> HIDE DEF event
  <2> QED BY <2>1
<1>2. event.by = "use" /\ event.decision = verdict.decision
  OBVIOUS
<1> HIDE DEF more, all, event, n, m
<1> SUFFICES ASSUME NEW i \in Uses(more, 1, n + 1)
             PROVE  ToldAt(i, more, n + 1, all, m + 1)
  <2>1. Tell(more, all)
    BY <1>1 DEF Tell
  <2> QED BY <2>1 DEF more, all, event
<1>3. i \in 1 .. n + 1 /\ more[i].by = "use"
  BY DEF Uses
<1>4. CASE i = n + 1
  <2>1. Uses(more, i + 1, n + 1) = {}
    BY <1>1, <1>4 DEF Uses
  <2>2. Cardinality(Uses(more, i + 1, n + 1)) = 0
    BY <2>1, FS_EmptySet
  <2> QED BY <1>1, <1>2, <1>4, <2>2 DEF ToldAt
<1>5. CASE i # n + 1
  <2>1. i \in 1 .. n /\ i \in Uses(events, 1, n)
    BY <1>1, <1>3, <1>5 DEF Uses
  <2> DEFINE before == Uses(events, i + 1, n)
             later == Cardinality(before)
  <2>2. later < m /\ events[i].decision = verdicts[m - later].decision
    BY <2>1 DEF Tell, ToldAt, n, m
  <2>3. IsFiniteSet(before) /\ later \in Nat
    BY <1>1, <2>1, UsesAreCounted
  <2>4. Uses(more, i + 1, n + 1) = before \cup {n + 1} /\ n + 1 \notin before
    <3>1. \A k \in i + 1 .. n + 1 : more[k].by = "use" <=> k = n + 1 \/ events[k].by = "use"
      <4> SUFFICES ASSUME NEW k \in i + 1 .. n + 1
                   PROVE  more[k].by = "use" <=> k = n + 1 \/ events[k].by = "use"
        OBVIOUS
      <4>1. CASE k = n + 1
        BY <1>1, <1>2, <4>1
      <4>2. CASE k # n + 1
        <5>1. k \in 1 .. n
          BY <1>1, <2>1, <4>2
        <5> QED BY <1>1, <4>2, <5>1
      <4> QED BY <4>1, <4>2
    <3>2. \A k \in Int : k \in i + 1 .. n + 1 <=> k \in i + 1 .. n \/ k = n + 1
      BY <1>1, <2>1
    <3>3. \A k : /\ k \in Uses(more, i + 1, n + 1) <=> k \in Int /\ k \in i + 1 .. n + 1 /\ more[k].by = "use"
                 /\ k \in before <=> k \in Int /\ k \in i + 1 .. n /\ events[k].by = "use"
      BY <1>1, <2>1 DEF Uses
    <3>4. more[n + 1].by = "use" /\ n + 1 \in Int /\ n + 1 \notin i + 1 .. n
      BY <1>1, <1>2, <2>1
    <3> HIDE DEF before
    <3> QED BY <3>1, <3>2, <3>3, <3>4
  <2> HIDE DEF before
  <2>5. Cardinality(Uses(more, i + 1, n + 1)) = later + 1
    BY <2>3, <2>4, FS_AddElement
  <2> HIDE DEF later
  <2>6. m + 1 - (later + 1) = m - later /\ m - later \in 1 .. m
    BY <1>1, <2>2, <2>3
  <2>7. all[m - later] = verdicts[m - later] /\ more[i] = events[i]
    BY <1>1, <2>1, <2>6
  <2>8. later + 1 < m + 1
    BY <1>1, <2>2, <2>3
  <2>9. (m + 1) - Cardinality(Uses(more, i + 1, n + 1)) = m - later
    BY <1>1, <2>3, <2>5
  <2> QED BY <2>2, <2>5, <2>7, <2>8, <2>9 DEF ToldAt
<1> QED BY <1>4, <1>5

\* An event of another's scan leaves what the call's events tell.
LEMMA OtherIsNotTold ==
  ASSUME NEW events \in Seq(GuardEvent), NEW verdicts \in Seq(Verdicts), NEW d \in Decisions,
         Tell(events, verdicts)
  PROVE  Tell(Append(events, [by |-> "other", decision |-> d]), verdicts)
<1> DEFINE n == Len(events)
           event == [by |-> "other", decision |-> d]
           more == Append(events, event)
<1>1. /\ n \in Nat /\ Len(more) = n + 1 /\ more[n + 1] = event
      /\ \A k \in 1 .. n : more[k] = events[k]
  <2>1. event \in GuardEvent
    BY DEF GuardEvent
  <2> HIDE DEF event
  <2> QED BY <2>1
<1>2. event.by # "use"
  OBVIOUS
<1> HIDE DEF more, event, n
<1>3. \A i \in Nat \ {0} : Uses(more, i, n + 1) = Uses(events, i, n)
  <2> SUFFICES ASSUME NEW i \in Nat \ {0}, NEW k \in Int
               PROVE  k \in Uses(more, i, n + 1) <=> k \in Uses(events, i, n)
    BY DEF Uses
  <2>1. CASE k = n + 1
    BY <1>1, <1>2, <2>1 DEF Uses
  <2>2. CASE k # n + 1
    BY <1>1, <2>2 DEF Uses
  <2> QED BY <2>1, <2>2
<1> SUFFICES ASSUME NEW i \in Uses(more, 1, n + 1)
             PROVE  ToldAt(i, more, n + 1, verdicts, Len(verdicts))
  <2>1. Tell(more, verdicts)
    BY <1>1 DEF Tell
  <2> QED BY <2>1 DEF more, event
<1>4. i \in Uses(events, 1, n)
  BY <1>3
<1>5. i \in 1 .. n
  BY <1>4 DEF Uses
<1>6. Uses(more, i + 1, n + 1) = Uses(events, i + 1, n) /\ more[i] = events[i]
  BY <1>1, <1>3, <1>5
<1> QED BY <1>4, <1>6 DEF Tell, ToldAt, n

\* What is left when the buffer drops its oldest still tells.
LEMMA LatestAreTold ==
  ASSUME NEW events \in Seq(GuardEvent), NEW verdicts \in Seq(Verdicts),
         NEW first \in 1 .. Len(events), Tell(events, verdicts)
  PROVE  Tell(SubSeq(events, first, Len(events)), verdicts)
<1> DEFINE n == Len(events)
           kept == SubSeq(events, first, n)
           m == n - first + 1
<1>1. /\ n \in Nat /\ m \in Nat /\ Len(kept) = m /\ first \in 1 .. n
      /\ \A k \in 1 .. m : kept[k] = events[k + first - 1]
  OBVIOUS
<1>2. m = n - first + 1
  OBVIOUS
<1> HIDE DEF kept, n, m
<1> SUFFICES ASSUME NEW i \in Uses(kept, 1, m)
             PROVE  ToldAt(i, kept, m, verdicts, Len(verdicts))
  <2>1. Tell(kept, verdicts)
    BY <1>1 DEF Tell
  <2> QED BY <2>1 DEF kept, n
<1>3. i \in 1 .. m /\ kept[i].by = "use"
  BY DEF Uses
<1>4. i + first - 1 \in Uses(events, 1, n)
  BY <1>1, <1>2, <1>3 DEF Uses
<1> DEFINE S == Uses(kept, i + 1, m)
           T == Uses(events, i + first - 1 + 1, n)
           f == [k \in S |-> k + first - 1]
<1>5. IsFiniteSet(S)
  BY <1>1, <1>3, UsesAreCounted
<1>6. \A k \in Int : k \in S <=> k + first - 1 \in T
  BY <1>1, <1>2, <1>3 DEF Uses
<1>7. S \subseteq Int /\ T \subseteq Int
  BY DEF Uses
<1> HIDE DEF S, T
<1>8. f \in [S -> T]
  BY <1>6, <1>7
<1>9. \A a, b \in S : f[a] = f[b] => a = b
  BY <1>1, <1>7
<1>10. \A t \in T : \E s \in S : f[s] = t
  <2> SUFFICES ASSUME NEW t \in T PROVE \E s \in S : f[s] = t
    OBVIOUS
  <2>1. t \in Int /\ t - first + 1 \in Int /\ (t - first + 1) + first - 1 = t
    BY <1>1, <1>7
  <2>2. t - first + 1 \in S
    BY <1>6, <2>1
  <2> QED BY <2>1, <2>2
<1> HIDE DEF f
<1>11. Cardinality(T) = Cardinality(S)
  BY <1>5, <1>8, <1>9, <1>10, MatchedSize
<1>12. /\ Cardinality(T) < Len(verdicts)
       /\ events[i + first - 1].decision = verdicts[Len(verdicts) - Cardinality(T)].decision
  BY <1>4 DEF Tell, ToldAt, T, n
<1> QED BY <1>1, <1>3, <1>11, <1>12 DEF S, ToldAt

EventsTypeOK == guardEvents \in Seq(GuardEvent) /\ Len(guardEvents) <= GuardKept

\* audit.record keeps the latest.
LEMMA RecordedIs ==
  ASSUME EventsTypeOK, NEW by \in {"use", "other"}, NEW verdict, verdict.decision \in Decisions
  PROVE  LET events == Append(guardEvents, [by |-> by, decision |-> verdict.decision])
         IN  /\ events \in Seq(GuardEvent)
             /\ Recorded(by, verdict) \in Seq(GuardEvent)
             /\ Len(Recorded(by, verdict)) <= GuardKept
             /\ \E first \in 1 .. Len(events) :
                   Recorded(by, verdict) = SubSeq(events, first, Len(events))
<1> DEFINE event == [by |-> by, decision |-> verdict.decision]
           events == Append(guardEvents, event)
           n == Len(events)
           low == n - GuardKept + 1
           first == Max({1, low})
<1>1. event \in GuardEvent
  BY DEF GuardEvent
<1> HIDE DEF event
<1>2. GuardKept \in Nat \ {0}
  BY AgentGuardAssumption
<1>3. events \in Seq(GuardEvent) /\ n \in Nat /\ n <= GuardKept + 1 /\ n >= 1
  BY <1>1, <1>2 DEF EventsTypeOK
<1>4. Recorded(by, verdict) = SubSeq(events, first, n)
  BY DEF Recorded, event
<1> HIDE DEF events, n
<1>5. low \in Int /\ low <= n
  BY <1>2, <1>3
<1>6. first = IF 1 >= low THEN 1 ELSE low
  BY <1>5, GreatestOfTwo
<1>7. first \in 1 .. n /\ n - first + 1 <= GuardKept
  BY <1>2, <1>3, <1>5, <1>6
<1> HIDE DEF first, low
<1>8. SubSeq(events, first, n) \in Seq(GuardEvent) /\ Len(SubSeq(events, first, n)) = n - first + 1
  BY <1>3, <1>7 DEF n
<1>9. \E k \in 1 .. n : Recorded(by, verdict) = SubSeq(events, k, n)
  BY <1>4, <1>7
<1>10. events \in Seq(GuardEvent) /\ Recorded(by, verdict) \in Seq(GuardEvent)
       /\ Len(Recorded(by, verdict)) <= GuardKept
  BY <1>3, <1>4, <1>7, <1>8
<1> QED BY <1>9, <1>10 DEF events, n, event

-----------------------------------------------------------------------------
(* A call and what it has scanned.                                         *)

Frames == {"decorator", "langchain", "autogen"}
UsePlaces == {"idle", "in", "wait", "out", "refused", "failed", "unreachable",
              "passed", "withheld", "delivered", "lost", "agent", "raised", "finished"}
AskLists == {<<>>, <<"message", "tool", "run">>, <<"tool", "run">>, <<"run">>,
             <<"tool", "run", "result", "answer">>, <<"run", "result", "answer">>,
             <<"result", "answer">>, <<"answer">>}
UseRecord ==
    [pc : UsePlaces, policy : GuardPolicies, body : Seq(Texts), sent : Seq(Texts),
     reply : Seq(Texts), seen : Nat, verdicts : Seq(Verdicts), asks : AskLists,
     call : AgentCalls \cup {"none"}, strict : BOOLEAN, heeds : BOOLEAN, ran : BOOLEAN]

\* Each message handed on was scanned by the policy read first, and not blocked.
Passed(u, i) ==
    /\ u.verdicts[i].decision # "block"
    /\ \E score \in Scores : u.verdicts[i] = ScanInput(u.body[i], u.policy, score)
    /\ u.sent[i] = u.verdicts[i].text
SentPlaces == {"wait", "out", "unreachable", "passed", "withheld", "delivered"}
ScannedIn(u) ==
    u.pc \in {"in"} \cup SentPlaces =>
        /\ Len(u.sent) <= Len(u.verdicts)
        /\ \A i \in 1 .. Len(u.sent) : Passed(u, i)
        /\ u.pc = "in" => Len(u.verdicts) = Len(u.sent)
        /\ u.pc # "in" => Len(u.sent) = Len(u.body)
ScannedOut(u) ==
    /\ u.pc \in {"in", "wait"} => u.seen = 0
    /\ u.pc \in {"out", "delivered"} =>
         \A i \in 1 .. u.seen : ScanOutput(u.reply[i], u.policy).decision # "block"
    /\ u.pc = "delivered" => u.seen = Len(u.reply)

\* An agent is past its question only with an answer that let it pass.
Clears(u, verdict) ==
    /\ "approval" \in DOMAIN verdict
    /\ verdict.decision \notin IF u.strict THEN {"block", "challenge"} ELSE {"block"}
Cleared(u) == \E i \in DOMAIN u.verdicts : Clears(u, u.verdicts[i])
AsksFirst(u) ==
    /\ u.pc = "agent" => u.call \in AgentCalls /\ u.asks # <<>>
    /\ u.pc = "agent" /\ u.heeds /\ Head(u.asks) = "run" =>
         Cleared(u) \/ (u.verdicts = <<>> /\ u.asks = <<"run">>)
    /\ u.ran => u.pc \in {"agent", "raised", "finished"}
    /\ u.ran /\ u.heeds => Cleared(u) \/ (u.verdicts = <<>> /\ u.pc # "agent")

UseOf(u) ==
    /\ u \in UseRecord
    /\ u.pc = "idle" => u = NoUse
    /\ Len(u.sent) <= Len(u.body) /\ u.seen <= Len(u.reply)
    /\ ScannedIn(u) /\ ScannedOut(u) /\ AsksFirst(u)

GuardUseInv == EventsTypeOK /\ UseOf(use) /\ Tell(guardEvents, use.verdicts)

\* Each step keeps what is known of the call under way, and says what it recorded.
LEMMA NoUseIsSound == NoUse \in UseRecord /\ UseOf(NoUse)
<1>1. NoUse \in UseRecord
  BY DEF NoUse, UseRecord, UsePlaces, AskLists, GuardPolicies
<1> QED BY <1>1 DEF NoUse, UseOf, ScannedIn, ScannedOut, AsksFirst, SentPlaces

\* A call that was cleared stays so, and is by a verdict that lets it pass.
LEMMA MoreVerdictsClear ==
  ASSUME NEW verdicts \in Seq(Verdicts), NEW verdict \in Verdicts, NEW u, NEW w,
         u.verdicts = verdicts, w.verdicts = Append(verdicts, verdict), w.strict = u.strict
  PROVE  /\ Cleared(u) => Cleared(w)
         /\ Clears(u, verdict) => Cleared(w)
<1> DEFINE all == Append(verdicts, verdict)
<1>1. /\ DOMAIN verdicts \subseteq DOMAIN all /\ \A i \in DOMAIN verdicts : all[i] = verdicts[i]
      /\ Len(verdicts) + 1 \in DOMAIN all /\ all[Len(verdicts) + 1] = verdict
  OBVIOUS
<1>2. \A v : Clears(u, v) <=> Clears(w, v)
  BY DEF Clears
<1> HIDE DEF all
<1>3. w.verdicts = all
  BY DEF all
<1> QED BY <1>1, <1>2, <1>3 DEF Cleared

LEMMA ProxyCallSound ==
  ASSUME GuardUseInv, inForce \in GuardPolicies, ProxyCall
  PROVE  UseOf(use') /\ use'.verdicts = use.verdicts
<1>1. PICK body \in Bodies : use' = [NoUse EXCEPT !.pc = "in", !.policy = inForce, !.body = body]
  BY DEF ProxyCall
<1>2. use = NoUse
  BY DEF ProxyCall, GuardUseInv, UseOf
<1>3. use' \in UseRecord
  BY <1>1, NoUseIsSound, AgentGuardAssumption DEF UseRecord, UsePlaces
<1> QED BY <1>1, <1>2, <1>3, AgentGuardAssumption
        DEF NoUse, UseOf, ScannedIn, ScannedOut, AsksFirst, SentPlaces

LEMMA ScanMessageSound ==
  ASSUME GuardUseInv, ScanMessage
  PROVE  /\ UseOf(use')
         /\ \/ guardEvents' = guardEvents /\ use'.verdicts = use.verdicts
            \/ \E verdict \in Verdicts : /\ use'.verdicts = Append(use.verdicts, verdict)
                                         /\ guardEvents' = Recorded("use", verdict)
<1> DEFINE next == Len(use.sent) + 1
<1>0. /\ UseOf(use) /\ use \in UseRecord /\ use.pc = "in" /\ next \in 1 .. Len(use.body)
      /\ use.body \in Seq(Texts) /\ use.sent \in Seq(Texts) /\ use.verdicts \in Seq(Verdicts)
  BY DEF GuardUseInv, UseOf, ScanMessage, UseRecord
<1>1. PICK score \in MLScores :
        LET verdict == ScanInput(use.body[next], use.policy, score)
            now == Judged(verdict, "refused")
        IN  IF score = Unusable THEN use' = Ended("failed") /\ UNCHANGED guardEvents
            ELSE /\ use' = [now EXCEPT !.sent = Append(@, verdict.text)]
                 /\ guardEvents' = Recorded("use", verdict)
  BY DEF ScanMessage, InboundPolicy
<1>2. CASE score = Unusable
  <2>1. use' = [use EXCEPT !.pc = "failed"] /\ guardEvents' = guardEvents
    BY <1>1, <1>2 DEF Ended
  <2>2. use' \in UseRecord
    BY <1>0, <2>1 DEF UseRecord, UsePlaces
  <2> QED BY <1>0, <2>1, <2>2 DEF UseOf, ScannedIn, ScannedOut, AsksFirst, SentPlaces
<1>3. CASE score # Unusable
  <2> DEFINE verdict == ScanInput(use.body[next], use.policy, score)
  <2>1. score \in Scores /\ score \in Int
    BY <1>3, AgentGuardAssumption DEF Scores
  <2>2. use.body[next] \in Texts
    BY <1>0
  <2>3. verdict \in Verdicts /\ verdict.text \in Texts
    BY <2>1, <2>2, InputVerdicts
  <2>4. verdict = ScanInput(use.body[next], use.policy, score)
    OBVIOUS
  <2>5. /\ use' = [Judged(verdict, "refused") EXCEPT !.sent = Append(@, verdict.text)]
        /\ guardEvents' = Recorded("use", verdict)
    BY <1>1, <1>3
  <2> HIDE DEF verdict
  <2> DEFINE place == IF verdict.decision = "block" THEN "refused" ELSE "in"
  <2>a. place \in UsePlaces
    BY DEF UsePlaces
  <2>6. use' = [use EXCEPT !.pc = place, !.verdicts = Append(use.verdicts, verdict),
                           !.sent = Append(use.sent, verdict.text)]
    BY <1>0, <2>5 DEF Judged, UseRecord
  <2>b. place = IF verdict.decision = "block" THEN "refused" ELSE "in"
    OBVIOUS
  <2> HIDE DEF place
  <2>c. Append(use.verdicts, verdict) \in Seq(Verdicts) /\ Append(use.sent, verdict.text) \in Seq(Texts)
    BY <1>0, <2>3
  <2>7. use' \in UseRecord
    BY <1>0, <2>a, <2>c, <2>6 DEF UseRecord
  <2>8. /\ use'.verdicts = Append(use.verdicts, verdict)
        /\ use'.sent = Append(use.sent, verdict.text)
        /\ use'.body = use.body /\ use'.policy = use.policy /\ use'.seen = use.seen
        /\ use'.reply = use.reply /\ use'.ran = use.ran /\ use'.strict = use.strict
        /\ use'.pc = IF verdict.decision = "block" THEN "refused" ELSE "in"
    BY <1>0, <2>6, <2>b DEF UseRecord
  <2>9. CASE verdict.decision = "block"
    <3>1. Len(use'.sent) = next /\ ~use'.ran
      BY <1>0, <2>3, <2>8 DEF UseOf, AsksFirst
    <3>2. ScannedIn(use') /\ ScannedOut(use') /\ AsksFirst(use')
      BY <2>8, <2>9, <3>1 DEF ScannedIn, ScannedOut, AsksFirst, SentPlaces
    <3>3. use.seen <= Len(use.reply)
      BY <1>0 DEF UseOf
    <3>4. UseOf(use')
      BY <1>0, <2>7, <2>8, <2>9, <3>1, <3>2, <3>3 DEF UseOf
    <3> QED BY <3>4, <2>3, <2>5, <2>8
  <2>10. CASE verdict.decision # "block"
    <3>1. Len(use.verdicts) = Len(use.sent) /\ \A i \in 1 .. Len(use.sent) : Passed(use, i)
      BY <1>0 DEF UseOf, ScannedIn
    <3>2. /\ Len(use'.sent) = next /\ Len(use'.verdicts) = next
          /\ use'.sent[next] = verdict.text /\ use'.verdicts[next] = verdict
          /\ \A i \in 1 .. Len(use.sent) :
                use'.sent[i] = use.sent[i] /\ use'.verdicts[i] = use.verdicts[i]
      BY <1>0, <2>3, <2>8, <3>1
    <3>3. Passed(use', next)
      BY <2>1, <2>4, <2>8, <2>10, <3>2 DEF Passed
    <3>4. \A i \in 1 .. Len(use.sent) : Passed(use', i)
      BY <2>8, <3>1, <3>2 DEF Passed
    <3>5. \A i \in 1 .. next : i = next \/ i \in 1 .. Len(use.sent)
      BY <1>0
    <3>6. ScannedIn(use')
      BY <2>8, <2>10, <3>2, <3>3, <3>4, <3>5 DEF ScannedIn
    <3>7. ScannedOut(use') /\ AsksFirst(use')
      BY <1>0, <2>8, <2>10 DEF ScannedOut, AsksFirst, UseOf
    <3>8. use.seen <= Len(use.reply)
      BY <1>0 DEF UseOf
    <3>9. UseOf(use')
      BY <1>0, <2>7, <2>8, <2>10, <3>2, <3>6, <3>7, <3>8 DEF UseOf
    <3> QED BY <3>9, <2>3, <2>5, <2>8
  <2> QED BY <2>3, <2>5, <2>8, <2>9, <2>10
<1> QED BY <1>2, <1>3

LEMMA ForwardSound ==
  ASSUME GuardUseInv, Forward
  PROVE  UseOf(use') /\ use'.verdicts = use.verdicts
<1>1. /\ use \in UseRecord /\ UseOf(use) /\ use.pc = "in" /\ Len(use.sent) = Len(use.body)
      /\ use' = [use EXCEPT !.pc = "wait"]
  BY DEF GuardUseInv, UseOf, Forward
<1>2. use' \in UseRecord
  BY <1>1 DEF UseRecord, UsePlaces
<1>3. /\ use'.verdicts = use.verdicts /\ use'.sent = use.sent /\ use'.body = use.body
      /\ use'.policy = use.policy /\ use'.seen = use.seen /\ use'.reply = use.reply
      /\ use'.ran = use.ran /\ use'.pc = "wait"
  BY <1>1 DEF UseRecord
<1>4. \A i : Passed(use, i) => Passed(use', i)
  BY <1>3 DEF Passed
<1> QED BY <1>1, <1>2, <1>3, <1>4 DEF UseOf, ScannedIn, ScannedOut, AsksFirst, SentPlaces

LEMMA UpstreamSound ==
  ASSUME GuardUseInv, UpstreamAnswers
  PROVE  UseOf(use') /\ use'.verdicts = use.verdicts
<1>1. use \in UseRecord /\ UseOf(use) /\ use.pc = "wait"
  BY DEF GuardUseInv, UseOf, UpstreamAnswers
<1>2. PICK reply \in Seq(Texts), pc \in {"out", "passed", "unreachable", "failed"} :
        use' = [use EXCEPT !.reply = reply, !.pc = pc]
  <2>1. CASE \E reply \in Replies :
              use' = [use EXCEPT !.reply = reply.texts,
                                 !.pc = IF reply.json THEN "out" ELSE "passed"]
    BY <2>1, AgentGuardAssumption
  <2>2. CASE use' = Ended("unreachable") \/ use' = Ended("failed")
    <3>1. PICK pc \in {"unreachable", "failed"} : use' = [use EXCEPT !.pc = pc]
      BY <2>2 DEF Ended
    <3>2. use' = [use EXCEPT !.reply = use.reply, !.pc = pc] /\ use.reply \in Seq(Texts)
      BY <1>1, <3>1 DEF UseRecord
    <3> QED BY <3>2
  <2> QED BY <2>1, <2>2 DEF UpstreamAnswers
<1>3. use' \in UseRecord
  BY <1>1, <1>2 DEF UseRecord, UsePlaces
<1>4. /\ use'.verdicts = use.verdicts /\ use'.sent = use.sent /\ use'.body = use.body
      /\ use'.policy = use.policy /\ use'.seen = use.seen /\ use'.reply = reply
      /\ use'.ran = use.ran /\ use'.pc = pc
  BY <1>1, <1>2 DEF UseRecord
<1>5. \A i : Passed(use, i) => Passed(use', i)
  BY <1>4 DEF Passed
<1>6. use.seen = 0 /\ Len(reply) \in Nat
  BY <1>1 DEF UseOf, ScannedOut
<1> QED BY <1>1, <1>3, <1>4, <1>5, <1>6 DEF UseOf, ScannedIn, ScannedOut, AsksFirst, SentPlaces

LEMMA ScanAnswerSound ==
  ASSUME GuardUseInv, ScanAnswer
  PROVE  /\ UseOf(use')
         /\ \E verdict \in Verdicts : /\ use'.verdicts = Append(use.verdicts, verdict)
                                      /\ guardEvents' = Recorded("use", verdict)
<1> DEFINE next == use.seen + 1
           verdict == ScanOutput(use.reply[next], use.policy)
<1>0. /\ UseOf(use) /\ use \in UseRecord /\ use.pc = "out" /\ next \in 1 .. Len(use.reply)
      /\ use.reply \in Seq(Texts) /\ use.verdicts \in Seq(Verdicts) /\ use.seen \in Nat
  BY DEF GuardUseInv, UseOf, ScanAnswer, UseRecord
<1>1. /\ use' = [Judged(verdict, "withheld") EXCEPT !.seen = @ + 1]
      /\ guardEvents' = Recorded("use", verdict)
  BY DEF ScanAnswer
<1>2. use.reply[next] \in Texts
  BY <1>0
<1>3. verdict \in Verdicts
  BY <1>2, OutputVerdicts
<1>4. verdict = ScanOutput(use.reply[next], use.policy)
  OBVIOUS
<1> HIDE DEF verdict
<1> DEFINE place == IF verdict.decision = "block" THEN "withheld" ELSE "out"
<1>a. place \in UsePlaces
  BY DEF UsePlaces
<1>5. use' = [use EXCEPT !.pc = place,
                         !.verdicts = Append(use.verdicts, verdict), !.seen = next]
  BY <1>0, <1>1 DEF Judged, UseRecord
<1>b. place = IF verdict.decision = "block" THEN "withheld" ELSE "out"
  OBVIOUS
<1>c. Append(use.verdicts, verdict) \in Seq(Verdicts)
  BY <1>0, <1>3
<1> HIDE DEF place
<1>6. use' \in UseRecord
  <2>1. next \in Nat
    BY <1>0
  <2> HIDE DEF next
  <2> QED BY <1>0, <1>a, <1>c, <1>5, <2>1 DEF UseRecord
<1>7. /\ use'.verdicts = Append(use.verdicts, verdict) /\ use'.sent = use.sent
      /\ use'.body = use.body /\ use'.policy = use.policy /\ use'.seen = next
      /\ use'.reply = use.reply /\ use'.ran = use.ran
      /\ use'.pc = IF verdict.decision = "block" THEN "withheld" ELSE "out"
  BY <1>0, <1>5, <1>b DEF UseRecord
<1>8. /\ Len(use.sent) <= Len(use.verdicts) /\ Len(use.sent) = Len(use.body)
      /\ \A i \in 1 .. Len(use.sent) : Passed(use, i)
      /\ use.sent \in Seq(Texts)
  BY <1>0 DEF UseOf, ScannedIn, SentPlaces, UseRecord
<1>9. \A i \in 1 .. Len(use.sent) : use'.verdicts[i] = use.verdicts[i]
  BY <1>0, <1>3, <1>7, <1>8
<1>10. \A i \in 1 .. Len(use.sent) : Passed(use', i)
  BY <1>7, <1>8, <1>9 DEF Passed
<1>11. Len(use.sent) <= Len(use'.verdicts)
  BY <1>0, <1>3, <1>7, <1>8
<1>12. ScannedIn(use')
  BY <1>7, <1>8, <1>10, <1>11 DEF ScannedIn
<1>13. ScannedOut(use')
  <2>1. \A i \in 1 .. use.seen : ScanOutput(use.reply[i], use.policy).decision # "block"
    BY <1>0 DEF UseOf, ScannedOut
  <2>2. \A i \in 1 .. next : i = next \/ i \in 1 .. use.seen
    BY <1>0
  <2> QED BY <1>4, <1>7, <2>1, <2>2 DEF ScannedOut
<1>14. AsksFirst(use')
  BY <1>0, <1>7 DEF UseOf, AsksFirst
<1> QED BY <1>0, <1>1, <1>3, <1>6, <1>7, <1>8, <1>12, <1>13, <1>14 DEF UseOf

LEMMA HandOnSound ==
  ASSUME GuardUseInv, HandOn
  PROVE  UseOf(use') /\ use'.verdicts = use.verdicts
<1>1. /\ use \in UseRecord /\ UseOf(use) /\ use.pc = "out" /\ use.seen = Len(use.reply)
      /\ use' = [use EXCEPT !.pc = "delivered"]
  BY DEF GuardUseInv, UseOf, HandOn, Ended
<1>2. use' \in UseRecord
  BY <1>1 DEF UseRecord, UsePlaces
<1>3. /\ use'.verdicts = use.verdicts /\ use'.sent = use.sent /\ use'.body = use.body
      /\ use'.policy = use.policy /\ use'.seen = use.seen /\ use'.reply = use.reply
      /\ use'.ran = use.ran /\ use'.pc = "delivered"
  BY <1>1 DEF UseRecord
<1>4. \A i : Passed(use, i) => Passed(use', i)
  BY <1>3 DEF Passed
<1> QED BY <1>1, <1>2, <1>3, <1>4 DEF UseOf, ScannedIn, ScannedOut, AsksFirst, SentPlaces

LEMMA ProposeSound ==
  ASSUME GuardUseInv, ProposeCall
  PROVE  UseOf(use') /\ use'.verdicts = use.verdicts
<1>1. PICK frame \in Frames, call \in AgentCalls, strict \in BOOLEAN, heeds \in BOOLEAN :
        use' = [NoUse EXCEPT !.pc = "agent", !.call = call, !.strict = strict,
                             !.heeds = heeds, !.asks = Asks(frame, call)]
  BY DEF ProposeCall, Frames
<1>2. use = NoUse
  BY DEF ProposeCall, GuardUseInv, UseOf
<1> DEFINE asks == Asks(frame, call)
<1>3. asks \in {<<"tool", "run">>, <<"tool", "run", "result", "answer">>, <<"run">>,
                <<"message", "tool", "run">>}
  BY DEF Asks, Frames
<1>4. use' = [NoUse EXCEPT !.pc = "agent", !.call = call, !.strict = strict,
                           !.heeds = heeds, !.asks = asks]
  BY <1>1
<1> HIDE DEF asks
<1>5. asks \in AskLists /\ asks # <<>> /\ (Head(asks) = "run" => asks = <<"run">>)
  BY <1>3 DEF AskLists
<1>6. use' \in UseRecord
  BY <1>4, <1>5, NoUseIsSound DEF UseRecord, UsePlaces
<1> QED BY <1>2, <1>4, <1>5, <1>6 DEF NoUse, UseOf, ScannedIn, ScannedOut, AsksFirst, SentPlaces

\* What is asked next, and what is left to be done after it.
LEMMA AskedInOrder ==
  ASSUME NEW asks \in AskLists, asks # <<>>
  PROVE  /\ Tail(asks) \in AskLists
         /\ Head(asks) \in {"tool", "message", "result", "answer", "run"}
         /\ Len(asks) = 1 <=> Tail(asks) = <<>>
         /\ Tail(asks) # <<>> /\ Head(Tail(asks)) = "run" => Head(asks) = "tool"
<1>1. CASE asks = <<"message", "tool", "run">>
  BY <1>1 DEF AskLists
<1>2. CASE asks = <<"tool", "run">>
  BY <1>2 DEF AskLists
<1>3. CASE asks = <<"run">>
  BY <1>3 DEF AskLists
<1>4. CASE asks = <<"tool", "run", "result", "answer">>
  BY <1>4 DEF AskLists
<1>5. CASE asks = <<"run", "result", "answer">>
  BY <1>5 DEF AskLists
<1>6. CASE asks = <<"result", "answer">>
  BY <1>6 DEF AskLists
<1>7. CASE asks = <<"answer">>
  BY <1>7 DEF AskLists
<1> QED BY <1>1, <1>2, <1>3, <1>4, <1>5, <1>6, <1>7 DEF AskLists

\* What the guard answers is a verdict, on a tool one about an approval.
LEMMA AnswersAreVerdicts ==
  ASSUME use.call \in AgentCalls, inForce \in GuardPolicies,
         NEW ask \in {"tool", "message", "result", "answer"}, NEW verdict \in Answers(ask)
  PROVE  verdict \in Verdicts /\ (ask = "tool" => "approval" \in DOMAIN verdict)
<1>1. use.call.says \in Texts /\ use.call.gives \in Texts
  BY AgentGuardAssumption
<1>2. Scores \subseteq Int
  BY AgentGuardAssumption DEF Scores
<1>3. CASE ask = "tool"
  <2>1. verdict = ScanTool(use.call, inForce)
    BY <1>3 DEF Answers
  <2> QED BY <2>1, ToolVerdicts
<1>4. CASE ask = "message"
  <2>1. PICK score \in Scores : verdict = ScanInput(use.call.says, inForce, score)
    BY <1>4 DEF Answers
  <2>2. score \in Int
    BY <1>2
  <2> QED BY <1>1, <1>4, <2>1, <2>2, InputVerdicts
<1>5. CASE ask = "result"
  <2>1. PICK score \in Scores : verdict = ScanInput(use.call.gives, inForce, score)
    BY <1>5 DEF Answers
  <2>2. score \in Int
    BY <1>2
  <2> QED BY <1>1, <1>5, <2>1, <2>2, InputVerdicts
<1>6. CASE ask = "answer"
  <2>1. verdict = ScanOutput(use.call.gives, inForce)
    BY <1>6 DEF Answers
  <2> QED BY <1>1, <1>6, <2>1, OutputVerdicts
<1> QED BY <1>3, <1>4, <1>5, <1>6

\* An agent goes on, or what the client raises ends its call.
LEMMA AfterAskIs ==
  ASSUME use \in UseRecord, use.pc = "agent", use.asks # <<>>, NEW raises \in BOOLEAN
  PROVE  \E place \in {"agent", "finished", "raised"}, asks \in AskLists :
           /\ AfterAsk(raises) = [use EXCEPT !.pc = place, !.asks = asks]
           /\ \/ raises /\ use.heeds /\ place = "raised" /\ asks = use.asks
              \/ /\ ~(raises /\ use.heeds) /\ asks = Tail(use.asks)
                 /\ place = IF asks = <<>> THEN "finished" ELSE "agent"
<1>0. use.asks \in AskLists
  BY DEF UseRecord
<1>1. CASE raises /\ use.heeds
  <2>1. AfterAsk(raises) = [use EXCEPT !.pc = "raised"]
    BY <1>1 DEF AfterAsk, Ended
  <2>2. [use EXCEPT !.pc = "raised"] = [use EXCEPT !.pc = "raised", !.asks = use.asks]
    BY DEF UseRecord
  <2> QED BY <1>0, <1>1, <2>1, <2>2
<1>2. CASE ~(raises /\ use.heeds)
  <2> DEFINE rest == Tail(use.asks)
             place == IF Len(use.asks) = 1 THEN "finished" ELSE "agent"
  <2>1. AfterAsk(raises) = [use EXCEPT !.asks = rest, !.pc = place]
    BY <1>2 DEF AfterAsk, Advanced
  <2>2. rest \in AskLists /\ place = IF rest = <<>> THEN "finished" ELSE "agent"
    BY <1>0, AskedInOrder
  <2>3. place \in {"agent", "finished"}
    OBVIOUS
  <2> HIDE DEF rest, place
  <2>4. AfterAsk(raises) = [use EXCEPT !.pc = place, !.asks = rest]
    BY <2>1 DEF UseRecord
  <2> QED BY <1>2, <2>2, <2>3, <2>4 DEF rest
<1> QED BY <1>1, <1>2

LEMMA AskGuardSound ==
  ASSUME GuardUseInv, inForce \in GuardPolicies, AskGuard
  PROVE  /\ UseOf(use')
         /\ \E verdict \in Verdicts : /\ use'.verdicts = Append(use.verdicts, verdict)
                                      /\ guardEvents' = Recorded("use", verdict)
<1> DEFINE ask == Head(use.asks)
<1>0. /\ UseOf(use) /\ use \in UseRecord /\ use.pc = "agent" /\ ask # "run"
      /\ use.call \in AgentCalls /\ use.asks # <<>> /\ use.asks \in AskLists
      /\ use.verdicts \in Seq(Verdicts) /\ use.strict \in BOOLEAN /\ use.heeds \in BOOLEAN
  BY DEF GuardUseInv, UseOf, AskGuard, Asking, UseRecord, AsksFirst
<1>1. PICK verdict \in Answers(ask) :
        /\ guardEvents' = Recorded("use", verdict)
        /\ use' = [AfterAsk(Stops(ask, verdict)) EXCEPT !.verdicts = Append(@, verdict)]
  BY DEF AskGuard
<1>2. ask \in {"tool", "message", "result", "answer"}
  BY <1>0, AskedInOrder
<1>3. verdict \in Verdicts /\ (ask = "tool" => "approval" \in DOMAIN verdict)
  BY <1>0, <1>2, AnswersAreVerdicts
<1> DEFINE stops == Stops(ask, verdict)
<1>4. /\ stops \in BOOLEAN
      /\ ask = "tool" /\ ~stops =>
           verdict.decision \notin IF use.strict THEN {"block", "challenge"} ELSE {"block"}
  BY <1>0 DEF Stops
<1>5. Tail(use.asks) # <<>> /\ Head(Tail(use.asks)) = "run" => ask = "tool"
  BY <1>0, AskedInOrder
<1> HIDE DEF stops, ask
<1>6. PICK place \in {"agent", "finished", "raised"}, asks \in AskLists :
        /\ AfterAsk(stops) = [use EXCEPT !.pc = place, !.asks = asks]
        /\ \/ stops /\ use.heeds /\ place = "raised" /\ asks = use.asks
           \/ /\ ~(stops /\ use.heeds) /\ asks = Tail(use.asks)
              /\ place = IF asks = <<>> THEN "finished" ELSE "agent"
  BY <1>0, <1>4, AfterAskIs
<1> DEFINE all == Append(use.verdicts, verdict)
<1>7. all \in Seq(Verdicts)
  BY <1>0, <1>3
<1>8. use' = [use EXCEPT !.pc = place, !.asks = asks, !.verdicts = all]
  <2>1. use' = [AfterAsk(stops) EXCEPT !.verdicts = Append(@, verdict)]
    BY <1>1 DEF stops, ask
  <2> QED BY <1>0, <1>6, <2>1 DEF UseRecord
<1>9. all = Append(use.verdicts, verdict)
  OBVIOUS
<1> HIDE DEF all
<1>10. /\ use'.pc = place /\ use'.asks = asks /\ use'.verdicts = all /\ use'.sent = use.sent
       /\ use'.body = use.body /\ use'.seen = use.seen /\ use'.reply = use.reply
       /\ use'.ran = use.ran /\ use'.heeds = use.heeds /\ use'.strict = use.strict
       /\ use'.call = use.call
  BY <1>0, <1>8 DEF UseRecord
<1>11. place \in UsePlaces
  BY <1>6 DEF UsePlaces
<1>12. use' \in UseRecord
  BY <1>0, <1>7, <1>8, <1>11 DEF UseRecord
<1>13. /\ Cleared(use) => Cleared(use')
       /\ Clears(use, verdict) => Cleared(use')
  BY <1>0, <1>3, <1>9, <1>10, MoreVerdictsClear
<1>14. use.ran /\ use.heeds => Cleared(use)
  BY <1>0 DEF UseOf, AsksFirst
<1>15. place = "agent" /\ use.heeds /\ Head(asks) = "run" => Clears(use, verdict)
  BY <1>3, <1>4, <1>5, <1>6 DEF Clears
<1>16. AsksFirst(use')
  BY <1>0, <1>6, <1>10, <1>13, <1>14, <1>15 DEF AsksFirst
<1>17. ScannedIn(use') /\ ScannedOut(use')
  BY <1>6, <1>10 DEF ScannedIn, ScannedOut, SentPlaces
<1>18. UseOf(use')
  BY <1>0, <1>6, <1>10, <1>12, <1>16, <1>17 DEF UseOf
<1> QED BY <1>1, <1>3, <1>9, <1>10, <1>18 DEF ask

LEMMA UnreachableSound ==
  ASSUME GuardUseInv, GuardUnreachable
  PROVE  UseOf(use') /\ use'.verdicts = use.verdicts
<1>0. /\ UseOf(use) /\ use \in UseRecord /\ use.pc = "agent" /\ Head(use.asks) # "run"
      /\ use.call \in AgentCalls /\ use.asks # <<>> /\ use.asks \in AskLists
      /\ use.heeds \in BOOLEAN
  BY DEF GuardUseInv, UseOf, GuardUnreachable, Asking, UseRecord, AsksFirst
<1>6. PICK place \in {"agent", "finished", "raised"}, asks \in AskLists :
        /\ use' = [use EXCEPT !.pc = place, !.asks = asks]
        /\ \/ use.heeds /\ place = "raised"
           \/ ~use.heeds /\ place = IF asks = <<>> THEN "finished" ELSE "agent"
  BY <1>0, AfterAskIs DEF GuardUnreachable
<1>10. /\ use'.pc = place /\ use'.asks = asks /\ use'.verdicts = use.verdicts
       /\ use'.sent = use.sent /\ use'.body = use.body /\ use'.seen = use.seen
       /\ use'.reply = use.reply /\ use'.ran = use.ran /\ use'.heeds = use.heeds
       /\ use'.strict = use.strict /\ use'.call = use.call
  BY <1>0, <1>6 DEF UseRecord
<1>11. place \in UsePlaces
  BY <1>6 DEF UsePlaces
<1>12. use' \in UseRecord
  BY <1>0, <1>6, <1>11 DEF UseRecord
<1>13. Cleared(use) <=> Cleared(use')
  BY <1>10 DEF Cleared, Clears
<1>14. use.ran /\ use.heeds => Cleared(use)
  BY <1>0 DEF UseOf, AsksFirst
<1>16. AsksFirst(use')
  BY <1>0, <1>6, <1>10, <1>13, <1>14 DEF AsksFirst
<1>17. ScannedIn(use') /\ ScannedOut(use')
  BY <1>6, <1>10 DEF ScannedIn, ScannedOut, SentPlaces
<1>18. UseOf(use')
  BY <1>0, <1>6, <1>10, <1>12, <1>16, <1>17 DEF UseOf
<1> QED BY <1>10, <1>18

LEMMA RunToolSound ==
  ASSUME GuardUseInv, RunTool
  PROVE  UseOf(use') /\ use'.verdicts = use.verdicts
<1>0. /\ UseOf(use) /\ use \in UseRecord /\ use.pc = "agent" /\ Head(use.asks) = "run"
      /\ use.call \in AgentCalls /\ use.asks # <<>> /\ use.asks \in AskLists
      /\ use.heeds \in BOOLEAN
  BY DEF GuardUseInv, UseOf, RunTool, UseRecord, AsksFirst
<1> DEFINE asks == Tail(use.asks)
           place == IF Len(use.asks) = 1 THEN "finished" ELSE "agent"
<1>1. use' = [use EXCEPT !.asks = asks, !.pc = place, !.ran = TRUE]
  BY DEF RunTool, Advanced
<1>2. /\ asks \in AskLists /\ place = (IF asks = <<>> THEN "finished" ELSE "agent")
      /\ (use.asks = <<"run">> => asks = <<>>)
      /\ asks # <<>> => Head(asks) # "run"
  BY <1>0, AskedInOrder
<1>3. place \in UsePlaces
  BY DEF UsePlaces
<1> HIDE DEF asks, place
<1>10. /\ use'.pc = place /\ use'.asks = asks /\ use'.verdicts = use.verdicts
       /\ use'.sent = use.sent /\ use'.body = use.body /\ use'.seen = use.seen
       /\ use'.reply = use.reply /\ use'.ran = TRUE /\ use'.heeds = use.heeds
       /\ use'.strict = use.strict /\ use'.call = use.call
  BY <1>0, <1>1 DEF UseRecord
<1>12. use' \in UseRecord
  BY <1>0, <1>1, <1>2, <1>3 DEF UseRecord
<1>13. Cleared(use) <=> Cleared(use')
  BY <1>10 DEF Cleared, Clears
<1>14. use.heeds => Cleared(use) \/ (use.verdicts = <<>> /\ use.asks = <<"run">>)
  BY <1>0 DEF UseOf, AsksFirst
<1>16. AsksFirst(use')
  BY <1>0, <1>2, <1>10, <1>13, <1>14 DEF AsksFirst
<1>17. ScannedIn(use') /\ ScannedOut(use')
  BY <1>2, <1>10 DEF ScannedIn, ScannedOut, SentPlaces
<1>18. UseOf(use')
  BY <1>0, <1>2, <1>10, <1>12, <1>16, <1>17 DEF UseOf
<1> QED BY <1>10, <1>18

\* The process that restarts loses the call it was about.
LEMMA RestartSound ==
  ASSUME GuardUseInv, RestartAll
  PROVE  UseOf(use') /\ use'.verdicts = use.verdicts
<1>1. UseOf(use) /\ use \in UseRecord
  BY DEF GuardUseInv, UseOf
<1>2. CASE use' = use
  BY <1>1, <1>2
<1>3. CASE Dies /\ use' = [use EXCEPT !.pc = "lost"]
  <2>1. use' \in UseRecord
    BY <1>1, <1>3 DEF UseRecord, UsePlaces
  <2>2. /\ use'.pc = "lost" /\ use'.verdicts = use.verdicts /\ use'.sent = use.sent
        /\ use'.body = use.body /\ use'.seen = use.seen /\ use'.reply = use.reply
        /\ use'.ran = use.ran
    BY <1>1, <1>3 DEF UseRecord
  <2>3. ~use.ran
    BY <1>1, <1>3 DEF UseOf, AsksFirst, Dies
  <2>4. ScannedIn(use') /\ ScannedOut(use') /\ AsksFirst(use')
    BY <2>2, <2>3 DEF ScannedIn, ScannedOut, AsksFirst, SentPlaces
  <2> QED BY <1>1, <2>1, <2>2, <2>4 DEF UseOf
<1> QED BY <1>2, <1>3 DEF RestartAll, Ended

\* Whatever is recorded, the events keep telling the call.
LEMMA RecordingTells ==
  ASSUME GuardUseInv, UseOf(use'),
         \/ guardEvents' = guardEvents /\ use'.verdicts = use.verdicts
         \/ guardEvents' = <<>> /\ use'.verdicts = use.verdicts
         \/ \E verdict \in Verdicts : /\ use'.verdicts = Append(use.verdicts, verdict)
                                      /\ guardEvents' = Recorded("use", verdict)
         \/ /\ use'.verdicts = use.verdicts
            /\ \E d \in {"allow", "block"} : guardEvents' = Recorded("other", [decision |-> d])
  PROVE  GuardUseInv'
<1>0. /\ EventsTypeOK /\ Tell(guardEvents, use.verdicts) /\ guardEvents \in Seq(GuardEvent)
      /\ use.verdicts \in Seq(Verdicts) /\ use'.verdicts \in Seq(Verdicts)
  BY DEF GuardUseInv, UseOf, UseRecord, EventsTypeOK
<1>1. CASE guardEvents' = guardEvents /\ use'.verdicts = use.verdicts
  BY <1>0, <1>1 DEF GuardUseInv, EventsTypeOK
<1>2. CASE guardEvents' = <<>> /\ use'.verdicts = use.verdicts
  <2>1. EventsTypeOK'
    BY <1>2, AgentGuardAssumption DEF EventsTypeOK
  <2>2. Uses(guardEvents', 1, Len(guardEvents')) = {}
    BY <1>2 DEF Uses
  <2>3. Tell(guardEvents', use'.verdicts)
    BY <2>2 DEF Tell
  <2> QED BY <2>1, <2>3 DEF GuardUseInv
<1>3. CASE \E verdict \in Verdicts : /\ use'.verdicts = Append(use.verdicts, verdict)
                                     /\ guardEvents' = Recorded("use", verdict)
  <2>1. PICK verdict \in Verdicts : /\ use'.verdicts = Append(use.verdicts, verdict)
                                    /\ guardEvents' = Recorded("use", verdict)
    BY <1>3
  <2>2. verdict.decision \in Decisions
    BY DEF Verdicts
  <2> DEFINE events == Append(guardEvents, [by |-> "use", decision |-> verdict.decision])
  <2>3. /\ events \in Seq(GuardEvent) /\ guardEvents' \in Seq(GuardEvent)
        /\ Len(guardEvents') <= GuardKept
        /\ \E first \in 1 .. Len(events) : guardEvents' = SubSeq(events, first, Len(events))
    BY <1>0, <2>1, <2>2, RecordedIs
  <2>4. Tell(events, use'.verdicts)
    BY <1>0, <2>1, VerdictIsTold
  <2> HIDE DEF events
  <2>5. PICK first \in 1 .. Len(events) : guardEvents' = SubSeq(events, first, Len(events))
    BY <2>3
  <2>6. Tell(guardEvents', use'.verdicts)
    BY <1>0, <2>3, <2>4, <2>5, LatestAreTold
  <2> QED BY <2>3, <2>6 DEF GuardUseInv, EventsTypeOK
<1>4. CASE /\ use'.verdicts = use.verdicts
           /\ \E d \in {"allow", "block"} : guardEvents' = Recorded("other", [decision |-> d])
  <2>1. PICK d \in {"allow", "block"} : guardEvents' = Recorded("other", [decision |-> d])
    BY <1>4
  <2>2. d \in Decisions
    BY DEF Decisions
  <2> DEFINE events == Append(guardEvents, [by |-> "other", decision |-> d])
             verdict == [decision |-> d]
  <2>3. /\ events \in Seq(GuardEvent) /\ guardEvents' \in Seq(GuardEvent)
        /\ Len(guardEvents') <= GuardKept
        /\ \E first \in 1 .. Len(events) : guardEvents' = SubSeq(events, first, Len(events))
    <3>1. verdict.decision = d /\ guardEvents' = Recorded("other", verdict)
      BY <2>1
    <3> HIDE DEF verdict
    <3> QED BY <1>0, <2>2, <3>1, RecordedIs
  <2>4. Tell(events, use.verdicts)
    BY <1>0, <2>2, OtherIsNotTold
  <2> HIDE DEF events
  <2>5. PICK first \in 1 .. Len(events) : guardEvents' = SubSeq(events, first, Len(events))
    BY <2>3
  <2>6. Tell(guardEvents', use.verdicts)
    BY <1>0, <2>3, <2>4, <2>5, LatestAreTold
  <2> QED BY <1>4, <2>3, <2>6 DEF GuardUseInv, EventsTypeOK
<1> QED BY <1>1, <1>2, <1>3, <1>4

\* Every step of AgentGuard, with the policy in force one that was loaded.
LEMMA GuardUseKept ==
  ASSUME GuardUseInv, inForce \in GuardPolicies, [AgentGuardNext]_guardVars
  PROVE  GuardUseInv'
<1>0. UseOf(use)
  BY DEF GuardUseInv
<1>1. CASE UNCHANGED <<use, guardEvents>>
  BY <1>0, <1>1, RecordingTells
<1>2. CASE ProxyCall
  BY <1>2, ProxyCallSound, RecordingTells DEF ProxyCall, Quiet
<1>3. CASE ScanMessage
  BY <1>3, ScanMessageSound, RecordingTells
<1>4. CASE Forward
  BY <1>4, ForwardSound, RecordingTells DEF Forward, Quiet
<1>5. CASE UpstreamAnswers
  BY <1>5, UpstreamSound, RecordingTells DEF UpstreamAnswers, Quiet
<1>6. CASE ScanAnswer
  BY <1>6, ScanAnswerSound, RecordingTells
<1>7. CASE HandOn
  BY <1>7, HandOnSound, RecordingTells DEF HandOn, Quiet
<1>8. CASE ProposeCall
  BY <1>8, ProposeSound, RecordingTells DEF ProposeCall, Quiet
<1>9. CASE AskGuard
  BY <1>9, AskGuardSound, RecordingTells
<1>10. CASE GuardUnreachable
  BY <1>10, UnreachableSound, RecordingTells DEF GuardUnreachable, Quiet
<1>11. CASE RunTool
  BY <1>11, RunToolSound, RecordingTells DEF RunTool, Quiet
<1>12. CASE OtherScan
  BY <1>0, <1>12, RecordingTells DEF OtherScan
<1>13. CASE RestartAll
  BY <1>13, RestartSound, RecordingTells DEF RestartAll
<1> QED BY <1>1, <1>2, <1>3, <1>4, <1>5, <1>6, <1>7, <1>8, <1>9, <1>10, <1>11, <1>12, <1>13
        DEF AgentGuardNext, guardVars

LEMMA GuardUseInitially ==
  ASSUME AgentGuardInit
  PROVE  GuardUseInv
<1>1. UseOf(use) /\ guardEvents = <<>>
  BY NoUseIsSound DEF AgentGuardInit
<1>2. EventsTypeOK
  BY <1>1, AgentGuardAssumption DEF EventsTypeOK
<1>3. Uses(guardEvents, 1, Len(guardEvents)) = {}
  BY <1>1 DEF Uses
<1> QED BY <1>1, <1>2, <1>3 DEF GuardUseInv, Tell

\* The invariant tells what GuardHolds asks.
LEMMA MessagesAreClean ==
  ASSUME UseOf(use), SentOn
  PROVE  ForwardedIsScanned /\ HidingGainsNothing
<1>0. /\ use \in UseRecord /\ use.body \in Seq(Texts) /\ Len(use.sent) = Len(use.body)
      /\ \A i \in 1 .. Len(use.sent) : Passed(use, i)
  BY DEF UseOf, ScannedIn, SentOn, SentPlaces, UseRecord
<1>1. SUFFICES ASSUME NEW i \in DOMAIN use.body
      PROVE  /\ use.verdicts[i].decision # "block"
             /\ \E score \in Scores :
                  /\ use.verdicts[i] = ScanInput(use.body[i], use.policy, score)
                  /\ OnePassIsEnough(use.body[i]) =>
                     LET again == ScanInput(use.sent[i], use.policy, score)
                     IN  again.text = use.sent[i] /\ again.risk <= use.verdicts[i].risk
                  /\ use.policy.hidden =>
                       LET plainly == ScanInput(Unsplit(use.body[i]), use.policy, score)
                       IN  use.verdicts[i].risk >= plainly.risk
  BY DEF ForwardedIsScanned, HidingGainsNothing
<1>2. Passed(use, i) /\ use.body[i] \in Texts
  BY <1>0
<1>3. PICK score \in Scores : use.verdicts[i] = ScanInput(use.body[i], use.policy, score)
  BY <1>2 DEF Passed
<1>4. score \in Int
  BY AgentGuardAssumption DEF Scores
<1> DEFINE text == use.body[i]
           p == use.policy
           left == Left(text, p)
           found == FoundIn(text, p, score)
<1>5. /\ use.verdicts[i].risk = Risk(found) /\ use.sent[i] = left
      /\ ScanInput(left, p, score).text = Left(left, p)
      /\ ScanInput(left, p, score).risk = Risk(FoundIn(left, p, score))
      /\ ScanInput(Unsplit(text), p, score).risk = Risk(FoundIn(Unsplit(text), p, score))
  <2>1. use.sent[i] = use.verdicts[i].text
    BY <1>2 DEF Passed
  <2> QED BY <1>3, <2>1, InputIsScanned
<1>6. text \in Texts
  BY <1>2
<1> HIDE DEF text, p
<1>7. AreFindings(found)
  BY <1>4, <1>6, FoundAreFindings
<1>8. OnePassIsEnough(text) => Left(left, p) = left /\ FoundIn(left, p, score) \in SUBSET found
  BY <1>6, CleanStaysClean
<1> HIDE DEF left, found
<1>9. /\ OnePassIsEnough(text) => Risk(FoundIn(left, p, score)) <= Risk(found)
      /\ Risk(found) \in 0 .. 100
  BY <1>7, <1>8, RiskGrows
<1>10. p.hidden => Risk(FoundIn(Unsplit(text), p, score)) <= Risk(found)
  BY <1>6, <1>7, HiddenIsFound, RiskGrows DEF found
<1>11. p.hidden => Risk(found) >= Risk(FoundIn(Unsplit(text), p, score))
  <2>1. ASSUME p.hidden PROVE Risk(FoundIn(Unsplit(text), p, score)) \in 0 .. 100
    BY <1>6, <1>7, <2>1, HiddenIsFound, RiskGrows DEF found
  <2> QED BY <1>9, <1>10, <2>1
<1>12. use.verdicts[i].decision # "block"
  BY <1>2 DEF Passed
<1> QED BY <1>3, <1>5, <1>8, <1>9, <1>11, <1>12 DEF text, p

\* The invariant is at least what the runs check.
LEMMA GuardUseTells ==
  ASSUME GuardUseInv, inForce \in GuardPolicies
  PROVE  /\ AgentGuardTypeOK /\ ForwardedIsScanned /\ DeliveredIsScanned
         /\ HidingGainsNothing /\ ToolsRunCleared /\ MoreIsNoMilder /\ EventsTellTheCall
<1>0. UseOf(use) /\ use \in UseRecord /\ EventsTypeOK /\ Tell(guardEvents, use.verdicts)
  BY DEF GuardUseInv, UseOf
<1>1. AgentGuardTypeOK
  BY <1>0 DEF AgentGuardTypeOK, UseOf, EventsTypeOK, UseRecord, UsePlaces
<1>2. ForwardedIsScanned /\ HidingGainsNothing
  BY <1>0, MessagesAreClean DEF ForwardedIsScanned, HidingGainsNothing
<1>3. DeliveredIsScanned
  <2>1. DOMAIN use.reply = 1 .. Len(use.reply)
    BY <1>0 DEF UseRecord
  <2> QED BY <1>0, <2>1 DEF DeliveredIsScanned, UseOf, ScannedOut
<1>4. ToolsRunCleared
  BY <1>0 DEF ToolsRunCleared, UseOf, AsksFirst, Cleared, Clears
<1>5. MoreIsNoMilder
  <2> SUFFICES ASSUME use.pc = "agent", NEW less \in SUBSET use.call.args
               PROVE  LET whole == ScanTool(use.call, inForce)
                          part == [use.call EXCEPT !.args = less]
                          matched == [part EXCEPT !.intent = "matches"]
                      IN  /\ Mismatch(part) = Mismatch(use.call) =>
                                ScanTool(part, inForce).risk <= whole.risk
                          /\ ScanTool(matched, inForce).risk <= whole.risk
                          /\ whole.risk <= 100
                          /\ whole.decision = "challenge" => whole.approval
    BY DEF MoreIsNoMilder
  <2>1. use.call \in AgentCalls
    BY <1>0 DEF UseOf, AsksFirst
  <2> QED BY <2>1, MoreIsNoMilderOf, ToolVerdicts
<1>6. EventsTellTheCall
  BY <1>0 DEF EventsTellTheCall, OfCall, Tell, ToldAt, Uses
<1> QED BY <1>1, <1>2, <1>3, <1>4, <1>5, <1>6

\* The policy in force is in its file after updates that overlapped no other, and
\* whatever an admin changes meanwhile: what is sent to a model was scanned to the
\* end by one policy and is clean where one pass is enough, hiding an instruction gains nothing, an answer
\* handed on as JSON was scanned, a tool runs only when it was cleared, more in a
\* call is milder only for the word its intent missed, and the events tell the verdicts of the call:
\* GuardHolds, about the scanners, the proxy and the clients of AgentGuard.
THEOREM GuardStaysSound == AgentGuardSpec => []GuardHolds
<1>1. GuardPolicyInv => inForce \in GuardPolicies
  BY DEF GuardPolicyInv, AdminTypes
<1>2. AgentGuardInit => GuardUseInv
  BY GuardUseInitially
<1>3. GuardUseInv /\ inForce \in GuardPolicies /\ [AgentGuardNext]_guardVars => GuardUseInv'
  BY GuardUseKept
<1>4. AgentGuardSpec => []GuardUseInv
  BY <1>1, <1>2, <1>3, GuardPolicyInvariant, PTL DEF AgentGuardSpec
<1>5. GuardUseInv /\ inForce \in GuardPolicies /\ PolicyIsFiled /\ UpdateIsKept => GuardHolds
  BY GuardUseTells DEF GuardHolds
<1> QED BY <1>1, <1>4, <1>5, GuardPolicyInvariant, GuardPolicyStaysFiled, PTL
=============================================================================
