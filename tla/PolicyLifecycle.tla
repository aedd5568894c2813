-------------------------- MODULE PolicyLifecycle --------------------------
(***************************************************************************)
(* The policy of the MCP security proxy (mcp-security-proxy/                *)
(* mcp_security_proxy/app.py, governance.py): the file on disk, the policy  *)
(* in memory, the backups, the versions with their list, the proposals.     *)
(*                                                                          *)
(* A handler runs without yielding to another one, but each file it writes  *)
(* is a step of its own: between two of them the disk may refuse, or the    *)
(* process may die.  "handler" is the handler under way, with the step it   *)
(* takes next.                                                              *)
(***************************************************************************)
EXTENDS Naturals, Sequences

CONSTANTS
    Policies,      \* policy documents: JSON objects
    Loadable,      \* those ProxyPolicy() accepts
    Governed,      \* those with governance.enabled
    Lifecycle,     \* those with policy_lifecycle.enabled
    AutoVersion,   \* those with auto_version_on_write
    NeedApproval,  \* those with require_approval_for_writes
    Unreadable,    \* the file when it holds no JSON object
    Nothing,       \* no policy
    MaxVersions,   \* policy_lifecycle.max_versions
    MaxRecords,    \* bound: versions saved
    MaxProposals,  \* bound: proposals filed
    MaxMishaps     \* bound: crashes, refused writes and edits

ASSUME PolicyAssumption ==
    /\ Loadable \subseteq Policies
    /\ Unreadable \notin Policies
    /\ Nothing \notin Policies \cup {Unreadable}
    /\ MaxVersions \in Nat \ {0}
    /\ MaxMishaps \in Nat

VARIABLES
    policyFile,       \* the policy file
    live,       \* the module global "policy"
    up,         \* whether the proxy runs
    handler,    \* the handler under way
    backups,    \* contents of the backups directory
    records,    \* the version files, oldest first
    versions,   \* index.json: positions in records, newest first
    proposals,  \* policy_proposals.json
    answered,   \* the policy last reported in place, if nothing touched it since
    mishaps     \* crashes, refused writes and edits so far

policyVars == <<policyFile, live, up, handler, backups, records, versions, proposals,
          answered, mishaps>>

Versioned(p) == p \in Governed \cap Lifecycle \cap AutoVersion
Queued(p)    == p \in Governed \cap Lifecycle \cap NeedApproval

\* "update": _apply_policy_update and the governed bundle; "console": the
\* /soc writers; "patch": the llm_risk and tool_intent patches; "manual": the
\* manual snapshot
Writers == {"update", "console", "patch"}
Steps   == {"keep", "listkept", "backup", "write", "reload", "record", "list", "close"}
Idle    == [kind |-> "none", policy |-> Nothing, proposal |-> 0, step |-> "none"]
Busy    == [kind : Writers \cup {"manual"}, policy : Policies,
            proposal : 0 .. Len(proposals), step : Steps]

PolicyInit ==
    /\ policyFile \in Loadable
    /\ live = policyFile
    /\ up = TRUE
    /\ handler = Idle
    /\ backups = {}
    /\ records = << >>
    /\ versions = << >>
    /\ proposals = << >>
    /\ answered = Nothing
    /\ mishaps = 0

----------------------------------------------------------------------------
(* Requests.                                                                *)

Begin(kind, p, i, step) ==
    /\ up /\ handler = Idle
    /\ handler' = [kind |-> kind, policy |-> p, proposal |-> i, step |-> step]
    /\ UNCHANGED <<policyFile, live, up, backups, records, versions, answered, mishaps>>

File(p) ==
    /\ Len(proposals) < MaxProposals
    /\ proposals' = Append(proposals, [policy |-> p, status |-> "pending"])
    /\ UNCHANGED <<policyFile, live, up, handler, backups, records, versions, answered, mishaps>>

\* POST /admin/policy-config: "direct" when forced, or when the role may approve
Update(p, direct) ==
    IF Queued(live) /\ ~direct
    THEN up /\ handler = Idle /\ File(p)
    ELSE /\ policyFile # Unreadable
         /\ Begin("update", p, 0, "keep")
         /\ UNCHANGED proposals

\* POST /admin/apply-policy-bundle: never queued
ApplyBundle(p) ==
    /\ policyFile # Unreadable
    /\ Begin("update", p, 0, "keep")
    /\ UNCHANGED proposals

Rollback(v) ==
    /\ policyFile # Unreadable
    /\ Begin("update", records[v], 0, "keep")
    /\ UNCHANGED proposals

Propose(p) == up /\ handler = Idle /\ File(p)

\* Mutant of Approve: whatever the status
ApproveAgain(i) ==
    /\ policyFile # Unreadable
    /\ Begin("update", proposals[i].policy, i, "keep")
    /\ UNCHANGED proposals

Approve(i) ==
    /\ proposals[i].status = "pending"
    /\ policyFile # Unreadable
    /\ Begin("update", proposals[i].policy, i, "keep")
    /\ UNCHANGED proposals

Reject(i) ==
    /\ up /\ handler = Idle
    /\ proposals' = [proposals EXCEPT ![i].status = "rejected"]
    /\ UNCHANGED <<policyFile, live, up, handler, backups, records, versions, answered, mishaps>>

\* The console writes a whole policy, or a bundle applied to the file
ConsoleWrite(p) ==
    /\ Begin("console", p, 0, "backup")
    /\ UNCHANGED proposals

\* llm_risk and tool_intent: one section of the file replaced
Patch(p) ==
    /\ policyFile # Unreadable
    /\ Begin("patch", p, 0, "write")
    /\ UNCHANGED proposals

ManualSnapshot ==
    /\ live \in Governed => live \in Lifecycle
    /\ policyFile # Unreadable
    /\ Begin("manual", policyFile, 0, "record")
    /\ UNCHANGED proposals

\* POST /admin/reload-policy: refused, with nothing changed, unless it loads
ReloadRequest ==
    /\ up /\ handler = Idle
    /\ policyFile \in Loadable
    /\ live' = policyFile
    /\ answered' = policyFile
    /\ UNCHANGED <<policyFile, up, handler, backups, records, versions, proposals, mishaps>>

----------------------------------------------------------------------------
(* The steps of a handler.                                                  *)

At(step)   == up /\ handler.step = step
GoTo(step) == handler' = [handler EXCEPT !.step = step]

Answer ==
    /\ handler' = Idle
    /\ answered' = IF handler.kind = "manual" THEN answered ELSE handler.policy

CloseOrAnswer ==
    IF handler.proposal # 0
    THEN GoTo("close") /\ UNCHANGED answered
    ELSE Answer

\* Mutants of Listed: the newest last, and nothing trimmed
OldestFirst ==
    LET all == versions \o <<Len(records)>>
    IN  SubSeq(all, 1, IF Len(all) > MaxVersions THEN MaxVersions ELSE Len(all))
Untrimmed == <<Len(records)>> \o versions

\* index.json with the version saved last in front, trimmed
Listed ==
    LET all == <<Len(records)>> \o versions
    IN  SubSeq(all, 1, IF Len(all) > MaxVersions THEN MaxVersions ELSE Len(all))

\* The policy about to be replaced is saved, if the policy in force says so
Keep ==
    /\ At("keep")
    /\ IF Versioned(live)
       THEN /\ Len(records) < MaxRecords
            /\ records' = Append(records, policyFile)
            /\ GoTo("listkept")
       ELSE GoTo("backup") /\ UNCHANGED records
    /\ UNCHANGED <<policyFile, live, up, backups, versions, proposals, answered, mishaps>>

ListKept ==
    /\ At("listkept")
    /\ versions' = Listed
    /\ GoTo("backup")
    /\ UNCHANGED <<policyFile, live, up, backups, records, proposals, answered, mishaps>>

\* Mutant of Backup: the new policy is backed up
BackupNew ==
    /\ At("backup")
    /\ backups' = backups \cup {handler.policy}
    /\ GoTo("write")
    /\ UNCHANGED <<policyFile, live, up, records, versions, proposals, answered, mishaps>>

\* A name not taken yet: a backup never replaces another
Backup ==
    /\ At("backup")
    /\ backups' = backups \cup {policyFile}
    /\ GoTo("write")
    /\ UNCHANGED <<policyFile, live, up, records, versions, proposals, answered, mishaps>>

Write ==
    /\ At("write")
    /\ policyFile' = handler.policy
    /\ answered' = Nothing
    /\ GoTo("reload")
    /\ UNCHANGED <<live, up, backups, records, versions, proposals, mishaps>>

\* Mutants of Reload: the policy is loaded but not put in force, and a policy
\* that does not load is only logged
ReloadUnused ==
    /\ At("reload")
    /\ IF policyFile \in Loadable
       THEN IF handler.kind = "update" THEN GoTo("record") /\ UNCHANGED answered ELSE Answer
       ELSE handler' = Idle /\ UNCHANGED answered
    /\ UNCHANGED <<policyFile, live, up, backups, records, versions, proposals, mishaps>>
ReloadLenient ==
    /\ At("reload")
    /\ live' = IF policyFile \in Loadable THEN policyFile ELSE live
    /\ IF handler.kind = "update" THEN GoTo("record") /\ UNCHANGED answered ELSE Answer
    /\ UNCHANGED <<policyFile, up, backups, records, versions, proposals, mishaps>>

\* A policy that does not load ends the handler, and stays in the file
Reload ==
    /\ At("reload")
    /\ IF policyFile \in Loadable
       THEN /\ live' = policyFile
            /\ IF handler.kind = "update"
               THEN GoTo("record") /\ UNCHANGED answered
               ELSE Answer
       ELSE /\ handler' = Idle
            /\ UNCHANGED <<live, answered>>
    /\ UNCHANGED <<policyFile, up, backups, records, versions, proposals, mishaps>>

\* The new policy is saved, if it is itself one that says so
Record ==
    /\ At("record")
    /\ IF handler.kind = "manual" \/ Versioned(live)
       THEN /\ Len(records) < MaxRecords
            /\ records' = Append(records, handler.policy)
            /\ GoTo("list")
            /\ UNCHANGED answered
       ELSE CloseOrAnswer /\ UNCHANGED records
    /\ UNCHANGED <<policyFile, live, up, backups, versions, proposals, mishaps>>

List ==
    /\ At("list")
    /\ versions' = Listed
    /\ CloseOrAnswer
    /\ UNCHANGED <<policyFile, live, up, backups, records, proposals, mishaps>>

Close ==
    /\ At("close")
    /\ proposals' = [proposals EXCEPT ![handler.proposal].status = "approved"]
    /\ Answer
    /\ UNCHANGED <<policyFile, live, up, backups, records, versions, mishaps>>

----------------------------------------------------------------------------
(* What goes wrong, and what others do to the file.                         *)

\* JSON files are renamed into place.  The policy file is too, but when the
\* rename is refused it is written in place; the backup always is.
Torn ==
    \/ UNCHANGED <<policyFile, backups, answered>>
    \/ /\ handler.step = "write"
       /\ policyFile' = Unreadable
       /\ answered' = Nothing
       /\ UNCHANGED backups
    \/ /\ handler.step = "backup"
       /\ backups' = backups \cup {Unreadable}
       /\ UNCHANGED <<policyFile, answered>>

Interrupt(alive) ==
    /\ up
    /\ alive => handler # Idle
    /\ mishaps < MaxMishaps
    /\ mishaps' = mishaps + 1
    /\ up' = alive
    /\ handler' = Idle
    /\ Torn
    /\ UNCHANGED <<live, records, versions, proposals>>

Refuse == Interrupt(TRUE)
CrashProxy  == Interrupt(FALSE)

\* The module loads the policy when imported, and exits if it cannot
Start ==
    /\ ~up
    /\ policyFile \in Loadable
    /\ up' = TRUE
    /\ live' = policyFile
    /\ UNCHANGED <<policyFile, handler, backups, records, versions, proposals, answered, mishaps>>

\* An operator edits the file, never in the middle of a handler
Edit(p) ==
    /\ handler = Idle
    /\ mishaps < MaxMishaps
    /\ mishaps' = mishaps + 1
    /\ policyFile' = p
    /\ answered' = Nothing
    /\ UNCHANGED <<live, up, handler, backups, records, versions, proposals>>

PolicyNext ==
    \/ \E p \in Policies :
          \/ \E direct \in BOOLEAN : Update(p, direct)
          \/ ApplyBundle(p) \/ Propose(p) \/ ConsoleWrite(p) \/ Patch(p)
    \/ \E v \in DOMAIN records : Rollback(v)
    \/ \E i \in DOMAIN proposals : Approve(i) \/ Reject(i)
    \/ ManualSnapshot \/ ReloadRequest
    \/ Keep \/ ListKept \/ Backup \/ Write \/ Reload \/ Record \/ List \/ Close
    \/ Refuse \/ CrashProxy \/ Start
    \/ \E p \in Policies \cup {Unreadable} : Edit(p)

PolicySpec == PolicyInit /\ [][PolicyNext]_policyVars

----------------------------------------------------------------------------
(* Properties.                                                              *)

\* Every variable keeps to its type, and the list to max_versions.
PolicyTypeOK ==
    /\ policyFile \in Policies \cup {Unreadable}
    /\ live \in Loadable
    /\ up \in BOOLEAN
    /\ handler \in Busy \cup {Idle}
    /\ ~up => handler = Idle
    /\ backups \subseteq Policies \cup {Unreadable}
    /\ records \in Seq(Policies)
    /\ versions \in Seq(DOMAIN records)
    /\ Len(versions) <= MaxVersions
    /\ proposals \in Seq([policy : Policies, status : {"pending", "approved", "rejected"}])
    /\ answered \in Policies \cup {Nothing}
    /\ mishaps \in 0 .. MaxMishaps

\* GET /admin/policy-versions lists the newest versions first and none twice,
\* whichever of record file and list a crash kept from being written; only a
\* mishap keeps the version saved last from being on top.
ListIsHistory ==
    /\ \A j, k \in DOMAIN versions : j < k => versions[j] > versions[k]
    /\ records # << >> /\ mishaps = 0 /\ handler.step \notin {"listkept", "list"} =>
          versions # << >> /\ versions[1] = Len(records)

\* A policy reported to be in place is in the file and in force, and is so
\* again after a restart, until another request or an edit replaces it: no
\* update that fails half way leaves the answered one in force by halves.
AnsweredStaysInPlace ==
    answered # Nothing => policyFile = answered /\ (up => live = answered)

\* When an update or the console replaces the file, or tears it, what was in it
\* is in a backup and, for a versioned update, on top of the version list.
ReplacedCanBeRestored ==
    [][ handler.kind \in {"update", "console"} /\ policyFile' # policyFile /\ handler # Idle =>
          /\ policyFile \in backups
          /\ handler.kind = "update" /\ Versioned(live) =>
                versions # << >> /\ records[versions[1]] = policyFile ]_policyVars

\* A proposal is marked approved only with its policy in the file and in force.
ApprovedIsInPlace ==
    [][ \A i \in DOMAIN proposals :
          proposals[i].status # "approved" /\ proposals'[i].status = "approved"
            => live = proposals[i].policy /\ policyFile = proposals[i].policy ]_policyVars

\* A rejected proposal stays rejected.
RejectedIsFinal ==
    [][ \A i \in DOMAIN proposals :
          proposals[i].status = "rejected" => proposals'[i].status = "rejected" ]_policyVars

(* What was answered as in place stays in place through crashes and other  *)
(* handlers, and the list of versions is the history of it.                *)
PolicyIsKept == PolicyTypeOK /\ ListIsHistory /\ AnsweredStaysInPlace

(* A policy that is replaced can be restored, a proposal marked approved   *)
(* was applied, and one rejected never is.                                 *)
ChangesAreAccounted == ReplacedCanBeRestored /\ ApprovedIsInPlace /\ RejectedIsFinal
=============================================================================
