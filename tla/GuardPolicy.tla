---------------------------- MODULE GuardPolicy ----------------------------
(*****************************************************************************)
(* The policy of AgentGuard (agentic-ai-firewall/agentguard, app.py and      *)
(* config.py): a YAML file, loaded at the start, replaced by PUT             *)
(* /v1/admin/policy by way of one .tmp file, and loaded again by POST        *)
(* /v1/admin/reload-policy.  The handlers run on threads without a lock, so  *)
(* two of them may overlap anywhere.                                         *)
(*****************************************************************************)
EXTENDS Integers, Sequences, FiniteSets

CONSTANTS
    GuardAdmins,   \* threads that serve the admin's requests
    GuardTexts,    \* YAML texts an admin may send; all of them parse
    PolicyIn,      \* the policy in each of the texts that load
    DefaultGuard,  \* the policy of no file, and of an empty one
    Blank, Absent, \* an empty file, and none
    MaxAdminCalls, MaxGuardFaults  \* bounds on requests, and on crashes and
                                   \* file operations that are refused

ASSUME GuardPolicyAssumption ==
    /\ DOMAIN PolicyIn \subseteq GuardTexts
    /\ Blank \notin GuardTexts /\ Absent \notin GuardTexts /\ Blank # Absent
    /\ {MaxAdminCalls, MaxGuardFaults} \subseteq Nat

VARIABLES
    fileText,   \* the policy file
    tmpText,    \* the file beside it that updates write
    inForce,    \* app.state.policy
    stamp,      \* app.state.policy_fingerprint: the policy it is of
    admin,      \* the requests under way
    guardUp,    \* the process runs
    settled,    \* (history) the last change was of a request that overlapped
                \* no other, or a start
    confirmed,   \* (history) the text last answered "updated" by such a request,
                \* until another is sent
    adminCalls, guardFaults

guardPolicyVars == <<fileText, tmpText, inForce, stamp, admin, guardUp, settled, confirmed,
                     adminCalls, guardFaults>>
guardBounds == <<adminCalls, guardFaults>>

\* pc: what comes next; open: the file the text is written to, which a rename
\* moves along; alone: no other request was there
IdleAdmin == [pc |-> "idle", text |-> Blank, loaded |-> DefaultGuard, open |-> "none",
              alone |-> TRUE]

\* load_policy
Loads(content) == content \in {Absent, Blank} \cup DOMAIN PolicyIn
Loaded(content) == IF content \in {Absent, Blank} THEN DefaultGuard ELSE PolicyIn[content]

GuardPolicyInit ==
    /\ fileText \in {Absent} \cup DOMAIN PolicyIn
    /\ tmpText = Absent
    /\ inForce = Loaded(fileText) /\ stamp = inForce
    /\ admin = [a \in GuardAdmins |-> IdleAdmin]
    /\ guardUp = TRUE /\ settled = TRUE /\ confirmed = Absent
    \* what is left of the bounds
    /\ adminCalls \in 0 .. MaxAdminCalls /\ guardFaults \in 0 .. MaxGuardFaults

-----------------------------------------------------------------------------
(* Requests                                                                  *)

AdminAt(a, pc) == guardUp /\ admin[a].pc = pc
Others(a) == {b \in GuardAdmins \ {a} : admin[b].pc # "idle"}

\* The request of a begins: from now on it and the others overlap
Began(a, request) ==
    [b \in GuardAdmins |->
        IF b = a THEN [request EXCEPT !.alone = Others(a) = {}]
        ELSE [admin[b] EXCEPT !.alone = @ /\ b \notin Others(a)]]
Begins(a) ==
    /\ AdminAt(a, "idle") /\ adminCalls < MaxAdminCalls /\ adminCalls' = adminCalls + 1
    /\ settled' = (settled /\ Others(a) = {})
    /\ UNCHANGED <<guardUp, guardFaults>>
Proceed(a, pc) == admin' = [admin EXCEPT ![a].pc = pc]
\* Answered with an error, or ended by one
Failed(a, now) == [now EXCEPT ![a] = IdleAdmin]

\* api_update_policy up to the write: the file is emptied as it is opened
OpenTmp(a) ==
    /\ Begins(a)
    /\ \E t \in GuardTexts :
        admin' = Began(a, [IdleAdmin EXCEPT !.pc = "write", !.text = t, !.open = "tmp"])
    /\ tmpText' = Blank
    /\ confirmed' = Absent
    /\ UNCHANGED <<fileText, inForce, stamp>>

\* What a file holds once text was written over what another wrote meanwhile:
\* some mixture of the two
WrittenOver(old, text) == IF old = Blank THEN {text} ELSE GuardTexts
WriteTmp(a) ==
    /\ AdminAt(a, "write")
    /\ CASE admin[a].open = "tmp" ->
              tmpText' \in WrittenOver(tmpText, admin[a].text) /\ UNCHANGED fileText
         [] admin[a].open = "file" ->
              fileText' \in WrittenOver(fileText, admin[a].text) /\ UNCHANGED tmpText
         [] OTHER -> UNCHANGED <<fileText, tmpText>>
    /\ admin' = [admin EXCEPT ![a].pc = "load", ![a].open = "none"]
    /\ UNCHANGED <<inForce, stamp, guardUp, settled, confirmed, guardBounds>>

\* Files held open follow a rename of .tmp, and what it replaces is gone
Moved(now, names) == [b \in GuardAdmins |-> [now[b] EXCEPT !.open = names[@]]]
Renames == [none |-> "none", tmp |-> "file", file |-> "lost", lost |-> "lost"]
Unlinks == [none |-> "none", tmp |-> "lost", file |-> "file", lost |-> "lost"]

\* Mutant of LoadTmp: a text that does not load is found out by its next reader
LoadTmpLater(a) ==
    /\ AdminAt(a, "load")
    /\ admin' = [admin EXCEPT ![a].pc = "replace",
                     ![a].loaded = IF Loads(tmpText) THEN Loaded(tmpText) ELSE inForce]
    /\ UNCHANGED <<tmpText, fileText, inForce, stamp, guardUp, settled, confirmed>>
    /\ UNCHANGED guardBounds
\* Without the file, because another request moved it, the default is loaded; a
\* text that does not load is removed and answered 400
LoadTmp(a) ==
    /\ AdminAt(a, "load")
    /\ IF Loads(tmpText)
       THEN /\ admin' = [admin EXCEPT ![a].pc = "replace", ![a].loaded = Loaded(tmpText)]
            /\ UNCHANGED tmpText
       ELSE /\ admin' = Failed(a, Moved(admin, Unlinks))
            /\ tmpText' = Absent
    /\ UNCHANGED <<fileText, inForce, stamp, guardUp, settled, confirmed, guardBounds>>

ReplaceFile(a) ==
    /\ AdminAt(a, "replace")
    /\ IF tmpText = Absent
       THEN admin' = Failed(a, admin) /\ UNCHANGED <<fileText, tmpText>>
       ELSE /\ admin' = [Moved(admin, Renames) EXCEPT ![a].pc = "set"]
            /\ fileText' = tmpText /\ tmpText' = Absent
    /\ UNCHANGED <<inForce, stamp, guardUp, settled, confirmed, guardBounds>>

\* A write or a rename that is refused: 500, and .tmp stays as it is
RefuseFile(a) ==
    /\ \E pc \in {"write", "replace"} : AdminAt(a, pc)
    /\ guardFaults < MaxGuardFaults /\ guardFaults' = guardFaults + 1
    /\ admin' = Failed(a, admin)
    /\ UNCHANGED <<fileText, tmpText, inForce, stamp, guardUp, settled, confirmed>>
    /\ UNCHANGED adminCalls

\* api_reload_policy; the file is read at once, and does not load where an
\* update that overlapped another put it
ReloadPolicy(a) ==
    /\ Begins(a)
    /\ admin' = IF Loads(fileText)
                THEN Began(a, [IdleAdmin EXCEPT !.pc = "set", !.loaded = Loaded(fileText)])
                ELSE Began(a, IdleAdmin)
    /\ UNCHANGED <<fileText, tmpText, inForce, stamp, confirmed>>

\* The policy, its time and its fingerprint are set one after the other, the
\* last of the policy then in force
SetPolicy(a) ==
    /\ AdminAt(a, "set")
    /\ inForce' = admin[a].loaded
    /\ Proceed(a, "digest")
    /\ UNCHANGED <<fileText, tmpText, stamp, guardUp, settled, confirmed, guardBounds>>
DigestPolicy(a) ==
    /\ AdminAt(a, "digest")
    /\ admin' = [admin EXCEPT ![a].pc = "stamp", ![a].loaded = inForce]
    /\ UNCHANGED <<fileText, tmpText, inForce, stamp, guardUp, settled, confirmed>>
    /\ UNCHANGED guardBounds
\* Mutant of StampPolicy: the fingerprint is left as it was
StampPolicyNot(a) ==
    /\ AdminAt(a, "stamp")
    /\ admin' = Failed(a, admin)
    /\ settled' = (settled \/ admin[a].alone)
    /\ UNCHANGED <<fileText, tmpText, inForce, stamp, guardUp, confirmed, guardBounds>>
StampPolicy(a) ==
    /\ AdminAt(a, "stamp")
    /\ stamp' = admin[a].loaded
    /\ admin' = Failed(a, admin)
    /\ settled' = (settled \/ admin[a].alone)
    /\ confirmed' = IF ~admin[a].alone THEN Absent
                    ELSE IF admin[a].text = Blank THEN confirmed ELSE admin[a].text
    /\ UNCHANGED <<fileText, tmpText, inForce, guardUp, guardBounds>>

\* The process dies and starts again, which it cannot with a file that does
\* not load
RestartGuard ==
    /\ guardUp
    /\ guardFaults < MaxGuardFaults /\ guardFaults' = guardFaults + 1
    /\ admin' = [a \in GuardAdmins |-> IdleAdmin]
    /\ guardUp' = Loads(fileText)
    /\ inForce' = IF Loads(fileText) THEN Loaded(fileText) ELSE inForce
    /\ stamp' = inForce' /\ settled' = Loads(fileText)
    /\ UNCHANGED <<fileText, tmpText, confirmed, adminCalls>>

AdminNext ==
    \E a \in GuardAdmins :
        \/ OpenTmp(a) \/ WriteTmp(a) \/ LoadTmp(a) \/ ReplaceFile(a) \/ RefuseFile(a)
        \/ ReloadPolicy(a) \/ SetPolicy(a) \/ DigestPolicy(a) \/ StampPolicy(a)

-----------------------------------------------------------------------------
(* Properties                                                                *)

NoRequest == \A a \in GuardAdmins : admin[a].pc = "idle"

\* When nothing is being changed, the policy in force is the one in the file and
\* the fingerprint is its own, if the last request that changed something
\* overlapped no other: whatever requests that did overlap, were refused or were
\* cut by a crash left behind, one request alone sets it right.
PolicyIsFiled ==
    guardUp /\ settled /\ NoRequest =>
        Loads(fileText) /\ inForce = Loaded(fileText) /\ stamp = inForce

\* The text an update answered for is in the file until another is sent, and
\* the file loads, so that the next start will succeed.
UpdateIsKept ==
    settled /\ NoRequest =>
        /\ confirmed # Absent => fileText = confirmed
        /\ Loads(fileText) /\ guardUp
=============================================================================
