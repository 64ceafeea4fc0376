----------------------------- MODULE TrfxActions -----------------------------
(***************************************************************************)
(* The kill and drop actions (src/trfx_actions.c), as the TUI's main       *)
(* thread runs them after x and z (src/trfx_dashboard.c) and as the        *)
(* commands kill and drop run them (src/trfx_app.c), with the support      *)
(* thread's audit view reading the ring at the same time.                  *)
(*                                                                         *)
(* Between any two looks at /proc, and between the last look and kill(),   *)
(* processes end and their pids are given to others.                       *)
(***************************************************************************)
EXTENDS TrfxAudit

CONSTANTS
  Pids,         \* strings parse_pid_value accepts
  ProcNames,    \* strings it refuses and that name a directory of /proc: self
  Processes,
  NoProcess,
  Owner,        \* the real uid of each process
  Root,
  Uids,
  MaxActions    \* bound on the actions of one run of the program

Kinds == {"kill", "drop"}

Statuses == {"ok", "cancelled", "permission_denied", "unsupported", "invalid",
             "not_found", "failed"}

ASSUME ActionsAssumption ==
  /\ Pids \cap ProcNames = {}
  /\ NoProcess \notin Processes
  /\ Owner \in [Processes -> Uids]
  /\ Root \in Uids
  /\ MaxActions \in Nat
  /\ [number : 0 .. MaxActions, kind : Kinds, status : Statuses] \subseteq Results

VARIABLES
  effective_uid,
  process_at,   \* the process each pid names
  started,      \* the processes that have been started; none starts twice
  tui,          \* TUI or command line
  apc,          \* where the action is
  number,       \* actions begun
  request,      \* kind and target
  permission,   \* what the review said
  confirmed,
  result,       \* result.status
  acted,        \* the signal was sent, or ss dropped the connection
  reused,       \* the target's pid got a new process since the review
  exit_code,
  vpc,          \* where the audit view is
  index,        \* its loop variable
  held,         \* the slot it has a pointer to
  read,         \* what the slot held when it got the pointer
  since         \* records made since then

environment == <<effective_uid, process_at, started>>
action == <<apc, number, request, permission, confirmed, result, acted, exit_code>>
view == <<vpc, index, held, read>>
vars == <<environment, tui, action, reused, view, since, audit>>

Targets == Pids \cup ProcNames
NoRequest == [kind |-> "none", target |-> "none"]

TypeOK ==
  /\ AuditTypeOK
  /\ effective_uid \in Uids
  /\ process_at \in [Pids -> Processes \cup {NoProcess}]
  /\ started \subseteq Processes
  /\ tui \in BOOLEAN
  /\ apc \in {"idle", "lookup", "review", "execute", "signal", "ss", "result", "exited"}
  /\ number \in 0 .. MaxActions
  /\ request \in [kind : Kinds, target : Targets \cup {"none"}] \cup {NoRequest}
  /\ apc \in {"lookup", "review", "execute", "signal", "ss"} => request.kind \in Kinds
  /\ apc = "lookup" \/ request.kind = "kill" =>
       request.kind = "kill" /\ request.target \in Targets
  /\ apc = "signal" => request.target \in Pids
  /\ permission \in {"unknown", "allowed", "denied"}
  /\ confirmed \in BOOLEAN
  /\ result \in Statuses
  /\ acted \in BOOLEAN
  /\ reused \in BOOLEAN
  /\ exit_code \in {"none", "ok", "error", "data_unavailable"}
  /\ vpc \in {"idle", "loop", "at", "print"}
  /\ index \in 0 .. TRFX_ACTION_AUDIT_MAX
  /\ vpc \in {"at", "print"} => index \in Slots
  /\ held \in Slots
  /\ read \in Results \cup {Unused}
  /\ since \in 0 .. TRFX_ACTION_AUDIT_MAX

Init ==
  /\ AuditInit
  /\ effective_uid \in Uids
  /\ process_at \in [Pids -> Processes \cup {NoProcess}]
  /\ started = {process_at[pid] : pid \in Pids} \ {NoProcess}
  /\ \A p, q \in Pids : p # q => process_at[p] = NoProcess \/ process_at[p] # process_at[q]
  /\ tui \in BOOLEAN
  /\ apc = "idle" /\ number = 0 /\ request = NoRequest
  /\ permission = "unknown" /\ confirmed = FALSE /\ result = "invalid"
  /\ acted = FALSE /\ reused = FALSE /\ exit_code = "none"
  /\ vpc = "idle" /\ index = 0 /\ held = 0 /\ read = Unused /\ since = 0

-----------------------------------------------------------------------------
(* /proc and the kernel.                                                   *)

ProcessEnds(pid) ==
  /\ process_at[pid] # NoProcess
  /\ process_at' = [process_at EXCEPT ![pid] = NoProcess]
  /\ UNCHANGED <<effective_uid, started, tui, action, reused, view, since, audit>>

ProcessStarts(pid, process) ==
  /\ process_at[pid] = NoProcess
  /\ process \notin started
  /\ process_at' = [process_at EXCEPT ![pid] = process]
  /\ started' = started \cup {process}
  /\ reused' = (reused \/ request.target = pid)
  /\ UNCHANGED <<effective_uid, tui, action, view, since, audit>>

Found(target) == target \in ProcNames \/ process_at[target] # NoProcess

(* trfx_lookup_process_uid, of a target that is found. *)
UidOf(target) ==
  IF target \in ProcNames THEN effective_uid ELSE Owner[process_at[target]]

MaySignal(uid) == effective_uid \in {Root, uid}

-----------------------------------------------------------------------------
(* From the key or the command to the review.                              *)

Begin(kind, target, label) ==
  /\ apc = "idle"
  /\ number < MaxActions
  /\ number' = number + 1
  /\ request' = [kind |-> kind, target |-> target]
  /\ apc' = label
  /\ UNCHANGED <<environment, tui, confirmed, result, acted, reused, exit_code,
                 view, since, audit>>

(* The chooser shows numeric pids of a snapshot of /proc; on the command    *)
(* line the target is any string.                                          *)
BeginKill ==
  /\ \/ tui /\ \E pid \in Pids : process_at[pid] # NoProcess /\ Begin("kill", pid, "lookup")
     \/ ~tui /\ \E target \in Targets : Begin("kill", target, "lookup")
  /\ UNCHANGED permission

(* Mutant for PrepareReview: the target's owner is ignored. *)
PrepareReviewRootOnly(uid) ==
  permission' = IF effective_uid = Root THEN "allowed" ELSE "denied"

(* trfx_prepare_action_review. *)
PrepareReview(uid) ==
  permission' = IF MaySignal(uid) THEN "allowed" ELSE "denied"

(* A drop is reviewed as if the target belonged to root. *)
BeginDrop ==
  /\ Begin("drop", "none", "review")
  /\ PrepareReview(Root)

CliExit(code) ==
  /\ apc' = "exited"
  /\ exit_code' = code
  /\ UNCHANGED <<request, permission, confirmed, result, acted, reused>>

(* Back in the key loop; what the action kept was local to its handler. *)
BackToDashboard ==
  /\ apc' = "idle"
  /\ request' = NoRequest /\ permission' = "unknown" /\ confirmed' = FALSE
  /\ result' = "invalid" /\ acted' = FALSE /\ reused' = FALSE
  /\ UNCHANGED exit_code

(* trafix drop of a connection that is not there. *)
DropTargetNotFound ==
  /\ ~tui /\ apc = "idle"
  /\ CliExit("data_unavailable")
  /\ UNCHANGED <<environment, tui, number, view, since, audit>>

Lookup ==
  /\ apc = "lookup"
  /\ IF Found(request.target)
     THEN /\ PrepareReview(UidOf(request.target))
          /\ reused' = FALSE
          /\ apc' = "review"
          /\ UNCHANGED <<request, confirmed, result, acted, exit_code>>
     ELSE IF tui THEN BackToDashboard ELSE CliExit("data_unavailable")
  /\ UNCHANGED <<environment, tui, number, view, since, audit>>

(* The popup's Enter confirms whatever the review says.  The command line   *)
(* asks unless --yes was given, and gives up when there is no terminal.     *)
Review ==
  /\ apc = "review"
  /\ \/ /\ confirmed' \in BOOLEAN
        /\ apc' = "execute"
        /\ UNCHANGED <<request, permission, result, acted, reused, exit_code>>
     \/ ~tui /\ CliExit("error")
  /\ UNCHANGED <<environment, tui, number, view, since, audit>>

-----------------------------------------------------------------------------
(* trfx_execute_action_request.                                            *)

(* What since becomes when an entry is recorded. *)
Overtaken ==
  IF vpc = "print" /\ since < TRFX_ACTION_AUDIT_MAX THEN since + 1 ELSE since

(* Mutant for Finish: a cancelled action is not recorded. *)
FinishUnlessCancelled(status) ==
  /\ result' = status
  /\ IF status = "cancelled" THEN UNCHANGED <<audit, since>>
     ELSE /\ RecordAudit([number |-> number, kind |-> request.kind, status |-> status])
          /\ since' = Overtaken
  /\ apc' = "result"

(* finalize_action_result. *)
Finish(status) ==
  /\ result' = status
  /\ RecordAudit([number |-> number, kind |-> request.kind, status |-> status])
  /\ since' = Overtaken
  /\ apc' = "result"

Continue(label) == apc' = label /\ UNCHANGED <<result, audit, since>>

(* Mutant for Execute: nothing is looked at again. *)
ExecuteUnconfirmed ==
  /\ apc = "execute"
  /\ \/ request.kind = "kill" /\ request.target \in ProcNames /\ Finish("invalid")
     \/ request.kind = "kill" /\ request.target \in Pids /\ Continue("signal")
     \/ request.kind = "drop" /\ effective_uid # Root /\ Finish("permission_denied")
     \/ request.kind = "drop" /\ effective_uid = Root /\ Continue("ss")
  /\ UNCHANGED <<environment, tui, number, request, permission, confirmed,
                 acted, reused, exit_code, view>>

(* The owner is looked up again, whatever the review said. *)
Execute ==
  /\ apc = "execute"
  /\ \/ ~confirmed /\ Finish("cancelled")
     \/ /\ confirmed /\ request.kind = "kill"
        /\ \/ request.target \in ProcNames /\ Finish("invalid")
           \/ /\ request.target \in Pids
              /\ \/ ~Found(request.target) /\ Finish("not_found")
                 \/ /\ Found(request.target)
                    /\ IF MaySignal(UidOf(request.target))
                       THEN Continue("signal")
                       ELSE Finish("permission_denied")
     \/ /\ confirmed /\ request.kind = "drop"
        /\ IF effective_uid = Root THEN Continue("ss") ELSE Finish("permission_denied")
  /\ UNCHANGED <<environment, tui, number, request, permission, confirmed,
                 acted, reused, exit_code, view>>

(* Mutant for SignalOutcome: errno is not looked at. *)
SignalOutcomeUnchecked(pid) == {"ok"}

(* kill(2): ESRCH, EPERM, another error, or the signal is sent. *)
SignalOutcome(pid) ==
  IF process_at[pid] = NoProcess THEN {"not_found"}
  ELSE IF MaySignal(Owner[process_at[pid]]) THEN {"ok", "failed"}
  ELSE {"permission_denied"}

Signal ==
  /\ apc = "signal"
  /\ \E status \in SignalOutcome(request.target) :
       /\ acted' = (status = "ok" /\ process_at[request.target] # NoProcess)
       /\ Finish(status)
  /\ UNCHANGED <<environment, tui, number, request, permission, confirmed,
                 reused, exit_code, view>>

(* ss -K in a child, waited for: it succeeds; it is not installed; or it    *)
(* fails, cannot be started or has no endpoints to be given.                *)
RunSsDrop ==
  /\ apc = "ss"
  /\ \E status \in {"ok", "unsupported", "failed"} :
       acted' = (status = "ok") /\ Finish(status)
  /\ UNCHANGED <<environment, tui, number, request, permission, confirmed,
                 reused, exit_code, view>>

ExitCode(status) ==
  CASE status = "ok"        -> "ok"
    [] status = "not_found" -> "data_unavailable"
    [] OTHER                -> "error"

(* The result popup is closed, or the command ends. *)
Report ==
  /\ apc = "result"
  /\ IF tui THEN BackToDashboard ELSE CliExit(ExitCode(result))
  /\ UNCHANGED <<environment, tui, number, view, since, audit>>

-----------------------------------------------------------------------------
(* render_support_action_audit_view: count and at are critical sections of  *)
(* their own and the entry is read through the pointer after the second.    *)

main == <<environment, tui, action, reused, audit>>

StartView ==
  /\ tui /\ vpc = "idle"
  /\ audit_count # 0
  /\ vpc' = "loop" /\ index' = 0
  /\ UNCHANGED <<main, held, read, since>>

(* The loop also ends when the panel has no room for another line. *)
TestCount ==
  /\ vpc = "loop"
  /\ \/ index < audit_count /\ vpc' = "at" /\ UNCHANGED index
     \/ vpc' = "idle" /\ index' = 0
  /\ UNCHANGED <<main, held, read, since>>

EntryAt ==
  /\ vpc = "at"
  /\ IF index < audit_count
     THEN /\ held' = SlotAt(index) /\ read' = audit_entries[SlotAt(index)]
          /\ since' = 0
          /\ vpc' = "print" /\ UNCHANGED index
     ELSE /\ vpc' = "loop" /\ index' = index + 1
          /\ UNCHANGED <<held, read, since>>
  /\ UNCHANGED main

PrintEntry ==
  /\ vpc = "print"
  /\ vpc' = "loop" /\ index' = index + 1
  /\ held' = 0 /\ read' = Unused /\ since' = 0
  /\ UNCHANGED main

-----------------------------------------------------------------------------
Environment ==
  \E pid \in Pids :
    ProcessEnds(pid) \/ \E process \in Processes : ProcessStarts(pid, process)

Action ==
  \/ BeginKill \/ BeginDrop \/ DropTargetNotFound \/ Lookup \/ Review
  \/ Execute \/ Signal \/ RunSsDrop \/ Report

View == StartView \/ TestCount \/ EntryAt \/ PrintEntry

(* The user does nothing, or the command has ended. *)
Rest == apc \in {"idle", "exited"} /\ UNCHANGED vars

Next == Environment \/ Action \/ View \/ Rest

Spec == Init /\ [][Next]_vars

-----------------------------------------------------------------------------
(* An entry the view has a pointer to is intact until its slot's turn comes *)
(* again: the view may be overtaken by as many actions as there are slots   *)
(* older than the entry's, and not by one more.                             *)
HeldEntryIntact ==
  vpc = "print" /\ since < TRFX_ACTION_AUDIT_MAX - index =>
    audit_entries[held] = read

(* Every way through the execution leaves its outcome, cancelled and failed *)
(* actions included, as the newest entry of the trail.                      *)
ResultIsNewest ==
  apc = "result" =>
    /\ audit_count > 0
    /\ audit_entries[SlotAt(0)] =
         [number |-> number, kind |-> request.kind, status |-> result]

(* Success is reported, in the trail, to the user and by the exit code,     *)
(* exactly when the signal was sent or the connection dropped.              *)
OkMeansDone ==
  /\ apc = "result" => (result = "ok") = acted
  /\ apc = "exited" => (exit_code = "ok") = acted

(* The review and the execution check permissions separately, one from the  *)
(* owner it was given and the other from the owner it looks up or from the  *)
(* effective uid.  They agree unless the pid got a new process in between.  *)
ReviewForetells ==
  apc = "result" /\ confirmed /\ ~reused =>
    /\ permission = "denied" => result \in {"permission_denied", "not_found"}
    /\ result = "permission_denied" => permission = "denied"

(* Nothing is signalled or dropped that the user did not confirm. *)
OnlyWhenConfirmed == [][acted' /\ ~acted => confirmed]_vars
=============================================================================
