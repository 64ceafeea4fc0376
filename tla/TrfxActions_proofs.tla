------------------------- MODULE TrfxActions_proofs -------------------------
(***************************************************************************)
(* The audit ring implements the bounded log, and a pointer into it stays  *)
(* good for as long as the view may rely on it, for a ring of any size.    *)
(*                                                                         *)
(* All of the arithmetic is in SlotAtIs, which says without % where the    *)
(* entries are; RecordMovesTrail and RecordKeepsHeld follow from it.       *)
(***************************************************************************)
EXTENDS TrfxActions, TLAPS

LOCAL N == TRFX_ACTION_AUDIT_MAX

-----------------------------------------------------------------------------
(* The ring. *)

(* Reduction modulo n of a number below 2n. *)
LEMMA Wrap ==
  ASSUME NEW n \in Nat \ {0}, NEW a \in 0 .. 2 * n - 1
  PROVE  a % n = IF a < n THEN a ELSE a - n
<1>1. CASE a < n
  BY <1>1, SMT
<1>2. CASE a >= n
  BY <1>2, SMT
<1> QED BY <1>1, <1>2

(* Where an entry is: below audit_next, or in the part not yet overwritten. *)
LEMMA SlotAtIs ==
  ASSUME AuditTypeOK, NEW i \in 0 .. N - 1
  PROVE  /\ SlotAt(i) = IF i < audit_next THEN audit_next - 1 - i
                        ELSE audit_next + N - 1 - i
         /\ SlotAt(i) \in Slots
<1> DEFINE a == audit_next + N - 1 - i
<1>1. N \in Nat \ {0} /\ audit_next \in 0 .. N - 1
  BY AuditAssumption DEF AuditTypeOK, Slots, N
<1>2. a \in 0 .. 2 * N - 1
  BY <1>1
<1>3. a % N = IF a < N THEN a ELSE a - N
  BY <1>1, <1>2, Wrap
<1> QED BY <1>1, <1>3 DEF SlotAt, Slots, N

(* The slot after a record. *)
LEMMA NextSlot ==
  ASSUME AuditTypeOK
  PROVE  (audit_next + 1) % N = IF audit_next = N - 1 THEN 0 ELSE audit_next + 1
<1>1. N \in Nat \ {0} /\ audit_next \in 0 .. N - 1
  BY AuditAssumption DEF AuditTypeOK, Slots, N
<1> DEFINE a == audit_next + 1
<1>2. a \in 0 .. 2 * N - 1
  BY <1>1
<1>3. a % N = IF a < N THEN a ELSE a - N
  BY <1>1, <1>2, Wrap
<1> QED BY <1>1, <1>3

(* A record keeps the ring well formed. *)
LEMMA RecordKeepsType ==
  ASSUME AuditTypeOK, NEW r \in Results, RecordAudit(r)
  PROVE  AuditTypeOK'
<1>1. N \in Nat \ {0} /\ audit_next \in 0 .. N - 1 /\ audit_count \in 0 .. N
  BY AuditAssumption DEF AuditTypeOK, Slots, N
<1>2. audit_next' \in Slots
  BY <1>1, NextSlot DEF RecordAudit, Slots, N
<1>3. audit_count' \in 0 .. N
  BY <1>1 DEF RecordAudit, N
<1>4. audit_entries' \in [Slots -> Results \cup {Unused}]
  BY DEF RecordAudit, AuditTypeOK
<1> QED BY <1>2, <1>3, <1>4 DEF AuditTypeOK, N

(* A record makes the entry with index i the entry with index i + 1, and    *)
(* leaves all but the oldest slot alone.                                    *)
LEMMA RecordMoves ==
  ASSUME AuditTypeOK, NEW r \in Results, RecordAudit(r)
  PROVE  /\ SlotAt(0)' = audit_next
         /\ audit_entries'[audit_next] = r
         /\ \A i \in 1 .. N - 1 :
              /\ SlotAt(i)' = SlotAt(i - 1)
              /\ SlotAt(i - 1) # audit_next
              /\ audit_entries'[SlotAt(i - 1)] = audit_entries[SlotAt(i - 1)]
<1>1. N \in Nat \ {0} /\ audit_next \in 0 .. N - 1 /\ audit_count \in 0 .. N
  BY AuditAssumption DEF AuditTypeOK, Slots, N
<1>2. audit_next' = IF audit_next = N - 1 THEN 0 ELSE audit_next + 1
  BY NextSlot DEF RecordAudit, N
<1>3. AuditTypeOK'
  BY RecordKeepsType
<1>4. \A i \in 0 .. N - 1 :
         SlotAt(i)' = IF i < audit_next' THEN audit_next' - 1 - i
                      ELSE audit_next' + N - 1 - i
  <2> SUFFICES ASSUME NEW i \in 0 .. N - 1
      PROVE  SlotAt(i)' = IF i < audit_next' THEN audit_next' - 1 - i
                          ELSE audit_next' + N - 1 - i
    OBVIOUS
  <2> DEFINE a == audit_next' + N - 1 - i
  <2>1. a \in 0 .. 2 * N - 1
    BY <1>1, <1>2
  <2>2. a % N = IF a < N THEN a ELSE a - N
    BY <1>1, <2>1, Wrap
  <2> QED BY <1>1, <1>2, <2>2 DEF SlotAt, N
<1>5. audit_entries' = [audit_entries EXCEPT ![audit_next] = r]
  BY DEF RecordAudit
<1>6. audit_entries \in [Slots -> Results \cup {Unused}] /\ audit_next \in Slots
  BY DEF AuditTypeOK
<1>7. SlotAt(0)' = audit_next
  BY <1>1, <1>2, <1>4
<1>8. audit_entries'[audit_next] = r
  BY <1>5, <1>6
<1>9. ASSUME NEW i \in 1 .. N - 1
      PROVE  /\ SlotAt(i)' = SlotAt(i - 1)
             /\ SlotAt(i - 1) # audit_next
             /\ audit_entries'[SlotAt(i - 1)] = audit_entries[SlotAt(i - 1)]
  <2>1. i - 1 \in 0 .. N - 1 /\ i \in 0 .. N - 1
    BY <1>1
  <2>2. /\ SlotAt(i - 1) = IF i - 1 < audit_next THEN audit_next - 1 - (i - 1)
                           ELSE audit_next + N - 1 - (i - 1)
        /\ SlotAt(i - 1) \in Slots
    BY <2>1, SlotAtIs
  <2>3. SlotAt(i)' = SlotAt(i - 1)
    BY <1>1, <1>2, <1>4, <2>1, <2>2
  <2>4. SlotAt(i - 1) # audit_next
    BY <1>1, <2>1, <2>2
  <2> QED BY <1>5, <1>6, <2>2, <2>3, <2>4
<1> QED BY <1>7, <1>8, <1>9

-----------------------------------------------------------------------------
(* Types. *)

(* What one execution can record is a result of the ring. *)
LEMMA EntryIsResult ==
  ASSUME TypeOK, request.kind \in Kinds, NEW status \in Statuses
  PROVE  [number |-> number, kind |-> request.kind, status |-> status] \in Results
BY ActionsAssumption DEF TypeOK

(* The ways an action ends keep the types, whoever else moves. *)
LEMMA FinishKeepsType ==
  ASSUME TypeOK, request.kind \in Kinds, NEW status \in Statuses, Finish(status)
  PROVE  /\ AuditTypeOK'
         /\ result' \in Statuses
         /\ since' \in 0 .. TRFX_ACTION_AUDIT_MAX
         /\ apc' = "result"
<1>1. AuditTypeOK'
  BY EntryIsResult, RecordKeepsType DEF Finish, TypeOK
<1>2. since' \in 0 .. TRFX_ACTION_AUDIT_MAX
  BY AuditAssumption DEF TypeOK, Finish, Overtaken
<1> QED BY <1>1, <1>2 DEF Finish

(* Leaving an action for the dashboard or for the shell keeps the types. *)
LEMMA DashboardKeepsType ==
  ASSUME TypeOK, BackToDashboard, UNCHANGED <<environment, tui, number, view, since, audit>>
  PROVE  TypeOK'
<1>1. request' = NoRequest /\ NoRequest.kind = "none" /\ apc' = "idle"
  BY DEF BackToDashboard, NoRequest
<1> QED BY <1>1 DEF TypeOK, AuditTypeOK, BackToDashboard, Statuses, Kinds, environment,
    view, audit, Slots

(* The same for the end of a command. *)
LEMMA ExitKeepsType ==
  ASSUME TypeOK, NEW code \in {"ok", "error", "data_unavailable"}, CliExit(code),
         UNCHANGED <<environment, tui, number, view, since, audit>>
  PROVE  TypeOK'
BY DEF TypeOK, AuditTypeOK, CliExit, environment, view, audit, Slots

(* Every step keeps the types. *)
LEMMA StepKeepsType ==
  ASSUME TypeOK, [Next]_vars
  PROVE  TypeOK'
<1> USE ActionsAssumption, AuditAssumption
<1>1. ASSUME NEW pid \in Pids, ProcessEnds(pid)
      PROVE  TypeOK'
  BY <1>1 DEF TypeOK, AuditTypeOK, ProcessEnds, action, view, audit, Slots
<1>2. ASSUME NEW pid \in Pids, NEW process \in Processes, ProcessStarts(pid, process)
      PROVE  TypeOK'
  BY <1>2 DEF TypeOK, AuditTypeOK, ProcessStarts, action, view, audit, Slots
<1>3. CASE BeginKill
  BY <1>3 DEF TypeOK, AuditTypeOK, BeginKill, Begin, Kinds, Targets, environment,
     view, audit, Slots
<1>4. CASE BeginDrop
  BY <1>4 DEF TypeOK, AuditTypeOK, BeginDrop, Begin, PrepareReview, Kinds, Targets,
     environment, view, audit, Slots
<1>5. CASE DropTargetNotFound
  BY <1>5 DEF TypeOK, AuditTypeOK, DropTargetNotFound, CliExit, environment, view,
     audit, Slots
<1>6. CASE Lookup
  <2>1. CASE apc' = "review"
    <3>1. /\ permission' \in {"allowed", "denied"} /\ reused' = FALSE
          /\ UNCHANGED <<request, confirmed, result, acted, exit_code>>
          /\ UNCHANGED <<environment, tui, number, view, since, audit>>
      BY <1>6, <2>1 DEF Lookup, CliExit, BackToDashboard, PrepareReview
    <3>2. request.kind = "kill" /\ request.target \in Targets
      BY <1>6 DEF TypeOK, Lookup
    <3>3. AuditTypeOK'
      BY <3>1 DEF TypeOK, AuditTypeOK, audit, Slots
    <3>4. request' \in [kind : Kinds, target : Targets \cup {"none"}] \cup {NoRequest}
      BY <3>1 DEF TypeOK, NoRequest
    <3>5. request'.kind = "kill" /\ request'.target \in Targets /\ "kill" \in Kinds
      BY <3>1, <3>2 DEF Kinds
    <3>6. UNCHANGED <<effective_uid, process_at, started, tui, number, confirmed, result,
                      acted, exit_code, vpc, index, held, read, since>>
      BY <3>1 DEF environment, view
    <3>7. reused' \in BOOLEAN /\ permission' \in {"unknown", "allowed", "denied"}
      BY <3>1
    <3> QED BY <2>1, <3>3, <3>4, <3>5, <3>6, <3>7 DEF TypeOK
  <2>2. CASE BackToDashboard
    BY <1>6, <2>2, DashboardKeepsType DEF Lookup, view, audit
  <2>3. CASE CliExit("data_unavailable")
    BY <1>6, <2>3, ExitKeepsType DEF Lookup, view, audit
  <2> QED BY <1>6, <2>1, <2>2, <2>3 DEF Lookup
<1>7. CASE Review
  BY <1>7 DEF TypeOK, AuditTypeOK, Review, CliExit, environment, view, audit, Slots
<1>8. CASE Execute
  <2>1. request.kind \in Kinds
    BY <1>8 DEF TypeOK, Execute
  <2>2. ASSUME NEW status \in Statuses, Finish(status)
        PROVE  TypeOK'
    BY <1>8, <2>1, <2>2, FinishKeepsType
    DEF TypeOK, Execute, environment, view, Kinds
  <2>3. ASSUME Continue("signal"), request.kind = "kill", request.target \in Pids
        PROVE  TypeOK'
    BY <1>8, <2>1, <2>3
    DEF TypeOK, AuditTypeOK, Execute, Continue, environment, view, audit, Kinds, Slots, Targets
  <2>4. ASSUME Continue("ss"), request.kind = "drop"
        PROVE  TypeOK'
    BY <1>8, <2>1, <2>4
    DEF TypeOK, AuditTypeOK, Execute, Continue, environment, view, audit, Kinds, Slots
  <2> QED BY <1>8, <2>2, <2>3, <2>4 DEF Execute, Statuses
<1>9. CASE Signal
  <2>1. request.kind \in Kinds
    BY <1>9 DEF TypeOK, Signal
  <2>2. PICK status \in Statuses : Finish(status)
    BY <1>9 DEF Signal, SignalOutcome, Statuses
  <2> QED BY <1>9, <2>1, <2>2, FinishKeepsType
      DEF TypeOK, Signal, environment, view
<1>10. CASE RunSsDrop
  <2>1. request.kind \in Kinds
    BY <1>10 DEF TypeOK, RunSsDrop
  <2>2. PICK status \in Statuses : Finish(status)
    BY <1>10 DEF RunSsDrop, Statuses
  <2> QED BY <1>10, <2>1, <2>2, FinishKeepsType
      DEF TypeOK, RunSsDrop, environment, view
<1>11. CASE Report
  <2>1. CASE BackToDashboard
    BY <1>11, <2>1, DashboardKeepsType DEF Report, view, audit
  <2>2. CASE CliExit(ExitCode(result))
    <3>1. ExitCode(result) \in {"ok", "error", "data_unavailable"}
      BY DEF ExitCode
    <3> QED BY <1>11, <2>2, <3>1, ExitKeepsType DEF Report, view, audit
  <2> QED BY <1>11, <2>1, <2>2 DEF Report
<1>12. CASE View
  <2>1. audit_count \in 0 .. TRFX_ACTION_AUDIT_MAX /\ index \in 0 .. TRFX_ACTION_AUDIT_MAX
    BY DEF TypeOK, AuditTypeOK
  <2>2. CASE StartView
    BY <1>12, <2>2 DEF TypeOK, AuditTypeOK, StartView, main, environment, action,
       audit, Slots
  <2>3. CASE TestCount
    BY <1>12, <2>3 DEF TypeOK, AuditTypeOK, TestCount, main, environment, action,
       audit, Slots
  <2>4. CASE EntryAt /\ index < audit_count
    <3>1. index \in 0 .. TRFX_ACTION_AUDIT_MAX - 1
      BY <2>1, <2>4
    <3>2. SlotAt(index) \in Slots
      BY <3>1, SlotAtIs DEF TypeOK, N
    <3> QED BY <2>4, <3>2 DEF TypeOK, AuditTypeOK, EntryAt, main, environment,
        action, audit, Slots
  <2>5. CASE EntryAt /\ ~(index < audit_count)
    BY <2>1, <2>5 DEF TypeOK, AuditTypeOK, EntryAt, main, environment, action,
       audit, Slots
  <2>6. CASE PrintEntry
    BY <2>1, <2>6 DEF TypeOK, AuditTypeOK, PrintEntry, main, environment, action,
       audit, Slots
  <2> QED BY <1>12, <2>2, <2>3, <2>4, <2>5, <2>6 DEF View
<1>13. CASE UNCHANGED vars
  BY <1>13 DEF TypeOK, AuditTypeOK, vars, environment, action, view, audit, Slots
<1> QED
  BY <1>1, <1>2, <1>3, <1>4, <1>5, <1>6, <1>7, <1>8, <1>9, <1>10, <1>11, <1>12, <1>13
  DEF Next, Environment, Action, Rest

(* In every behaviour every variable keeps its type: the ring never has     *)
(* more entries than slots, and whatever is recorded or signalled has a     *)
(* target.                                                                  *)
THEOREM ActionsTypes == Spec => []TypeOK
<1>1. Init => TypeOK
  <2> SUFFICES ASSUME Init PROVE TypeOK
    OBVIOUS
  <2>1. AuditTypeOK
    BY AuditAssumption DEF Init, AuditInit, AuditTypeOK, Slots
  <2>2. started \subseteq Processes
    BY DEF Init
  <2>3. /\ effective_uid \in Uids /\ tui \in BOOLEAN
        /\ process_at \in [Pids -> Processes \cup {NoProcess}]
        /\ apc = "idle" /\ number = 0 /\ request = NoRequest
        /\ permission = "unknown" /\ confirmed = FALSE /\ result = "invalid"
        /\ acted = FALSE /\ reused = FALSE /\ exit_code = "none"
        /\ vpc = "idle" /\ index = 0 /\ held = 0 /\ read = Unused /\ since = 0
    BY DEF Init
  <2>4. request.kind = "none"
    BY <2>3 DEF NoRequest
  <2>5. 0 \in Slots /\ 0 \in 0 .. MaxActions /\ 0 \in 0 .. TRFX_ACTION_AUDIT_MAX
    BY AuditAssumption, ActionsAssumption DEF Slots
  <2> QED BY <2>1, <2>2, <2>3, <2>4, <2>5 DEF TypeOK, Statuses
<1>2. TypeOK /\ [Next]_vars => TypeOK'
  BY StepKeepsType
<1> QED BY <1>1, <1>2, PTL DEF Spec

-----------------------------------------------------------------------------
(* The ring implements the log. *)

(* A step of the program records one result or leaves the ring alone. *)
LEMMA StepRecords ==
  ASSUME TypeOK, [Next]_vars
  PROVE  \/ \E r \in Results : RecordAudit(r)
         \/ UNCHANGED audit
<1>1. ASSUME NEW status \in Statuses, Finish(status), request.kind \in Kinds
      PROVE  \E r \in Results : RecordAudit(r)
  BY <1>1, EntryIsResult DEF Finish
<1>2. CASE Execute
  BY <1>1, <1>2 DEF Execute, Continue, TypeOK, Statuses
<1>3. CASE Signal
  BY <1>1, <1>3 DEF Signal, SignalOutcome, TypeOK, Statuses
<1>4. CASE RunSsDrop
  BY <1>1, <1>4 DEF RunSsDrop, TypeOK, Statuses
<1>5. CASE BeginKill \/ BeginDrop \/ DropTargetNotFound \/ Lookup \/ Review \/ Report
  BY <1>5 DEF BeginKill, BeginDrop, Begin, DropTargetNotFound, Lookup, Review, Report
<1>6. CASE View
  BY <1>6 DEF View, StartView, TestCount, EntryAt, PrintEntry, main
<1>7. CASE Environment \/ UNCHANGED vars
  BY <1>7 DEF Environment, ProcessEnds, ProcessStarts, vars
<1> QED BY <1>2, <1>3, <1>4, <1>5, <1>6, <1>7 DEF Next, Action, Rest

(* The log the ring stands for has as many entries as the ring. *)
LEMMA TrailLength ==
  ASSUME AuditTypeOK
  PROVE  Len(Trail) = audit_count /\ DOMAIN Trail = 1 .. audit_count
<1>1. audit_count \in Nat
  BY AuditAssumption DEF AuditTypeOK
<1> QED BY <1>1 DEF Trail

(* Recording a result in the ring puts it in front of the log. *)
LEMMA RecordAppends ==
  ASSUME AuditTypeOK, NEW r \in Results, RecordAudit(r)
  PROVE  Log!Append1(r)
<1>1. /\ N \in Nat \ {0} /\ audit_count \in 0 .. N
      /\ audit_count' = Log!Shorter(N, audit_count + 1)
  BY AuditAssumption DEF AuditTypeOK, RecordAudit, Log!Shorter, N
<1>2. Trail' = [i \in 1 .. audit_count' |-> audit_entries'[SlotAt(i - 1)']]
  BY DEF Trail
<1>3. ASSUME NEW i \in 1 .. audit_count'
      PROVE  audit_entries'[SlotAt(i - 1)'] = IF i = 1 THEN r ELSE Trail[i - 1]
  <2>1. CASE i = 1
    BY <2>1, RecordMoves
  <2>2. CASE i # 1
    <3>1. i - 1 \in 1 .. N - 1 /\ i - 1 \in 1 .. audit_count
      BY <1>1, <2>2 DEF Log!Shorter
    <3>2. audit_entries'[SlotAt(i - 1)'] = audit_entries[SlotAt((i - 1) - 1)]
      BY <3>1, RecordMoves
    <3> QED BY <2>2, <3>1, <3>2 DEF Trail
  <2> QED BY <2>1, <2>2
<1>4. Log!Shorter(N, Len(Trail) + 1) = audit_count'
  BY <1>1, TrailLength
<1> QED BY <1>2, <1>3, <1>4 DEF Log!Append1, N

(* The audit ring implements the bounded log for every number of slots: as  *)
(* many of the latest results as fit, newest first, through any number of   *)
(* wrap-arounds.                                                            *)
THEOREM TrailIsLog == Spec => AuditIsLog
<1>1. Init => Log!Init
  BY DEF Init, AuditInit, Trail, Log!Init
<1>2. TypeOK /\ [Next]_vars => [Log!Next]_Trail
  <2> SUFFICES ASSUME TypeOK, [Next]_vars
      PROVE  Log!Next \/ UNCHANGED Trail
    OBVIOUS
  <2>1. CASE \E r \in Results : RecordAudit(r)
    BY <2>1, RecordAppends DEF TypeOK, Log!Next
  <2>2. CASE UNCHANGED audit
    BY <2>2 DEF audit, Trail, SlotAt
  <2> QED BY <2>1, <2>2, StepRecords
<1> QED BY <1>1, <1>2, ActionsTypes, PTL DEF Spec, AuditIsLog, Log!Spec

-----------------------------------------------------------------------------
(* The view's pointer.                                                     *)

(* The inductive invariant: the entry the view points to has moved back in  *)
(* the trail by one index for every record made since.                      *)
HeldInv ==
  vpc = "print" /\ since < TRFX_ACTION_AUDIT_MAX - index =>
    /\ held = SlotAt(index + since)
    /\ audit_entries[held] = read

(* The main thread's records leave the pointed-to entry alone until its     *)
(* slot is the oldest.                                                      *)
LEMMA RecordKeepsHeld ==
  ASSUME TypeOK, HeldInv, NEW r \in Results, RecordAudit(r),
         since' = Overtaken, UNCHANGED view
  PROVE  HeldInv'
<1>1. CASE vpc # "print"
  BY <1>1 DEF HeldInv, view
<1>2. /\ N \in Nat \ {0} /\ since \in 0 .. N /\ AuditTypeOK
      /\ vpc = "print" => index \in 0 .. N - 1
  BY AuditAssumption DEF TypeOK, N, Slots
<1>3. CASE vpc = "print" /\ since >= N - 1 - index
  <2>1. since' \in Nat /\ since' >= N - index
    BY <1>2, <1>3 DEF Overtaken, N
  <2> QED BY <1>2, <1>3, <2>1 DEF HeldInv, N, view
<1>4. CASE vpc = "print" /\ since < N - 1 - index
  <2>1. since' = since + 1
    BY <1>2, <1>4 DEF Overtaken, N
  <2>2. PICK i \in 1 .. N - 1 : i = index + since + 1
    BY <1>2, <1>4
  <2>3. i - 1 = index + since /\ index' + since' = i
    BY <1>2, <1>4, <2>1, <2>2 DEF view
  <2>4. held = SlotAt(i - 1) /\ audit_entries[held] = read
    BY <1>2, <1>4, <2>3 DEF HeldInv, N
  <2>5. SlotAt(i)' = SlotAt(i - 1)
        /\ audit_entries'[SlotAt(i - 1)] = audit_entries[SlotAt(i - 1)]
    BY <1>2, RecordMoves
  <2>6. held' = SlotAt(i)' /\ audit_entries'[held'] = read'
    BY <2>4, <2>5 DEF view
  <2> QED BY <2>3, <2>6 DEF HeldInv, SlotAt
<1> QED BY <1>1, <1>2, <1>3, <1>4

(* What the view prints is what trfx_action_audit_at returned, as long as   *)
(* fewer actions have finished since than there are slots older than it:    *)
(* with MAX slots the newest entry survives MAX - 1 of them, and the oldest *)
(* none.                                                                    *)
THEOREM HeldEntryStaysIntact == Spec => []HeldEntryIntact
<1>1. Init => HeldInv
  BY DEF Init, HeldInv
<1>2. TypeOK /\ HeldInv /\ [Next]_vars => HeldInv'
  <2> SUFFICES ASSUME TypeOK, HeldInv, [Next]_vars
      PROVE  HeldInv'
    OBVIOUS
  <2>1. ASSUME NEW status \in Statuses, Finish(status), UNCHANGED view,
               request.kind \in Kinds
        PROVE  HeldInv'
    BY <2>1, EntryIsResult, RecordKeepsHeld DEF Finish
  <2>2. ASSUME UNCHANGED <<audit, view, since>>
        PROVE  HeldInv'
    BY <2>2 DEF HeldInv, SlotAt, audit, view
  <2>3. CASE Execute
    BY <2>1, <2>2, <2>3 DEF Execute, Continue, TypeOK, Statuses
  <2>4. CASE Signal
    BY <2>1, <2>4 DEF Signal, SignalOutcome, TypeOK, Statuses
  <2>5. CASE RunSsDrop
    BY <2>1, <2>5 DEF RunSsDrop, TypeOK, Statuses
  <2>6. CASE EntryAt
    <3>1. index \in Nat
      BY <2>6 DEF TypeOK, EntryAt, Slots
    <3> QED BY <2>6, <3>1 DEF EntryAt, HeldInv, SlotAt, main, audit
  <2>7. CASE StartView \/ TestCount \/ PrintEntry
    BY <2>7 DEF StartView, TestCount, PrintEntry, HeldInv
  <2>8. CASE BeginKill \/ BeginDrop \/ DropTargetNotFound \/ Lookup \/ Review \/ Report
    BY <2>2, <2>8 DEF BeginKill, BeginDrop, Begin, DropTargetNotFound, Lookup,
       Review, Report
  <2>9. CASE Environment \/ UNCHANGED vars
    BY <2>2, <2>9 DEF Environment, ProcessEnds, ProcessStarts, vars
  <2> QED
    BY <2>3, <2>4, <2>5, <2>6, <2>7, <2>8, <2>9 DEF Next, Action, View, Rest
<1>3. HeldInv => HeldEntryIntact
  BY DEF HeldInv, HeldEntryIntact
<1> QED BY <1>1, <1>2, <1>3, ActionsTypes, PTL DEF Spec

-----------------------------------------------------------------------------
(* Confirmation.                                                           *)

(* While an action is past its confirmation test, it was confirmed. *)
ConfirmedInv == apc \in {"signal", "ss"} => confirmed

(* No signal is sent and no connection dropped without a confirmation,      *)
(* whatever the permissions, the processes and the order of the looks at    *)
(* /proc.                                                                   *)
THEOREM ActsOnlyWhenConfirmed == Spec => OnlyWhenConfirmed
<1>1. Init => ConfirmedInv
  BY DEF Init, ConfirmedInv
<1>2. TypeOK /\ ConfirmedInv /\ [Next]_vars =>
        ConfirmedInv' /\ (acted' /\ ~acted => confirmed)
  <2> SUFFICES ASSUME TypeOK, ConfirmedInv, [Next]_vars
      PROVE  ConfirmedInv' /\ (acted' /\ ~acted => confirmed)
    OBVIOUS
  <2>1. CASE Execute
    BY <2>1 DEF Execute, Finish, Continue, ConfirmedInv
  <2>2. CASE Signal \/ RunSsDrop
    BY <2>2 DEF Signal, RunSsDrop, Finish, ConfirmedInv
  <2>3. CASE BeginKill \/ BeginDrop \/ DropTargetNotFound
    BY <2>3 DEF BeginKill, BeginDrop, Begin, DropTargetNotFound, CliExit, ConfirmedInv
  <2>4. CASE Lookup \/ Review \/ Report
    BY <2>4 DEF Lookup, Review, Report, CliExit, BackToDashboard, ConfirmedInv
  <2>5. CASE View
    BY <2>5 DEF View, StartView, TestCount, EntryAt, PrintEntry, main, action, ConfirmedInv
  <2>6. CASE Environment \/ UNCHANGED vars
    BY <2>6 DEF Environment, ProcessEnds, ProcessStarts, vars, action, ConfirmedInv
  <2> QED BY <2>1, <2>2, <2>3, <2>4, <2>5, <2>6 DEF Next, Action, Rest
<1> QED BY <1>1, <1>2, ActionsTypes, PTL DEF Spec, OnlyWhenConfirmed

-----------------------------------------------------------------------------
(* Outcomes.                                                               *)

(* Nothing is done before the outcome is known, and only commands exit. *)
OutcomeInv ==
  /\ apc \notin {"result", "exited"} => ~acted
  /\ apc = "exited" => ~tui
  /\ OkMeansDone

LEMMA StepKeepsOutcome ==
  ASSUME TypeOK, OutcomeInv, [Next]_vars
  PROVE  OutcomeInv'
<1>. USE DEF OutcomeInv, OkMeansDone
<1>0. acted \in BOOLEAN
  BY DEF TypeOK
<1>1. CASE Execute
  BY <1>1 DEF Execute, Finish, Continue, TypeOK
<1>2. CASE Signal
  <2>1. PICK status \in SignalOutcome(request.target) :
          /\ acted' = (status = "ok" /\ process_at[request.target] # NoProcess)
          /\ result' = status /\ apc' = "result"
    BY <1>2 DEF Signal, Finish
  <2>2. status = "ok" => process_at[request.target] # NoProcess
    BY <2>1 DEF SignalOutcome
  <2>. QED BY <2>1, <2>2
<1>3. CASE RunSsDrop
  BY <1>3 DEF RunSsDrop, Finish
<1>4. CASE BeginKill \/ BeginDrop \/ DropTargetNotFound
  BY <1>0, <1>4 DEF BeginKill, BeginDrop, Begin, DropTargetNotFound, CliExit
<1>5. CASE Lookup \/ Review
  BY <1>0, <1>5 DEF Lookup, Review, CliExit, BackToDashboard
<1>6. CASE Report
  BY <1>0, <1>6 DEF Report, CliExit, BackToDashboard, ExitCode
<1>7. CASE View
  BY <1>7 DEF View, StartView, TestCount, EntryAt, PrintEntry, main, action
<1>8. CASE Environment \/ UNCHANGED vars
  BY <1>8 DEF Environment, ProcessEnds, ProcessStarts, vars, action
<1> QED BY <1>1, <1>2, <1>3, <1>4, <1>5, <1>6, <1>7, <1>8 DEF Next, Action, Rest

(* Success is reported exactly when the signal was sent or the connection   *)
(* dropped, also when the process ends between the last look and the kill.  *)
LEMMA OutcomeInvariant == Spec => []OutcomeInv
<1>1. Init => OutcomeInv
  BY DEF Init, OutcomeInv, OkMeansDone
<1>2. TypeOK /\ OutcomeInv /\ [Next]_vars => OutcomeInv'
  BY StepKeepsOutcome
<1> QED BY <1>1, <1>2, ActionsTypes, PTL DEF Spec

-----------------------------------------------------------------------------
(* Every execution ends in the trail.                                      *)

(* Whatever the outcome of an execution is, it is the newest entry of the   *)
(* audit trail when it is reported.                                         *)
THEOREM ResultIsRecorded == Spec => []ResultIsNewest
<1>1. Init => ResultIsNewest
  BY DEF Init, ResultIsNewest
<1>2. TypeOK /\ ResultIsNewest /\ [Next]_vars => ResultIsNewest'
  <2> SUFFICES ASSUME TypeOK, ResultIsNewest, [Next]_vars
      PROVE  ResultIsNewest'
    OBVIOUS
  <2>1. ASSUME NEW status \in Statuses, Finish(status), request.kind \in Kinds,
               UNCHANGED <<number, request>>
        PROVE  ResultIsNewest'
    <3>1. PICK r \in Results :
            /\ r = [number |-> number, kind |-> request.kind, status |-> status]
            /\ RecordAudit(r)
      BY <2>1, EntryIsResult DEF Finish
    <3>2. audit_entries'[SlotAt(0)'] = r
      BY <3>1, RecordMoves DEF TypeOK
    <3>3. audit_count' > 0
      BY <3>1, AuditAssumption DEF RecordAudit, TypeOK, AuditTypeOK
    <3>. QED BY <2>1, <3>1, <3>2, <3>3 DEF ResultIsNewest, Finish
  <2>2. ASSUME apc' # "result" PROVE ResultIsNewest'
    BY <2>2 DEF ResultIsNewest
  <2>3. CASE Execute
    BY <2>1, <2>2, <2>3 DEF Execute, Continue, TypeOK, Statuses
  <2>4. CASE Signal
    BY <2>1, <2>4 DEF Signal, SignalOutcome, TypeOK, Statuses
  <2>5. CASE RunSsDrop
    BY <2>1, <2>5 DEF RunSsDrop, TypeOK, Statuses
  <2>6. CASE BeginKill \/ BeginDrop \/ DropTargetNotFound \/ Lookup \/ Review \/ Report
    BY <2>2, <2>6 DEF BeginKill, BeginDrop, Begin, DropTargetNotFound, Lookup,
       Review, Report, CliExit, BackToDashboard
  <2>7. CASE UNCHANGED <<action, audit>>
    BY <2>7 DEF ResultIsNewest, action, audit, SlotAt
  <2>8. CASE View
    BY <2>7, <2>8 DEF View, StartView, TestCount, EntryAt, PrintEntry, main
  <2>9. CASE Environment \/ UNCHANGED vars
    BY <2>7, <2>9 DEF Environment, ProcessEnds, ProcessStarts, vars
  <2> QED
    BY <2>3, <2>4, <2>5, <2>6, <2>8, <2>9 DEF Next, Action, Rest
<1> QED BY <1>1, <1>2, ActionsTypes, PTL DEF Spec

-----------------------------------------------------------------------------
(* The review.                                                             *)

(* Until the pid is given to another process, what the review said is what  *)
(* would be said of the process that the target names, if it names one.     *)
ReviewStands ==
  ~reused =>
    /\ apc \in {"review", "execute", "ss"} /\ request.kind = "drop" =>
         permission = IF effective_uid = Root THEN "allowed" ELSE "denied"
    /\ apc \in {"review", "execute", "signal"} /\ request.kind = "kill" =>
         /\ request.target \in ProcNames => permission = "allowed"
         /\ request.target \in Pids /\ process_at[request.target] # NoProcess =>
              permission = IF MaySignal(Owner[process_at[request.target]])
                           THEN "allowed" ELSE "denied"
    /\ apc = "ss" => permission = "allowed"

(* Only a kill sends a signal, and it is never a drop's target. *)
SignalIsForKill == apc = "signal" => request.kind = "kill"

ReviewInv == SignalIsForKill /\ ReviewStands /\ ReviewForetells

LEMMA StepKeepsReview ==
  ASSUME TypeOK, ReviewInv, [Next]_vars
  PROVE  ReviewInv'
<1>. USE DEF ReviewInv, SignalIsForKill, ReviewStands, ReviewForetells
<1>1. CASE Execute
  <2>1. CASE ~confirmed
    BY <1>1, <2>1 DEF Execute, Finish
  <2>2. CASE confirmed /\ request.kind = "kill"
    <3>1. CASE request.target \in ProcNames
      BY <1>1, <2>2, <3>1, ActionsAssumption
      DEF Execute, Finish, environment
    <3>2. CASE request.target \in Pids
      BY <1>1, <2>2, <3>2, ActionsAssumption
      DEF Execute, Finish, Continue, Found, UidOf, MaySignal, environment
    <3>. QED BY <2>2, <3>1, <3>2 DEF TypeOK, Targets
  <2>3. CASE confirmed /\ request.kind = "drop"
    BY <1>1, <2>3 DEF Execute, Finish, Continue, environment
  <2>. QED BY <1>1, <2>1, <2>2, <2>3 DEF Execute
<1>2. CASE Signal
  <2>1. PICK status \in SignalOutcome(request.target) : Finish(status)
    BY <1>2 DEF Signal
  <2>2. request.target \in Pids /\ request.kind = "kill"
    BY <1>2 DEF Signal, TypeOK, SignalIsForKill
  <2>. QED BY <1>2, <2>1, <2>2 DEF Signal, Finish, SignalOutcome
<1>3. CASE RunSsDrop
  BY <1>3 DEF RunSsDrop, Finish
<1>4. CASE BeginKill \/ DropTargetNotFound
  BY <1>4 DEF BeginKill, Begin, DropTargetNotFound, CliExit
<1>5. CASE BeginDrop
  BY <1>5 DEF BeginDrop, Begin, PrepareReview, MaySignal, environment
<1>6. CASE Lookup
  <2>1. request.kind = "kill" /\ request.target \in Targets
    BY <1>6 DEF Lookup, TypeOK
  <2>2. CASE Found(request.target)
    <3>1. CASE request.target \in ProcNames
      BY <1>6, <2>1, <2>2, <3>1, ActionsAssumption
      DEF Lookup, PrepareReview, UidOf, MaySignal, environment
    <3>2. CASE request.target \notin ProcNames
      BY <1>6, <2>1, <2>2, <3>2
      DEF Lookup, PrepareReview, UidOf, MaySignal, environment
    <3>. QED BY <3>1, <3>2
  <2>3. CASE ~Found(request.target)
    BY <1>6, <2>3 DEF Lookup, CliExit, BackToDashboard
  <2>. QED BY <2>2, <2>3
<1>7. CASE Review
  BY <1>7 DEF Review, CliExit, MaySignal, environment
<1>8. CASE Report
  BY <1>8 DEF Report, CliExit, BackToDashboard
<1>9. CASE View
  BY <1>9 DEF View, StartView, TestCount, EntryAt, PrintEntry, main, action, environment,
              MaySignal
<1>10. ASSUME NEW pid \in Pids, ProcessEnds(pid) PROVE ReviewInv'
  BY <1>10 DEF ProcessEnds, action, MaySignal, TypeOK
<1>11. ASSUME NEW pid \in Pids, NEW process \in Processes, ProcessStarts(pid, process)
       PROVE  ReviewInv'
  BY <1>11 DEF ProcessStarts, action, MaySignal, TypeOK
<1>12. CASE UNCHANGED vars
  BY <1>12 DEF vars, environment, action, MaySignal
<1> QED BY <1>1, <1>2, <1>3, <1>4, <1>5, <1>6, <1>7, <1>8, <1>9, <1>10, <1>11, <1>12
    DEF Next, Action, Environment, Rest

(* The review never says the opposite of what the execution then finds,     *)
(* unless the pid has been given to another process in between.             *)
THEOREM ReviewIsHonest == Spec => []ReviewForetells
<1>1. Init => ReviewInv
  BY DEF Init, ReviewInv, SignalIsForKill, ReviewStands, ReviewForetells
<1>2. TypeOK /\ ReviewInv /\ [Next]_vars => ReviewInv'
  BY StepKeepsReview
<1>3. ReviewInv => ReviewForetells
  BY DEF ReviewInv
<1> QED BY <1>1, <1>2, <1>3, ActionsTypes, PTL DEF Spec
=============================================================================
