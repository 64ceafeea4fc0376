------------------------------ MODULE TrfxAudit ------------------------------
(***************************************************************************)
(* The audit ring of src/trfx_actions.c: an array, the next slot and the   *)
(* number of slots in use, each operation one critical section of          *)
(* audit_mutex.                                                            *)
(***************************************************************************)
EXTENDS Naturals, Sequences

CONSTANTS
  TRFX_ACTION_AUDIT_MAX,
  Results,   \* what an entry records
  Unused     \* a slot never written

ASSUME AuditAssumption ==
  /\ TRFX_ACTION_AUDIT_MAX \in Nat \ {0}
  /\ Unused \notin Results

VARIABLES audit_entries, audit_count, audit_next

audit == <<audit_entries, audit_count, audit_next>>

Slots == 0 .. TRFX_ACTION_AUDIT_MAX - 1

AuditTypeOK ==
  /\ audit_entries \in [Slots -> Results \cup {Unused}]
  /\ audit_count \in 0 .. TRFX_ACTION_AUDIT_MAX
  /\ audit_next \in Slots

AuditInit ==
  /\ audit_entries = [slot \in Slots |-> Unused]
  /\ audit_count = 0
  /\ audit_next = 0

(* Mutant for RecordAudit: the count may run past the array. *)
RecordAuditUncapped(result) ==
  /\ audit_entries' = [audit_entries EXCEPT ![audit_next] = result]
  /\ audit_next' = (audit_next + 1) % TRFX_ACTION_AUDIT_MAX
  /\ audit_count' = audit_count + 1

RecordAudit(result) ==
  /\ audit_entries' = [audit_entries EXCEPT ![audit_next] = result]
  /\ audit_next' = (audit_next + 1) % TRFX_ACTION_AUDIT_MAX
  /\ audit_count' = IF audit_count < TRFX_ACTION_AUDIT_MAX
                    THEN audit_count + 1 ELSE audit_count

(* Mutant for SlotAt: the newest entry is taken to be in the next slot. *)
SlotAtOffByOne(index) ==
  (audit_next + TRFX_ACTION_AUDIT_MAX - index) % TRFX_ACTION_AUDIT_MAX

(* Where trfx_action_audit_at finds the entry with this index, 0 the newest. *)
SlotAt(index) ==
  (audit_next + TRFX_ACTION_AUDIT_MAX - 1 - index) % TRFX_ACTION_AUDIT_MAX

Trail == [i \in 1 .. audit_count |-> audit_entries[SlotAt(i - 1)]]

Log == INSTANCE TrfxAuditLog WITH
  Bound <- TRFX_ACTION_AUDIT_MAX,
  log   <- Trail

(* The ring is the bounded log, also while it wraps around.  It is what    *)
(* trfx_action_audit_count and trfx_action_audit_at are specified by.      *)
AuditIsLog == Log!Spec
=============================================================================
