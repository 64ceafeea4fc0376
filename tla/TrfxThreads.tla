----------------------------- MODULE TrfxThreads -----------------------------
(***************************************************************************)
(* The worker threads of the dashboard (src/trfx_threads.c).  One thread   *)
(* per top panel ("static"), one for the module shown in the primary pane  *)
(* and one for the support column ("dynamic").  Each repeats: test the     *)
(* stop flags, test the pause flag, collect a sample (slow, no lock held), *)
(* paint its window under ncurses_mutex, wait for the refresh interval.    *)
(*                                                                         *)
(* The flags are tested and the window is painted in different steps, so   *)
(* everything the main thread does can fall between them.                  *)
(*                                                                         *)
(* Data is abstracted to what a refresh request tells apart: a top panel's *)
(* sample or picture is "new" when collected after the latest request,     *)
(* "old" when before it, and "nothing" when there is none: a panel with only *)
(* its frame.                                                              *)
(* The dynamic panes answer no request of this module, so nothing is kept  *)
(* of what they show.                                                      *)
(***************************************************************************)
EXTENDS TrfxRuntime, TrfxLayout

CONSTANTS
  CollectsUnderLock,  \* static panels that collect inside ncurses_mutex (memory)
  TwoPhaseModules,    \* modules that clear, collect and paint in two critical sections
  OnePhaseModules,    \* modules that collect, then clear and paint in one
  NoModule            \* module_index = -1

Primary  == "primary"
Support  == "support"
NoThread == "none"

Dynamic == {Primary, Support}
Threads == StaticModules \cup Dynamic
Modules == TwoPhaseModules \cup OnePhaseModules

ASSUME ThreadAssumption ==
  /\ Dynamic \cap StaticModules = {}
  /\ NoThread \notin StaticModules
  /\ CollectsUnderLock \subseteq StaticModules
  /\ TwoPhaseModules \cap OnePhaseModules = {}
  /\ NoModule \notin Modules

VARIABLES
  pc,               \* where each worker is
  ncurses_mutex,    \* the worker inside the mutex, or NoThread
  local_stop,       \* the stop flag each dynamic thread was given
  module_index,     \* the module of the primary slot
  SHOW_TOP_PANELS,  \* the global the t key flips; read by workers without a lock
  frame,            \* the size and top row the windows were last laid out for
  seen_height,      \* the height a two-phase module read in its first section, or 0
  sample,           \* what each top panel's worker has collected and not yet painted
  shown             \* what each top panel shows

workers == <<pc, ncurses_mutex, seen_height, sample, shown>>
shared  == <<local_stop, module_index, SHOW_TOP_PANELS, frame>>

Data == {"nothing", "old", "new"}

Labels == {"none", "wait_ready", "loop", "check_paused", "check_show", "sleep",
           "clear", "clearing", "collect", "draw", "drawing", "wait", "exited"}

(* A thread that pthread_create started and that has not returned: it may  *)
(* still touch its window.  InCurses: it is doing so now.                  *)
Running(t) == pc[t] \notin {"none", "exited"}

InCurses(t) == pc[t] \in {"clearing", "drawing"}

ThreadsTypeOK ==
  /\ pc \in [Threads -> Labels]
  /\ ncurses_mutex \in Threads \cup {NoThread}
  /\ local_stop \in [Dynamic -> BOOLEAN]
  /\ module_index \in Modules \cup {NoModule}
  /\ SHOW_TOP_PANELS \in BOOLEAN
  /\ frame \in [h : Nat, w : Nat, show : BOOLEAN]
  /\ seen_height \in Nat
  /\ sample \in [StaticModules -> Data]
  /\ shown \in [StaticModules -> Data]

ThreadsInit ==
  /\ pc = [t \in Threads |-> "none"]
  /\ ncurses_mutex = NoThread
  /\ local_stop = [t \in Dynamic |-> FALSE]
  /\ module_index = NoModule
  /\ seen_height = 0
  /\ sample = [m \in StaticModules |-> "nothing"]
  /\ shown = [m \in StaticModules |-> "nothing"]

(* What a request for fresh data makes of data already collected or painted. *)
Outdate(f) == [m \in StaticModules |-> IF f[m] = "new" THEN "old" ELSE f[m]]

(* f with thread t's entry set; t has none unless it is a static thread.   *)
Record(f, t, value) == [m \in StaticModules |-> IF m = t THEN value ELSE f[m]]

-----------------------------------------------------------------------------
(* The steps of a worker.                                                  *)

Goto(t, from, to) ==
  /\ pc[t] = from
  /\ pc' = [pc EXCEPT ![t] = to]

(* Mutants for ShouldStop: one flag is forgotten. *)
ShouldStopLocalOnly(t)  == t \in Dynamic /\ local_stop[t]
ShouldStopGlobalOnly(t) == t \in Threads /\ stop_requested

ShouldStop(t) == stop_requested \/ (t \in Dynamic /\ local_stop[t])

TwoPhase(t) == t = Primary /\ module_index \in TwoPhaseModules

(* wait_until_ready: it does not look at the thread's own stop flag.       *)
WaitUntilReady(t) ==
  /\ ready \/ stop_requested
  /\ Goto(t, "wait_ready", "loop")
  /\ UNCHANGED <<ncurses_mutex, seen_height, sample, shown, runtime, shared>>

TestStop(t) ==
  /\ Goto(t, "loop", IF ShouldStop(t) THEN "exited" ELSE "check_paused")
  /\ UNCHANGED <<ncurses_mutex, seen_height, sample, shown, runtime, shared>>

AfterPauseCheck(t) ==
  IF t \in StaticModules THEN "check_show"
  ELSE IF TwoPhase(t) THEN "clear" ELSE "collect"

(* Mutant for TestPaused: only the top panels honour the pause flag. *)
TestPausedStaticOnly(t) ==
  /\ Goto(t, "check_paused",
          IF paused /\ t \in StaticModules THEN "sleep" ELSE AfterPauseCheck(t))
  /\ UNCHANGED <<ncurses_mutex, seen_height, sample, shown, runtime, shared>>

TestPaused(t) ==
  /\ Goto(t, "check_paused", IF paused THEN "sleep" ELSE AfterPauseCheck(t))
  /\ UNCHANGED <<ncurses_mutex, seen_height, sample, shown, runtime, shared>>

(* A hidden top panel sleeps the whole interval and leaves its refresh flag *)
(* alone.                                                                   *)
TestShow(t) ==
  /\ Goto(t, "check_show",
          IF ~SHOW_TOP_PANELS THEN "sleep"
          ELSE IF t \in CollectsUnderLock THEN "draw" ELSE "collect")
  /\ UNCHANGED <<ncurses_mutex, seen_height, sample, shown, runtime, shared>>

(* trfx_thread_sleep_ms and trfx_dynamic_thread_sleep_ms return at the     *)
(* latest when the interval is over, and no caller uses their result.      *)
SleepOver(t) ==
  /\ Goto(t, "sleep", "loop")
  /\ UNCHANGED <<ncurses_mutex, seen_height, sample, shown, runtime, shared>>

(* The memory thread collects inside the lock, as the first thing it does. *)
LockNcurses(t) ==
  /\ ncurses_mutex = NoThread
  /\ \/ Goto(t, "clear", "clearing")
     \/ Goto(t, "draw", "drawing")
  /\ ncurses_mutex' = t
  /\ sample' = IF t \in CollectsUnderLock THEN Record(sample, t, "new") ELSE sample
  /\ UNCHANGED <<seen_height, shown, runtime, shared>>

(* The first critical section of the process modules: read the window's    *)
(* height, clear it, and give up when fewer than five rows are left.       *)
ClearWindow(t) ==
  LET height == Row2Height(frame.h, frame.show)
      small  == height < 5
  IN  /\ Goto(t, "clearing", IF small THEN "sleep" ELSE "collect")
      /\ seen_height' = IF small THEN 0 ELSE height
      /\ ncurses_mutex' = NoThread
      /\ UNCHANGED <<sample, shown, runtime, shared>>

Collect(t) ==
  /\ Goto(t, "collect", "draw")
  /\ sample' = Record(sample, t, "new")
  /\ UNCHANGED <<ncurses_mutex, seen_height, shown, runtime, shared>>

(* Mutant for Paint: the refresh flag is cleared by the painting instead of *)
(* by the wait.                                                             *)
PaintAndConsume(t) ==
  /\ Goto(t, "drawing", "wait")
  /\ shown' = [m \in StaticModules |-> IF m = t THEN sample[m] ELSE shown[m]]
  /\ sample' = Record(sample, t, "nothing")
  /\ seen_height' = IF t = Primary THEN 0 ELSE seen_height
  /\ ncurses_mutex' = NoThread
  /\ IF t \in StaticModules THEN ConsumeStaticRefresh(t) ELSE UNCHANGED runtime
  /\ UNCHANGED shared

Paint(t) ==
  /\ Goto(t, "drawing", "wait")
  /\ shown' = [m \in StaticModules |-> IF m = t THEN sample[m] ELSE shown[m]]
  /\ sample' = Record(sample, t, "nothing")
  /\ seen_height' = IF t = Primary THEN 0 ELSE seen_height
  /\ ncurses_mutex' = NoThread
  /\ UNCHANGED <<runtime, shared>>

(* A static thread leaves trfx_wait_for_static_refresh when its flag is    *)
(* set, when the interval is over or when the program stops; on each of    *)
(* the three ways it clears the flag.  A dynamic thread polls nothing of   *)
(* this module while it waits.                                             *)
WaitOver(t) ==
  /\ Goto(t, "wait", "loop")
  /\ IF t \in StaticModules THEN ConsumeStaticRefresh(t) ELSE UNCHANGED runtime
  /\ UNCHANGED <<ncurses_mutex, seen_height, sample, shown, shared>>

Worker(t) ==
  \/ WaitUntilReady(t) \/ TestStop(t) \/ TestPaused(t) \/ TestShow(t)
  \/ SleepOver(t) \/ LockNcurses(t) \/ ClearWindow(t) \/ Collect(t)
  \/ Paint(t) \/ WaitOver(t)
=============================================================================
