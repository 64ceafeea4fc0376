---------------------------- MODULE TrfxDashboard ----------------------------
(***************************************************************************)
(* The main thread of the TUI (src/trfx_dashboard.c) together with the     *)
(* workers of TrfxThreads: start-up, the key loop, the popups, the module  *)
(* switch, the relayout on resize and toggle, and the shutdown.            *)
(*                                                                         *)
(* One action is one critical section, one call that takes a lock of its   *)
(* own, one pthread_join, or the code between two of those.  The user is   *)
(* the choice of a key; a new terminal size is seen when KEY_RESIZE is     *)
(* read, which is when ncurses changes the size of stdscr.                 *)
(*                                                                         *)
(* Keys that only touch other state (sort order, focus, support view) are  *)
(* not here: TrfxSupport models what they share with the workers.          *)
(***************************************************************************)
EXTENDS TrfxThreads, TrfxPopups

CONSTANTS
  Sizes,              \* terminal sizes, [h : Nat, w : Nat]
  Keys,               \* the keys the user presses outside popups
  FirstModule,        \* modules[0]
  AllocationMayFail,  \* newwin, malloc and pthread_create may fail for a pane
  PopupMayFail        \* newwin may fail for a popup

AllKeys == {"q", "c", "r", "t", "x", "z", "l", "p", "h", "resize"}

ASSUME DashboardAssumption ==
  /\ Sizes \subseteq [h : Nat, w : Nat]
  /\ Sizes # {}
  /\ Keys \subseteq AllKeys
  /\ StaticModules \cap (Popups \cup {NoPopup}) = {}
  /\ FirstModule \in Modules
  /\ AllocationMayFail \in BOOLEAN
  /\ PopupMayFail \in BOOLEAN

VARIABLES
  mpc,            \* where the main thread is
  popup,          \* the popup being shown, or NoPopup
  confirmed,      \* the key that closed the last popup was Enter
  term,           \* the size of stdscr
  windows,        \* the windows that exist
  orphans,        \* popups whose window nobody will delete
  thread_id,      \* what row2_slots[0].thread_id holds
  support_active, \* support_thread_active
  fallback        \* the small-terminal message is the last thing laid out

main == <<mpc, popup, confirmed>>
rest == <<term, windows, orphans, thread_id, support_active, fallback>>
vars == <<runtime, workers, shared, main, rest>>

Size == [h : Nat, w : Nat]

JoinLabels == {"join_primary", "join_static", "join_support", "join_row2"}

MainLabels == JoinLabels \cup
  {"start_static", "start_row2", "start_support", "set_ready", "getch",
   "popup_pause", "popup_create", "popup_draw", "popup_getch", "popup_close",
   "resume_unpause", "resume_request", "after_popup", "start_primary",
   "r_erase", "small_message", "toggle_pause", "apply", "sync",
   "delete_support", "borders", "request", "unpause",
   "stop_row2", "delete_row2", "delete_static", "done", "aborted", "crashed"}

DashboardTypeOK ==
  /\ mpc \in MainLabels
  /\ popup \in Popups \cup {NoPopup}
  /\ mpc \in {"popup_pause", "popup_create"} => popup # NoPopup
  /\ confirmed \in BOOLEAN
  /\ term \in Size
  /\ windows \subseteq Threads \cup Popups
  /\ orphans \subseteq Choosers
  /\ thread_id \in {"zero", "live", "garbage"}
  /\ support_active \in BOOLEAN
  /\ fallback \in BOOLEAN

TypeOK == RuntimeTypeOK /\ ThreadsTypeOK /\ DashboardTypeOK

(* row2_slots is calloc'ed; the support window does not exist; the frame   *)
(* and the message are drawn by start_dashboard before any thread exists.  *)
Init ==
  /\ RuntimeReset
  /\ ThreadsInit
  /\ term \in Sizes
  /\ SHOW_TOP_PANELS \in BOOLEAN
  /\ frame = [h |-> term.h, w |-> term.w, show |-> SHOW_TOP_PANELS]
  /\ mpc = "start_static"
  /\ popup = NoPopup
  /\ confirmed = FALSE
  /\ windows = {}
  /\ orphans = {}
  /\ thread_id = "zero"
  /\ support_active = FALSE
  /\ fallback = FALSE

-----------------------------------------------------------------------------
(* Building blocks. *)

At(label) == mpc = label

Then(label) == mpc' = label /\ UNCHANGED <<popup, confirmed>>

LockFree == ncurses_mutex = NoThread

Idle == mpc' = "getch" /\ popup' = NoPopup /\ confirmed' = FALSE

(* Mutant for Open: the kind of popup is not recorded. *)
OpenUnnamed(kind) ==
  Then(IF kind \in Pausing THEN "popup_pause" ELSE "popup_create")

Open(kind) ==
  /\ mpc' = IF kind \in Pausing THEN "popup_pause" ELSE "popup_create"
  /\ popup' = kind
  /\ UNCHANGED confirmed

Started(t) == pc' = [pc EXCEPT ![t] = "wait_ready"]

(* pthread_join, once the threads of S have returned. *)
Join(S) ==
  /\ \A t \in S : pc[t] = "exited"
  /\ pc' = [t \in Threads |-> IF t \in S THEN "none" ELSE pc[t]]

(* werase, box, wrefresh of every top panel. *)
EraseTopPanels == shown' = [m \in StaticModules |-> "nothing"]

(* What every panel holds when a refresh of all of them is requested is    *)
(* old from then on.                                                       *)
RequestRefresh ==
  /\ RequestStaticRefreshAll
  /\ shown' = Outdate(shown)
  /\ sample' = Outdate(sample)

panels == <<ncurses_mutex, seen_height, sample, shown>>

-----------------------------------------------------------------------------
(* start_dashboard up to the key loop.                                     *)

(* pthread_create is not checked here: a panel's thread may not exist.     *)
StartStatic ==
  /\ At("start_static")
  /\ windows' = windows \cup StaticModules
  /\ \E created \in SUBSET StaticModules :
       /\ AllocationMayFail \/ created = StaticModules
       /\ pc' = [t \in Threads |-> IF t \in created THEN "wait_ready" ELSE pc[t]]
  /\ Then("start_row2")
  /\ UNCHANGED <<runtime, panels, shared, term, orphans, thread_id,
                 support_active, fallback>>

(* load_row2_modules: out of memory ends the program. *)
StartRow2 ==
  /\ At("start_row2")
  /\ LockFree
  /\ windows' = windows \cup {Primary}
  /\ module_index' = FirstModule
  /\ \/ Started(Primary) /\ thread_id' = "live" /\ Then("sync")
     \/ /\ AllocationMayFail
        /\ thread_id' \in {"zero", "garbage"} /\ UNCHANGED pc /\ Then("sync")
     \/ /\ AllocationMayFail
        /\ UNCHANGED <<pc, thread_id>> /\ Then("aborted")
  /\ UNCHANGED <<runtime, panels, local_stop, SHOW_TOP_PANELS, frame, term,
                 orphans, support_active, fallback>>

FinishStart ==
  /\ At("set_ready")
  /\ SetReady
  /\ Idle
  /\ UNCHANGED <<workers, shared, rest>>

-----------------------------------------------------------------------------
(* The key loop.                                                           *)

KeyIdle(key) == At("getch") /\ key \in Keys

KeyQuit ==
  /\ KeyIdle("q")
  /\ RequestStop
  /\ Then("join_static")
  /\ UNCHANGED <<workers, shared, rest>>

(* r: the request comes before the panels are erased. *)
KeyRefresh ==
  /\ KeyIdle("r")
  /\ RequestRefresh
  /\ Then(IF SHOW_TOP_PANELS THEN "r_erase" ELSE "getch")
  /\ UNCHANGED <<pc, ncurses_mutex, seen_height, shared, rest>>

RefreshErase ==
  /\ At("r_erase")
  /\ LockFree
  /\ EraseTopPanels
  /\ Then("getch")
  /\ UNCHANGED <<runtime, pc, ncurses_mutex, seen_height, sample, shared, rest>>

(* Mutants for KeyChange: the slot is taken to have a thread whatever its   *)
(* index says; the thread is not joined before the next one is chosen.      *)
KeyChangeUnchecked ==
  /\ KeyIdle("c")
  /\ local_stop' = [local_stop EXCEPT ![Primary] = TRUE]
  /\ Then("join_primary")
  /\ UNCHANGED <<runtime, workers, module_index, SHOW_TOP_PANELS, frame, rest>>

KeyChangeNoJoin ==
  /\ KeyIdle("c")
  /\ local_stop' = [local_stop EXCEPT ![Primary] = TRUE]
  /\ Open("module_selector")
  /\ UNCHANGED <<runtime, workers, module_index, SHOW_TOP_PANELS, frame, rest>>

(* change_window_module stops the pane's thread before it asks for the     *)
(* module that replaces it.                                                *)
KeyChange ==
  /\ KeyIdle("c")
  /\ IF module_index # NoModule
     THEN /\ local_stop' = [local_stop EXCEPT ![Primary] = TRUE]
          /\ Then("join_primary")
     ELSE Open("module_selector") /\ UNCHANGED local_stop
  /\ UNCHANGED <<runtime, workers, module_index, SHOW_TOP_PANELS, frame, rest>>

(* The other popups.  A chooser without a row to choose from becomes a     *)
(* feedback popup.                                                         *)
KeyPopup ==
  /\ \E choice \in {<<"h", "hotkeys">>, <<"p", "pause">>,
                   <<"l", "view_selector">>, <<"x", "kill_chooser">>,
                   <<"z", "drop_chooser">>, <<"x", "feedback">>,
                   <<"z", "feedback">>} :
       KeyIdle(choice[1]) /\ Open(choice[2])
  /\ UNCHANGED <<runtime, workers, shared, rest>>

(* t flips the flag before anything else; when the terminal is too small   *)
(* for the new layout nothing is laid out.                                 *)
KeyToggle ==
  /\ KeyIdle("t")
  /\ SHOW_TOP_PANELS' = ~SHOW_TOP_PANELS
  /\ Then(IF TooSmall(term.h, term.w, SHOW_TOP_PANELS')
          THEN "small_message" ELSE "toggle_pause")
  /\ UNCHANGED <<runtime, workers, local_stop, module_index, frame, rest>>

(* KEY_RESIZE: the relayout, which does not pause the workers first.       *)
KeyResize ==
  /\ KeyIdle("resize")
  /\ term' \in Sizes
  /\ Then(IF TooSmall(term'.h, term'.w, SHOW_TOP_PANELS)
          THEN "small_message" ELSE "apply")
  /\ UNCHANGED <<runtime, workers, shared, windows, orphans, thread_id,
                 support_active, fallback>>

-----------------------------------------------------------------------------
(* Popups.                                                                 *)

PopupPause ==
  /\ At("popup_pause")
  /\ SetPaused(TRUE)
  /\ Then("popup_create")
  /\ UNCHANGED <<workers, shared, rest>>

(* Mutant for PopupCreate: a popup that cannot be created just returns. *)
PopupCreateNoResume ==
  /\ At("popup_create")
  /\ \/ /\ Fits(popup, term.h, term.w)
        /\ windows' = windows \cup {popup}
        /\ Then("popup_draw")
     \/ /\ PopupMayFail \/ ~Fits(popup, term.h, term.w)
        /\ Idle
        /\ UNCHANGED windows
  /\ UNCHANGED <<runtime, workers, shared, term, orphans, thread_id,
                 support_active, fallback>>

(* newwin; on failure a popup that resumes does so and answers "no".       *)
PopupCreate ==
  /\ At("popup_create")
  /\ \/ /\ Fits(popup, term.h, term.w)
        /\ windows' = windows \cup {popup}
        /\ Then("popup_draw")
     \/ /\ PopupMayFail \/ ~Fits(popup, term.h, term.w)
        /\ IF popup \in Choosers
           THEN Idle
           ELSE mpc' = "resume_unpause" /\ confirmed' = FALSE /\ UNCHANGED popup
        /\ UNCHANGED windows
  /\ UNCHANGED <<runtime, workers, shared, term, orphans, thread_id,
                 support_active, fallback>>

PopupDraw ==
  /\ At("popup_draw")
  /\ LockFree
  /\ Then("popup_getch")
  /\ UNCHANGED <<runtime, workers, shared, rest>>

PopupKey(key) ==
  /\ At("popup_getch")
  /\ IF key \notin ClosingKeys(popup)
     THEN /\ Then(IF popup \in Redrawing THEN "popup_draw" ELSE "popup_getch")
          /\ UNCHANGED <<windows, orphans>>
     ELSE IF LeavesWindow(popup, key)
     THEN /\ Idle
          /\ windows' = windows \ {popup}
          /\ orphans' = orphans \cup {popup}
     ELSE /\ mpc' = "popup_close"
          /\ confirmed' = (key = "enter")
          /\ UNCHANGED <<popup, windows, orphans>>
  /\ UNCHANGED <<runtime, workers, shared, term, thread_id, support_active, fallback>>

(* KEY_RESIZE is a key like any other to a popup: the new size is never    *)
(* laid out.                                                               *)
PopupResize ==
  /\ At("popup_getch")
  /\ "resize" \in Keys
  /\ term' \in Sizes
  /\ Then(IF popup \in Redrawing THEN "popup_draw" ELSE "popup_getch")
  /\ UNCHANGED <<runtime, workers, shared, windows, orphans, thread_id,
                 support_active, fallback>>

PopupClose ==
  /\ At("popup_close")
  /\ LockFree
  /\ windows' = windows \ {popup}
  /\ Then(IF popup \in Choosers THEN "after_popup" ELSE "resume_unpause")
  /\ UNCHANGED <<runtime, workers, shared, term, orphans, thread_id,
                 support_active, fallback>>

(* resume_dashboard_after_popup: two calls, in this order. *)
ResumeUnpause ==
  /\ At("resume_unpause")
  /\ SetPaused(FALSE)
  /\ Then("resume_request")
  /\ UNCHANGED <<workers, shared, rest>>

ResumeRequest ==
  /\ At("resume_request")
  /\ RequestRefresh
  /\ Then("after_popup")
  /\ UNCHANGED <<pc, ncurses_mutex, seen_height, shared, rest>>

(* What the caller of a popup does with its answer.  The process may be    *)
(* gone when its owner is looked up; the action runs, confirmed or not,    *)
(* between the review and the result (TrfxActions).                        *)
AfterPopup ==
  /\ At("after_popup")
  /\ \/ popup \in Choosers /\ Open("review")
     \/ popup = "kill_chooser" /\ Open("feedback")
     \/ popup = "review" /\ Open("result")
     \/ popup = "module_selector" /\ confirmed /\ Then("start_primary")
     \/ /\ popup \notin Choosers \cup {"review"}
        /\ popup = "module_selector" => ~confirmed
        /\ Idle
  /\ UNCHANGED <<runtime, workers, shared, rest>>

-----------------------------------------------------------------------------
(* The rest of change_window_module.                                       *)

(* Mutant for JoinPrimary: the slot keeps the old module's index. *)
JoinPrimaryKeepsIndex ==
  /\ At("join_primary")
  /\ thread_id = "live"
  /\ Join({Primary})
  /\ thread_id' = "zero"
  /\ Open("module_selector")
  /\ UNCHANGED <<runtime, panels, shared, term, windows, orphans,
                 support_active, fallback>>

(* Joining a thread id that no pthread_create stored is undefined; it is   *)
(* taken to crash.                                                         *)
JoinPrimary ==
  /\ At("join_primary")
  /\ IF thread_id = "live"
     THEN /\ Join({Primary})
          /\ thread_id' = "zero"
          /\ module_index' = NoModule
          /\ Open("module_selector")
     ELSE Then("crashed") /\ UNCHANGED <<pc, thread_id, module_index>>
  /\ UNCHANGED <<runtime, panels, local_stop, SHOW_TOP_PANELS, frame, term,
                 windows, orphans, support_active, fallback>>

(* The slot is given its module before the thread exists; when malloc or   *)
(* pthread_create fails it keeps it.                                       *)
StartPrimary ==
  /\ At("start_primary")
  /\ module_index' \in Modules
  /\ \/ /\ local_stop' = [local_stop EXCEPT ![Primary] = FALSE]
        /\ Started(Primary)
        /\ thread_id' = "live"
     \/ /\ AllocationMayFail
        /\ UNCHANGED <<local_stop, pc, thread_id>>
     \/ /\ AllocationMayFail
        /\ local_stop' = [local_stop EXCEPT ![Primary] = FALSE]
        /\ thread_id' \in {thread_id, "garbage"}
        /\ UNCHANGED pc
  /\ Idle
  /\ UNCHANGED <<runtime, panels, SHOW_TOP_PANELS, frame, term, windows,
                 orphans, support_active, fallback>>

-----------------------------------------------------------------------------
(* Relayout: update_toggle_layout and resize_dashboard_windows.            *)

SmallMessage ==
  /\ At("small_message")
  /\ LockFree
  /\ fallback' = TRUE
  /\ Then("getch")
  /\ UNCHANGED <<runtime, workers, shared, term, windows, orphans, thread_id,
                 support_active>>

TogglePause ==
  /\ At("toggle_pause")
  /\ SetPaused(TRUE)
  /\ Then("apply")
  /\ UNCHANGED <<workers, shared, rest>>

(* apply_dashboard_frame_update: the size is the one the geometry was      *)
(* computed for, since only reading a key changes it.                      *)
ApplyFrame ==
  /\ At("apply")
  /\ LockFree
  /\ frame' = [h |-> term.h, w |-> term.w, show |-> SHOW_TOP_PANELS]
  /\ fallback' = FALSE
  /\ Then("sync")
  /\ UNCHANGED <<runtime, workers, local_stop, module_index, SHOW_TOP_PANELS,
                 term, windows, orphans, thread_id, support_active>>

(* sync_support_window_geometry, also the tail of start_dashboard.         *)
AfterSync == IF ready THEN "borders" ELSE "set_ready"

(* Mutant for StopSupport: the window goes without waiting for its thread. *)
StopSupportNoJoin ==
  /\ local_stop' = [local_stop EXCEPT ![Support] = support_active \/ @]
  /\ Then("delete_support")

StopSupport ==
  /\ local_stop' = [local_stop EXCEPT ![Support] = support_active \/ @]
  /\ Then(IF support_active THEN "join_support" ELSE "delete_support")

SyncSupport ==
  /\ At("sync")
  /\ IF SecondaryVisible(term.w)
     THEN /\ LockFree
          /\ \/ Support \in windows /\ UNCHANGED windows /\ Then(AfterSync)
             \/ /\ Support \notin windows
                /\ windows' = windows \cup {Support}
                /\ Then(IF support_active THEN AfterSync ELSE "start_support")
             \/ /\ Support \notin windows /\ AllocationMayFail
                /\ UNCHANGED windows /\ Then(AfterSync)
          /\ UNCHANGED local_stop
     ELSE /\ IF Support \in windows
             THEN StopSupport
             ELSE Then(AfterSync) /\ UNCHANGED local_stop
          /\ UNCHANGED windows
  /\ UNCHANGED <<runtime, workers, module_index, SHOW_TOP_PANELS, frame, term,
                 orphans, thread_id, support_active, fallback>>

StartSupport ==
  /\ At("start_support")
  /\ \/ /\ local_stop' = [local_stop EXCEPT ![Support] = FALSE]
        /\ Started(Support)
        /\ support_active' = TRUE
     \/ AllocationMayFail /\ UNCHANGED <<local_stop, pc, support_active>>
     \/ /\ AllocationMayFail
        /\ local_stop' = [local_stop EXCEPT ![Support] = FALSE]
        /\ UNCHANGED <<pc, support_active>>
  /\ Then(AfterSync)
  /\ UNCHANGED <<runtime, panels, module_index, SHOW_TOP_PANELS, frame, term,
                 windows, orphans, thread_id, fallback>>

(* Mutant for JoinSupport: support_thread_active is not reset. *)
JoinSupportStaysActive ==
  /\ At("join_support")
  /\ Join({Support})
  /\ Then("delete_support")
  /\ UNCHANGED <<runtime, panels, shared, rest>>

JoinSupport ==
  /\ At("join_support")
  /\ Join({Support})
  /\ support_active' = FALSE
  /\ Then("delete_support")
  /\ UNCHANGED <<runtime, panels, shared, term, windows, orphans, thread_id, fallback>>

DeleteSupport ==
  /\ At("delete_support")
  /\ LockFree \/ Support \notin windows
  /\ windows' = windows \ {Support}
  /\ Then(IF stop_requested THEN "stop_row2" ELSE "borders")
  /\ UNCHANGED <<runtime, workers, shared, term, orphans, thread_id,
                 support_active, fallback>>

(* refresh_dashboard_frame_borders. *)
FrameBorders ==
  /\ At("borders")
  /\ IF SHOW_TOP_PANELS THEN LockFree /\ EraseTopPanels ELSE UNCHANGED shown
  /\ Then("request")
  /\ UNCHANGED <<runtime, pc, ncurses_mutex, seen_height, sample, shared, rest>>

(* request_dashboard_data_refresh: two calls, in the other order than      *)
(* after a popup.                                                          *)
RequestData ==
  /\ At("request")
  /\ RequestRefresh
  /\ Then("unpause")
  /\ UNCHANGED <<pc, ncurses_mutex, seen_height, shared, rest>>

(* Mutant for RequestUnpause: the relayout forgets to resume the workers. *)
RequestUnpauseForgotten ==
  /\ At("unpause")
  /\ Then("getch")
  /\ UNCHANGED <<runtime, workers, shared, rest>>

RequestUnpause ==
  /\ At("unpause")
  /\ SetPaused(FALSE)
  /\ Then("getch")
  /\ UNCHANGED <<workers, shared, rest>>

-----------------------------------------------------------------------------
(* start_dashboard after the key loop.                                     *)

JoinStatic ==
  /\ At("join_static")
  /\ IF \E m \in StaticModules : pc[m] = "none"
     THEN Then("crashed") /\ UNCHANGED <<pc, local_stop>>
     ELSE Join(StaticModules) /\ StopSupport
  /\ UNCHANGED <<runtime, panels, module_index, SHOW_TOP_PANELS, frame, rest>>

(* Mutant for StopRow2: the pane is deleted without joining its thread. *)
StopRow2NoJoin ==
  /\ At("stop_row2")
  /\ local_stop' = [local_stop EXCEPT ![Primary] = TRUE]
  /\ Then("delete_row2")
  /\ UNCHANGED <<runtime, workers, module_index, SHOW_TOP_PANELS, frame, rest>>

(* cleanup_row2_modules. *)
StopRow2 ==
  /\ At("stop_row2")
  /\ IF thread_id = "zero"
     THEN Then("delete_row2") /\ UNCHANGED local_stop
     ELSE /\ local_stop' = [local_stop EXCEPT ![Primary] = TRUE]
          /\ Then("join_row2")
  /\ UNCHANGED <<runtime, workers, module_index, SHOW_TOP_PANELS, frame, rest>>

JoinRow2 ==
  /\ At("join_row2")
  /\ IF thread_id = "live"
     THEN Join({Primary}) /\ thread_id' = "zero" /\ Then("delete_row2")
     ELSE Then("crashed") /\ UNCHANGED <<pc, thread_id>>
  /\ UNCHANGED <<runtime, panels, shared, term, windows, orphans,
                 support_active, fallback>>

DeleteRow2 ==
  /\ At("delete_row2")
  /\ LockFree
  /\ windows' = windows \ {Primary}
  /\ Then("delete_static")
  /\ UNCHANGED <<runtime, workers, shared, term, orphans, thread_id,
                 support_active, fallback>>

DeleteStatic ==
  /\ At("delete_static")
  /\ LockFree
  /\ windows' = windows \ StaticModules
  /\ Then("done")
  /\ UNCHANGED <<runtime, workers, shared, term, orphans, thread_id,
                 support_active, fallback>>

-----------------------------------------------------------------------------
Key ==
  \/ KeyQuit \/ KeyRefresh \/ KeyChange \/ KeyPopup \/ KeyToggle \/ KeyResize
  \/ PopupResize
  \/ \E key \in PopupKeys : PopupKey(key)

MainStep ==
  \/ StartStatic \/ StartRow2 \/ FinishStart
  \/ RefreshErase
  \/ PopupPause \/ PopupCreate \/ PopupDraw \/ PopupClose
  \/ ResumeUnpause \/ ResumeRequest \/ AfterPopup
  \/ JoinPrimary \/ StartPrimary
  \/ SmallMessage \/ TogglePause \/ ApplyFrame
  \/ SyncSupport \/ StartSupport \/ JoinSupport \/ DeleteSupport
  \/ FrameBorders \/ RequestData \/ RequestUnpause
  \/ JoinStatic \/ StopRow2 \/ JoinRow2 \/ DeleteRow2 \/ DeleteStatic

Ended == mpc \in {"done", "aborted", "crashed"}

WorkerStep(t) == ~Ended /\ Worker(t) /\ UNCHANGED <<main, rest>>

Terminating == Ended /\ UNCHANGED vars

Next == Key \/ MainStep \/ (\E t \in Threads : WorkerStep(t)) \/ Terminating

(* The scheduler runs every thread, and a thread that waits for the        *)
(* ncurses mutex gets it: whoever holds it releases it and then sleeps for *)
(* at least 25 ms.  The user is under no obligation to press a key.        *)
Fairness ==
  /\ SF_vars(MainStep)
  /\ \A t \in Threads : WF_vars(WorkerStep(t)) /\ SF_vars(WorkerStep(t) /\ LockNcurses(t))

Spec == Init /\ [][Next]_vars

FairSpec == Spec /\ Fairness

-----------------------------------------------------------------------------
(* Safety.                                                                 *)

(* The panes as TrfxPanes sees them. *)
Asked(t) == stop_requested \/ (t \in Dynamic /\ local_stop[t])

PaneWorker(t) ==
  IF pc[t] \in {"none", "exited"} THEN pc[t] ELSE "running"

Lifecycle == INSTANCE TrfxPanes WITH
  Panes  <- Threads,
  window <- windows \cap Threads,
  worker <- [t \in Threads |-> PaneWorker(t)],
  asked  <- {t \in Threads : Asked(t)}

(* Every behaviour of the dashboard, whatever fails, is a behaviour of the  *)
(* abstract panes: the order of stop, join and delete is kept on all paths. *)
PaneLifecycle == Lifecycle!Spec

(* No thread outlives its window: every path that deletes a pane (shutdown, *)
(* a relayout that folds the support column away) has joined the thread     *)
(* that was given the WINDOW pointer.                                       *)
NoUseAfterDelete == \A t \in Threads : Running(t) => t \in windows

(* Whatever chain of popups, failed popups and relayouts the main thread    *)
(* went through, the workers are not left paused when it waits for a key.   *)
PauseBalanced == At("getch") => ~paused

(* A request for fresh data is never lost: a panel that still shows data    *)
(* from before the request has its wake-up flag set while its thread waits. *)
RefreshNotLost ==
  \A m \in StaticModules :
    pc[m] = "wait" /\ shown[m] = "old" => force_refresh_flags[m]

(* When nothing fails, the primary slot has a module exactly when a thread  *)
(* runs it, and what the slot's thread_id holds can be joined.              *)
PaneHasThread ==
  At("getch") => /\ (module_index # NoModule) = Running(Primary)
                 /\ (thread_id = "live") = Running(Primary)

(* When nothing fails, the support column exists, with its thread, exactly  *)
(* when the last layout had room for it.                                    *)
SupportFollowsLayout ==
  At("getch") => /\ (Support \in windows) = SecondaryVisible(frame.w)
                 /\ support_active = Running(Support)
                 /\ support_active = (Support \in windows)

(* pthread_join is only ever given the id of a thread that was created and  *)
(* not yet joined.                                                          *)
JoinsAreDefined == ~At("crashed")

(* The inductive invariant behind NoUseAfterDelete: what holds of the       *)
(* threads and windows at the places where the main thread starts a thread  *)
(* or deletes a window.                                                     *)
QuitLabels == {"stop_row2", "join_row2", "delete_row2", "delete_static", "done"}

NoThreadWithoutHandle ==
  /\ thread_id # "live" => pc[Primary] = "none"
  /\ ~support_active => pc[Support] = "none"

StaticGoneAfterQuit ==
  /\ mpc \in QuitLabels => stop_requested
  /\ stop_requested /\ mpc \notin {"join_static", "crashed"} =>
       \A m \in StaticModules : pc[m] = "none"

ReadyToStart ==
  /\ mpc = "start_static" => ~stop_requested /\ (\A t \in Threads : pc[t] = "none")
  /\ mpc \in {"start_static", "start_row2"} => thread_id = "zero" /\ popup = NoPopup
  /\ mpc = "start_primary" => popup = "module_selector"
  /\ popup = "module_selector" => thread_id # "live"
  /\ module_index = NoModule => thread_id # "live"
  /\ mpc = "start_support" => Support \in windows /\ ~support_active
  /\ mpc \notin {"start_static", "start_row2", "delete_static",
                "done", "aborted", "crashed"} => Primary \in windows

ReadyToDelete ==
  /\ mpc = "delete_support" => ~support_active
  /\ mpc \in {"delete_row2", "delete_static", "done"} => thread_id # "live"

PaneInv ==
  /\ TypeOK
  /\ NoUseAfterDelete
  /\ NoThreadWithoutHandle
  /\ StaticGoneAfterQuit
  /\ ReadyToStart
  /\ ReadyToDelete

(* A pane gets a new thread, and its stop flag is taken back, only after    *)
(* the old thread has been joined: no two threads draw in one window and no *)
(* stop request is withdrawn from a thread that has not seen it.            *)
ReplacedOnlyAfterJoin ==
  [][\A d \in Dynamic :
       \/ pc[d] = "none"
       \/ /\ pc[d] # "wait_ready" => pc'[d] # "wait_ready"
          /\ local_stop[d] => local_stop'[d]]_vars

-----------------------------------------------------------------------------
(* Liveness, under FairSpec.                                               *)

(* q ends the program: every worker, whatever it was doing, sees the stop   *)
(* flag and every join returns.                                             *)
QuitTerminates == stop_requested ~> At("done")

(* No join waits for ever, in particular not the ones made while the key    *)
(* loop is running and the dashboard is frozen until they return.           *)
JoinsReturn == (mpc \in JoinLabels) ~> (mpc \notin JoinLabels)

(* If the dashboard stays paused, the workers stop drawing.                 *)
PauseSettles == <>[]paused => <>[](\A t \in Threads : ~InCurses(t))

(* If the user leaves the dashboard alone with its top panels on, all of    *)
(* them come to show data collected after the last request.                 *)
IdleBecomesFresh ==
  <>[](At("getch") /\ SHOW_TOP_PANELS) =>
    <>[](\A m \in StaticModules : shown[m] = "new")
=============================================================================
