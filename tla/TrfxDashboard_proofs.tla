------------------------ MODULE TrfxDashboard_proofs ------------------------
(***************************************************************************)
(* Proofs, for every set of top panels, every set of modules and terminal  *)
(* sizes, every set of keys and with or without failures, that the         *)
(* dashboard keeps its types and that no worker outlives its window.       *)
(***************************************************************************)
EXTENDS TrfxDashboard, TLAPS

USE DEF Primary, Support, NoThread, Dynamic, Threads, Modules, Size

(* The height of the second row is a natural number. *)
LEMMA Row2HeightType ==
  ASSUME NEW h \in Nat, NEW show \in BOOLEAN
  PROVE  Row2Height(h, show) \in Nat
BY DEF Row2Height, Row1Height, FIXED_ROW1_HEIGHT, MIN_ROW2_HEIGHT

LEMMA AfterPauseCheckType ==
  ASSUME NEW t \in Threads
  PROVE  AfterPauseCheck(t) \in Labels
BY DEF AfterPauseCheck, Labels

(* A step of a worker keeps the types; one case per action of Worker. *)
LEMMA WorkerType ==
  ASSUME TypeOK, NEW t \in Threads, WorkerStep(t)
  PROVE  TypeOK'
<1> USE ThreadAssumption DEF TypeOK, RuntimeTypeOK, ThreadsTypeOK,
      DashboardTypeOK, Data, runtime, workers, shared, main, rest, Goto
<1>0. Worker(t) /\ UNCHANGED <<main, rest>>
  BY DEF WorkerStep
<1>1. CASE WaitUntilReady(t)
  BY <1>0, <1>1 DEF WaitUntilReady, Labels
<1>2. CASE TestStop(t)
  BY <1>0, <1>2 DEF TestStop, Labels
<1>3. CASE TestPaused(t)
  BY <1>0, <1>3, AfterPauseCheckType DEF TestPaused, Labels
<1>4. CASE TestShow(t)
  BY <1>0, <1>4 DEF TestShow, Labels
<1>5. CASE SleepOver(t)
  BY <1>0, <1>5 DEF SleepOver, Labels
<1>6. CASE LockNcurses(t)
  BY <1>0, <1>6 DEF LockNcurses, Labels, Record
<1>7. CASE ClearWindow(t)
  BY <1>0, <1>7, Row2HeightType DEF ClearWindow, Labels
<1>8. CASE Collect(t)
  BY <1>0, <1>8 DEF Collect, Labels, Record
<1>9. CASE Paint(t)
  BY <1>0, <1>9 DEF Paint, Labels, Record
<1>10. CASE WaitOver(t)
  <2>1. CASE t \in StaticModules
    <3>1. pc' \in [Threads -> Labels]
      BY <1>10 DEF WaitOver, Labels
    <3>2. force_refresh_flags' \in [StaticModules -> BOOLEAN]
      BY <1>10, <2>1 DEF WaitOver, ConsumeStaticRefresh
    <3> QED
      BY <1>0, <1>10, <2>1, <3>1, <3>2 DEF WaitOver, ConsumeStaticRefresh
  <2>2. CASE t \notin StaticModules
    BY <1>0, <1>10, <2>2 DEF WaitOver, Labels
  <2> QED
    BY <2>1, <2>2
<1> QED
  BY <1>0, <1>1, <1>2, <1>3, <1>4, <1>5, <1>6, <1>7, <1>8, <1>9, <1>10
  DEF Worker

(* So does a step of the main thread. *)
LEMMA RefreshTypes ==
  ASSUME NEW f \in [StaticModules -> Data]
  PROVE  Outdate(f) \in [StaticModules -> Data]
BY DEF Outdate, Data

LEMMA StopFlagType ==
  ASSUME TypeOK, NEW d \in Dynamic, NEW value \in BOOLEAN
  PROVE  [local_stop EXCEPT ![d] = value] \in [Dynamic -> BOOLEAN]
BY DEF TypeOK, ThreadsTypeOK

LEMMA OpenType ==
  ASSUME TypeOK, NEW kind \in Popups, Open(kind)
  PROVE  /\ mpc' \in MainLabels /\ confirmed' \in BOOLEAN
         /\ popup' \in Popups /\ popup' # NoPopup
BY DEF Open, TypeOK, DashboardTypeOK, MainLabels, Popups, Choosers, Pausing, NoPopup

LEMMA KeyType ==
  ASSUME TypeOK, Key
  PROVE  TypeOK'
<1> USE ThreadAssumption, DashboardAssumption
    DEF TypeOK, RuntimeTypeOK, ThreadsTypeOK, DashboardTypeOK, Data, runtime,
        workers, shared, main, rest, At, Then, KeyIdle, MainLabels, JoinLabels,
        Open, Idle, Popups, Choosers, Pausing, NoPopup
<1>1. CASE KeyQuit
  BY <1>1 DEF KeyQuit, RequestStop
<1>2. CASE KeyRefresh
  BY <1>2, RefreshTypes DEF KeyRefresh, RequestRefresh, RequestStaticRefreshAll
<1>3. CASE KeyChange
  <2>1. CASE module_index # NoModule
    <3>1. local_stop' \in [Dynamic -> BOOLEAN]
      <4>1. local_stop' = [local_stop EXCEPT ![Primary] = TRUE]
        BY <1>3, <2>1 DEF KeyChange
      <4>2. Primary \in Dynamic
        BY DEF Dynamic
      <4> QED
        BY <4>1, <4>2
    <3>2. /\ mpc' \in MainLabels /\ mpc' \notin {"popup_pause", "popup_create"}
          /\ UNCHANGED <<popup, confirmed>>
          /\ UNCHANGED <<runtime, workers, module_index, SHOW_TOP_PANELS, frame, rest>>
      BY <1>3, <2>1 DEF KeyChange
    <3> QED
      BY <3>1, <3>2
  <2>2. CASE module_index = NoModule
    BY <1>3, <2>2 DEF KeyChange
  <2> QED
    BY <2>1, <2>2
<1>4. CASE KeyPopup
  BY <1>4 DEF KeyPopup
<1>5. CASE KeyToggle
  BY <1>5 DEF KeyToggle
<1>6. CASE KeyResize
  BY <1>6 DEF KeyResize
<1>7. CASE PopupResize
  BY <1>7 DEF PopupResize
<1>8. ASSUME NEW key \in PopupKeys, PopupKey(key) PROVE TypeOK'
  <2>1. CASE key \notin ClosingKeys(popup)
    <3>1. mpc' \in MainLabels /\ UNCHANGED <<popup, confirmed, windows, orphans>>
      BY <1>8, <2>1 DEF PopupKey
    <3> QED
      BY <1>8, <3>1 DEF PopupKey
  <2>2. CASE key \in ClosingKeys(popup) /\ LeavesWindow(popup, key)
    <3>1. /\ mpc' \in MainLabels /\ popup' = NoPopup /\ confirmed' = FALSE
          /\ windows' = windows \ {popup} /\ orphans' = orphans \cup {popup}
          /\ popup \in Choosers
      BY <1>8, <2>2 DEF PopupKey, LeavesWindow
    <3>2. UNCHANGED <<runtime, workers, shared, term, thread_id,
                      support_active, fallback>>
      BY <1>8 DEF PopupKey
    <3>3. windows' \subseteq Threads \cup Popups /\ orphans' \subseteq Choosers
      BY <3>1
    <3>4. popup' \in Popups \cup {NoPopup} /\ confirmed' \in BOOLEAN
      BY <3>1
    <3>5. mpc' = "getch"
      BY <1>8, <2>2 DEF PopupKey
    <3> QED
      BY <3>1, <3>2, <3>3, <3>4, <3>5
  <2>3. CASE key \in ClosingKeys(popup) /\ ~LeavesWindow(popup, key)
    <3>1. confirmed' = (key = "enter")
      BY <1>8, <2>3 DEF PopupKey
    <3>2. confirmed' \in BOOLEAN
      BY <3>1
    <3>3. mpc' = "popup_close" /\ UNCHANGED <<popup, windows, orphans>>
      BY <1>8, <2>3 DEF PopupKey
    <3>4. UNCHANGED <<runtime, workers, shared, term, thread_id,
                      support_active, fallback>>
      BY <1>8 DEF PopupKey
    <3> QED
      BY <3>2, <3>3, <3>4
  <2> QED
    BY <2>1, <2>2, <2>3
<1> QED
  BY <1>1, <1>2, <1>3, <1>4, <1>5, <1>6, <1>7, <1>8 DEF Key

LEMMA MainType ==
  ASSUME TypeOK, MainStep
  PROVE  TypeOK'
<1> USE DEF TypeOK
<1>1. CASE StartStatic
  <2>1. RuntimeTypeOK'
    BY <1>1 DEF StartStatic, RuntimeTypeOK, runtime
  <2>2. ThreadsTypeOK'
    BY <1>1 DEF StartStatic, Labels, ThreadsTypeOK, workers, shared,
      panels
  <2>3. mpc' \in MainLabels
    BY <1>1 DEF StartStatic, Then, MainLabels, JoinLabels
  <2> QED
    BY <1>1, <2>1, <2>2, <2>3 DEF StartStatic, DashboardTypeOK, Then,
      main, rest
<1>2. CASE StartRow2
  <2>1. RuntimeTypeOK'
    BY <1>2 DEF StartRow2, RuntimeTypeOK, runtime
  <2>2. ThreadsTypeOK'
    BY <1>2, DashboardAssumption DEF StartRow2, Started, Labels,
      ThreadsTypeOK, workers, shared, panels
  <2>3. mpc' \in MainLabels
    BY <1>2 DEF StartRow2, Then, MainLabels, JoinLabels
  <2> QED
    BY <1>2, <2>1, <2>2, <2>3 DEF StartRow2, DashboardTypeOK, Then, main,
      rest
<1>3. CASE FinishStart
  <2>1. RuntimeTypeOK'
    BY <1>3 DEF FinishStart, SetReady, RuntimeTypeOK, runtime
  <2>2. ThreadsTypeOK'
    BY <1>3 DEF FinishStart, ThreadsTypeOK, workers, shared, panels
  <2>3. mpc' \in MainLabels
    BY <1>3 DEF FinishStart, Idle, Then, MainLabels, JoinLabels
  <2> QED
    BY <1>3, <2>1, <2>2, <2>3 DEF FinishStart, Idle, DashboardTypeOK,
      Then, main, rest
<1>4. CASE RefreshErase
  <2>1. RuntimeTypeOK'
    BY <1>4 DEF RefreshErase, RuntimeTypeOK, runtime
  <2>2. ThreadsTypeOK'
    BY <1>4 DEF RefreshErase, EraseTopPanels, Data, ThreadsTypeOK,
      workers, shared, panels
  <2>3. mpc' \in MainLabels
    BY <1>4 DEF RefreshErase, Then, MainLabels, JoinLabels
  <2> QED
    BY <1>4, <2>1, <2>2, <2>3 DEF RefreshErase, DashboardTypeOK, Then,
      main, rest
<1>5. CASE PopupPause
  <2>1. RuntimeTypeOK'
    BY <1>5 DEF PopupPause, SetPaused, RuntimeTypeOK, runtime
  <2>2. ThreadsTypeOK'
    BY <1>5 DEF PopupPause, ThreadsTypeOK, workers, shared, panels
  <2>3. mpc' \in MainLabels
    BY <1>5 DEF PopupPause, Then, MainLabels, JoinLabels
  <2> QED
    <3>1. mpc' = "popup_create" /\ popup' = popup /\ popup # NoPopup
      BY <1>5 DEF PopupPause, At, Then, DashboardTypeOK
    <3> QED
      BY <1>5, <2>1, <2>2, <2>3, <3>1 DEF PopupPause, DashboardTypeOK, Then, rest
<1>6. CASE PopupCreate
  <2>1. RuntimeTypeOK'
    BY <1>6 DEF PopupCreate, RuntimeTypeOK, runtime
  <2>2. ThreadsTypeOK'
    BY <1>6 DEF PopupCreate, ThreadsTypeOK, workers, shared, panels
  <2>3. mpc' \in MainLabels
    BY <1>6 DEF PopupCreate, Idle, Then, MainLabels, JoinLabels
  <2> QED
    <3>1. CASE windows' = windows \cup {popup} /\ Then("popup_draw")
      BY <1>6, <2>1, <2>2, <2>3, <3>1 DEF PopupCreate, DashboardTypeOK, At,
        Then, main, rest
    <3>2. CASE windows' = windows /\ Idle
      BY <1>6, <2>1, <2>2, <2>3, <3>2 DEF PopupCreate, DashboardTypeOK,
        Idle, main, rest
    <3>3. CASE /\ windows' = windows
               /\ mpc' = "resume_unpause" /\ confirmed' = FALSE /\ UNCHANGED popup
      BY <1>6, <2>1, <2>2, <2>3, <3>3 DEF PopupCreate, DashboardTypeOK,
        main, rest
    <3> QED
      BY <1>6, <3>1, <3>2, <3>3 DEF PopupCreate
<1>7. CASE PopupDraw
  <2>1. RuntimeTypeOK'
    BY <1>7 DEF PopupDraw, RuntimeTypeOK, runtime
  <2>2. ThreadsTypeOK'
    BY <1>7 DEF PopupDraw, ThreadsTypeOK, workers, shared, panels
  <2>3. mpc' \in MainLabels
    BY <1>7 DEF PopupDraw, Then, MainLabels, JoinLabels
  <2> QED
    BY <1>7, <2>1, <2>2, <2>3 DEF PopupDraw, DashboardTypeOK, Then, main,
      rest
<1>8. CASE PopupClose
  <2>1. RuntimeTypeOK'
    BY <1>8 DEF PopupClose, RuntimeTypeOK, runtime
  <2>2. ThreadsTypeOK'
    BY <1>8 DEF PopupClose, ThreadsTypeOK, workers, shared, panels
  <2>3. mpc' \in MainLabels
    BY <1>8 DEF PopupClose, Then, MainLabels, JoinLabels
  <2> QED
    BY <1>8, <2>1, <2>2, <2>3 DEF PopupClose, DashboardTypeOK, Then, main,
      rest
<1>9. CASE ResumeUnpause
  <2>1. RuntimeTypeOK'
    BY <1>9 DEF ResumeUnpause, SetPaused, RuntimeTypeOK, runtime
  <2>2. ThreadsTypeOK'
    BY <1>9 DEF ResumeUnpause, ThreadsTypeOK, workers, shared, panels
  <2>3. mpc' \in MainLabels
    BY <1>9 DEF ResumeUnpause, Then, MainLabels, JoinLabels
  <2> QED
    BY <1>9, <2>1, <2>2, <2>3 DEF ResumeUnpause, DashboardTypeOK, Then,
      main, rest
<1>10. CASE ResumeRequest
  <2>1. RuntimeTypeOK'
    BY <1>10 DEF ResumeRequest, RequestRefresh, RequestStaticRefreshAll,
      RuntimeTypeOK, runtime
  <2>2. ThreadsTypeOK'
    BY <1>10, RefreshTypes DEF ResumeRequest, RequestRefresh,
      ThreadsTypeOK, workers, shared, panels
  <2>3. mpc' \in MainLabels
    BY <1>10 DEF ResumeRequest, Then, MainLabels, JoinLabels
  <2> QED
    BY <1>10, <2>1, <2>2, <2>3 DEF ResumeRequest, DashboardTypeOK, Then,
      main, rest
<1>11. CASE AfterPopup
  <2>1. RuntimeTypeOK'
    BY <1>11 DEF AfterPopup, RuntimeTypeOK, runtime
  <2>2. ThreadsTypeOK'
    BY <1>11 DEF AfterPopup, ThreadsTypeOK, workers, shared, panels
  <2>3. mpc' \in MainLabels
    BY <1>11 DEF AfterPopup, Open, Idle, Popups, Pausing, Choosers, Then,
      MainLabels, JoinLabels
  <2> QED
    <3>1. CASE \E kind \in Popups : Open(kind)
      BY <1>11, <2>1, <2>2, <3>1, OpenType DEF AfterPopup, DashboardTypeOK, rest
    <3>2. CASE Then("start_primary") \/ Idle
      BY <1>11, <2>1, <2>2, <2>3, <3>2 DEF AfterPopup, Then, Idle,
        DashboardTypeOK, rest
    <3> QED
      BY <1>11, <3>1, <3>2 DEF AfterPopup, Popups, Pausing
<1>12. CASE JoinPrimary
  <2>1. RuntimeTypeOK'
    BY <1>12 DEF JoinPrimary, RuntimeTypeOK, runtime
  <2>2. ThreadsTypeOK'
    BY <1>12 DEF JoinPrimary, Join, Labels, ThreadsTypeOK, workers,
      shared, panels
  <2>3. mpc' \in MainLabels
    BY <1>12 DEF JoinPrimary, Open, Popups, Pausing, Then, MainLabels,
      JoinLabels
  <2> QED
    <3>1. CASE Open("module_selector") /\ thread_id' = "zero"
      <4>1. "module_selector" \in Popups
        BY DEF Popups, Pausing
      <4> QED
        BY <1>12, <2>1, <2>2, <3>1, <4>1, OpenType DEF JoinPrimary, DashboardTypeOK
    <3>2. CASE Then("crashed") /\ UNCHANGED thread_id
      BY <1>12, <2>1, <2>2, <2>3, <3>2 DEF JoinPrimary, Then, DashboardTypeOK
    <3> QED
      BY <1>12, <3>1, <3>2 DEF JoinPrimary
<1>13. CASE StartPrimary
  <2>1. RuntimeTypeOK'
    BY <1>13 DEF StartPrimary, RuntimeTypeOK, runtime
  <2>2. ThreadsTypeOK'
    BY <1>13, StopFlagType DEF StartPrimary, Started, Labels,
      ThreadsTypeOK, workers, shared, panels
  <2>3. mpc' \in MainLabels
    BY <1>13 DEF StartPrimary, Idle, Then, MainLabels, JoinLabels
  <2> QED
    BY <1>13, <2>1, <2>2, <2>3 DEF StartPrimary, Idle, DashboardTypeOK,
      Then, main, rest
<1>14. CASE SmallMessage
  <2>1. RuntimeTypeOK'
    BY <1>14 DEF SmallMessage, RuntimeTypeOK, runtime
  <2>2. ThreadsTypeOK'
    BY <1>14 DEF SmallMessage, ThreadsTypeOK, workers, shared, panels
  <2>3. mpc' \in MainLabels
    BY <1>14 DEF SmallMessage, Then, MainLabels, JoinLabels
  <2> QED
    BY <1>14, <2>1, <2>2, <2>3 DEF SmallMessage, DashboardTypeOK, Then,
      main, rest
<1>15. CASE TogglePause
  <2>1. RuntimeTypeOK'
    BY <1>15 DEF TogglePause, SetPaused, RuntimeTypeOK, runtime
  <2>2. ThreadsTypeOK'
    BY <1>15 DEF TogglePause, ThreadsTypeOK, workers, shared, panels
  <2>3. mpc' \in MainLabels
    BY <1>15 DEF TogglePause, Then, MainLabels, JoinLabels
  <2> QED
    BY <1>15, <2>1, <2>2, <2>3 DEF TogglePause, DashboardTypeOK, Then,
      main, rest
<1>16. CASE ApplyFrame
  <2>1. RuntimeTypeOK'
    BY <1>16 DEF ApplyFrame, RuntimeTypeOK, runtime
  <2>2. ThreadsTypeOK'
    BY <1>16 DEF ApplyFrame, ThreadsTypeOK, DashboardTypeOK, workers
  <2>3. mpc' \in MainLabels
    BY <1>16 DEF ApplyFrame, Then, MainLabels, JoinLabels
  <2> QED
    BY <1>16, <2>1, <2>2, <2>3 DEF ApplyFrame, DashboardTypeOK, Then,
      main, rest
<1>17. CASE SyncSupport
  <2>1. RuntimeTypeOK'
    BY <1>17 DEF SyncSupport, RuntimeTypeOK, runtime
  <2>2. ThreadsTypeOK'
    BY <1>17, StopFlagType DEF SyncSupport, StopSupport, ThreadsTypeOK,
      workers, shared, panels
  <2>3. mpc' \in MainLabels
    BY <1>17 DEF SyncSupport, StopSupport, AfterSync, Then, MainLabels,
      JoinLabels
  <2> QED
    BY <1>17, <2>1, <2>2, <2>3 DEF SyncSupport, StopSupport, AfterSync,
      DashboardTypeOK, Then, main, rest
<1>18. CASE StartSupport
  <2>1. RuntimeTypeOK'
    BY <1>18 DEF StartSupport, RuntimeTypeOK, runtime
  <2>2. ThreadsTypeOK'
    BY <1>18, StopFlagType DEF StartSupport, Started, Labels,
      ThreadsTypeOK, workers, shared, panels
  <2>3. mpc' \in MainLabels
    BY <1>18 DEF StartSupport, AfterSync, Then, MainLabels, JoinLabels
  <2> QED
    BY <1>18, <2>1, <2>2, <2>3 DEF StartSupport, AfterSync,
      DashboardTypeOK, Then, main, rest
<1>19. CASE JoinSupport
  <2>1. RuntimeTypeOK'
    BY <1>19 DEF JoinSupport, RuntimeTypeOK, runtime
  <2>2. ThreadsTypeOK'
    BY <1>19 DEF JoinSupport, Join, Labels, ThreadsTypeOK, workers,
      shared, panels
  <2>3. mpc' \in MainLabels
    BY <1>19 DEF JoinSupport, Then, MainLabels, JoinLabels
  <2> QED
    BY <1>19, <2>1, <2>2, <2>3 DEF JoinSupport, DashboardTypeOK, Then,
      main, rest
<1>20. CASE DeleteSupport
  <2>1. RuntimeTypeOK'
    BY <1>20 DEF DeleteSupport, RuntimeTypeOK, runtime
  <2>2. ThreadsTypeOK'
    BY <1>20 DEF DeleteSupport, ThreadsTypeOK, workers, shared, panels
  <2>3. mpc' \in MainLabels
    BY <1>20 DEF DeleteSupport, Then, MainLabels, JoinLabels
  <2> QED
    BY <1>20, <2>1, <2>2, <2>3 DEF DeleteSupport, DashboardTypeOK, Then,
      main, rest
<1>21. CASE FrameBorders
  <2>1. RuntimeTypeOK'
    BY <1>21 DEF FrameBorders, RuntimeTypeOK, runtime
  <2>2. ThreadsTypeOK'
    BY <1>21 DEF FrameBorders, EraseTopPanels, Data, ThreadsTypeOK,
      workers, shared, panels
  <2>3. mpc' \in MainLabels
    BY <1>21 DEF FrameBorders, Then, MainLabels, JoinLabels
  <2> QED
    BY <1>21, <2>1, <2>2, <2>3 DEF FrameBorders, DashboardTypeOK, Then,
      main, rest
<1>22. CASE RequestData
  <2>1. RuntimeTypeOK'
    BY <1>22 DEF RequestData, RequestRefresh, RequestStaticRefreshAll,
      RuntimeTypeOK, runtime
  <2>2. ThreadsTypeOK'
    BY <1>22, RefreshTypes DEF RequestData, RequestRefresh, ThreadsTypeOK,
      workers, shared, panels
  <2>3. mpc' \in MainLabels
    BY <1>22 DEF RequestData, Then, MainLabels, JoinLabels
  <2> QED
    BY <1>22, <2>1, <2>2, <2>3 DEF RequestData, DashboardTypeOK, Then,
      main, rest
<1>23. CASE RequestUnpause
  <2>1. RuntimeTypeOK'
    BY <1>23 DEF RequestUnpause, SetPaused, RuntimeTypeOK, runtime
  <2>2. ThreadsTypeOK'
    BY <1>23 DEF RequestUnpause, ThreadsTypeOK, workers, shared, panels
  <2>3. mpc' \in MainLabels
    BY <1>23 DEF RequestUnpause, Then, MainLabels, JoinLabels
  <2> QED
    BY <1>23, <2>1, <2>2, <2>3 DEF RequestUnpause, DashboardTypeOK, Then,
      main, rest
<1>24. CASE JoinStatic
  <2>1. RuntimeTypeOK'
    BY <1>24 DEF JoinStatic, RuntimeTypeOK, runtime
  <2>2. ThreadsTypeOK'
    <3>1. pc' \in [Threads -> Labels]
      BY <1>24 DEF JoinStatic, Join, Labels, ThreadsTypeOK
    <3>2. local_stop' \in [Dynamic -> BOOLEAN]
      <4>1. CASE local_stop' = local_stop
        BY <4>1 DEF ThreadsTypeOK
      <4>2. CASE StopSupport
        <5>1. (support_active \/ local_stop[Support]) \in BOOLEAN
          OBVIOUS
        <5> QED
          BY <4>2, <5>1, StopFlagType DEF StopSupport
      <4> QED
        BY <1>24, <4>1, <4>2 DEF JoinStatic
    <3> QED
      BY <1>24, <3>1, <3>2 DEF JoinStatic, ThreadsTypeOK, panels
  <2>3. mpc' \in MainLabels
    BY <1>24 DEF JoinStatic, StopSupport, Then, MainLabels, JoinLabels
  <2> QED
    BY <1>24, <2>1, <2>2, <2>3 DEF JoinStatic, StopSupport,
      DashboardTypeOK, Then, main, rest
<1>25. CASE StopRow2
  <2>1. RuntimeTypeOK'
    BY <1>25 DEF StopRow2, RuntimeTypeOK, runtime
  <2>2. ThreadsTypeOK'
    BY <1>25, StopFlagType DEF StopRow2, ThreadsTypeOK, workers, shared,
      panels
  <2>3. mpc' \in MainLabels
    BY <1>25 DEF StopRow2, Then, MainLabels, JoinLabels
  <2> QED
    BY <1>25, <2>1, <2>2, <2>3 DEF StopRow2, DashboardTypeOK, Then, main,
      rest
<1>26. CASE JoinRow2
  <2>1. RuntimeTypeOK'
    BY <1>26 DEF JoinRow2, RuntimeTypeOK, runtime
  <2>2. ThreadsTypeOK'
    BY <1>26 DEF JoinRow2, Join, Labels, ThreadsTypeOK, workers, shared,
      panels
  <2>3. mpc' \in MainLabels
    BY <1>26 DEF JoinRow2, Then, MainLabels, JoinLabels
  <2> QED
    BY <1>26, <2>1, <2>2, <2>3 DEF JoinRow2, DashboardTypeOK, Then, main,
      rest
<1>27. CASE DeleteRow2
  <2>1. RuntimeTypeOK'
    BY <1>27 DEF DeleteRow2, RuntimeTypeOK, runtime
  <2>2. ThreadsTypeOK'
    BY <1>27 DEF DeleteRow2, ThreadsTypeOK, workers, shared, panels
  <2>3. mpc' \in MainLabels
    BY <1>27 DEF DeleteRow2, Then, MainLabels, JoinLabels
  <2> QED
    BY <1>27, <2>1, <2>2, <2>3 DEF DeleteRow2, DashboardTypeOK, Then,
      main, rest
<1>28. CASE DeleteStatic
  <2>1. RuntimeTypeOK'
    BY <1>28 DEF DeleteStatic, RuntimeTypeOK, runtime
  <2>2. ThreadsTypeOK'
    BY <1>28 DEF DeleteStatic, ThreadsTypeOK, workers, shared, panels
  <2>3. mpc' \in MainLabels
    BY <1>28 DEF DeleteStatic, Then, MainLabels, JoinLabels
  <2> QED
    BY <1>28, <2>1, <2>2, <2>3 DEF DeleteStatic, DashboardTypeOK, Then,
      main, rest
<1> QED
  BY <1>1, <1>2, <1>3, <1>4, <1>5, <1>6, <1>7, <1>8, <1>9, <1>10, <1>11,
     <1>12, <1>13, <1>14, <1>15, <1>16, <1>17, <1>18, <1>19, <1>20, <1>21,
     <1>22, <1>23, <1>24, <1>25, <1>26, <1>27, <1>28 DEF MainStep

LEMMA TypeStep ==
  ASSUME TypeOK, [Next]_vars
  PROVE  TypeOK'
<1>1. CASE Key
  BY <1>1, KeyType
<1>2. CASE MainStep
  BY <1>2, MainType
<1>3. CASE \E t \in Threads : WorkerStep(t)
  BY <1>3, WorkerType
<1>4. CASE UNCHANGED vars
  BY <1>4 DEF vars, runtime, workers, shared, main, rest, TypeOK,
    RuntimeTypeOK, ThreadsTypeOK, DashboardTypeOK
<1> QED
  BY <1>1, <1>2, <1>3, <1>4 DEF Next, Terminating

LEMMA InitType == Init => TypeOK
<1> SUFFICES ASSUME Init PROVE TypeOK
  OBVIOUS
<1>1. term \in Size
  BY DashboardAssumption DEF Init
<1>2. frame \in [h : Nat, w : Nat, show : BOOLEAN]
  BY <1>1 DEF Init
<1>3. RuntimeTypeOK
  BY DEF Init, RuntimeReset, RuntimeTypeOK
<1>4. ThreadsTypeOK
  BY <1>2 DEF Init, ThreadsInit, ThreadsTypeOK, Labels, Data
<1>5. DashboardTypeOK
  BY <1>1 DEF Init, DashboardTypeOK, MainLabels
<1> QED
  BY <1>3, <1>4, <1>5 DEF TypeOK

(* Every variable of the dashboard keeps its type. *)
THEOREM DashboardTypes == Spec => []TypeOK
<1>1. TypeOK /\ [Next]_vars => TypeOK'
  BY TypeStep
<1> QED
  BY <1>1, InitType, PTL DEF Spec

-----------------------------------------------------------------------------
(* PaneInv without the types. *)
PaneFacts ==
  /\ NoUseAfterDelete
  /\ NoThreadWithoutHandle
  /\ StaticGoneAfterQuit
  /\ ReadyToStart
  /\ ReadyToDelete

(* All a worker's step does to the panes: a thread that runs moves on, and  *)
(* does not become one that was never started.                              *)
LEMMA WorkerMoves ==
  ASSUME TypeOK, NEW t \in Threads, WorkerStep(t)
  PROVE  /\ Running(t)
         /\ pc'[t] # "none" /\ \A u \in Threads \ {t} : pc'[u] = pc[u]
         /\ UNCHANGED <<stop_requested, module_index, main, rest>>
<1> USE DEF TypeOK, ThreadsTypeOK, Running, Goto, runtime, shared
<1>0. Worker(t) /\ UNCHANGED <<main, rest>>
  BY DEF WorkerStep
<1>1. CASE WaitUntilReady(t)
  BY <1>0, <1>1 DEF WaitUntilReady
<1>2. CASE TestStop(t)
  BY <1>0, <1>2 DEF TestStop
<1>3. CASE TestPaused(t)
  BY <1>0, <1>3 DEF TestPaused, AfterPauseCheck
<1>4. CASE TestShow(t)
  BY <1>0, <1>4 DEF TestShow
<1>5. CASE SleepOver(t)
  BY <1>0, <1>5 DEF SleepOver
<1>6. CASE LockNcurses(t)
  BY <1>0, <1>6 DEF LockNcurses
<1>7. CASE ClearWindow(t)
  BY <1>0, <1>7 DEF ClearWindow
<1>8. CASE Collect(t)
  BY <1>0, <1>8 DEF Collect
<1>9. CASE Paint(t)
  BY <1>0, <1>9 DEF Paint
<1>10. CASE WaitOver(t)
  BY <1>0, <1>10 DEF WaitOver, ConsumeStaticRefresh
<1> QED
  BY <1>0, <1>1, <1>2, <1>3, <1>4, <1>5, <1>6, <1>7, <1>8, <1>9, <1>10
  DEF Worker

(* Popups have windows of their own. *)
LEMMA PopupNotThread ==
  ASSUME TypeOK
  PROVE  popup \notin Threads
BY DashboardAssumption
DEF TypeOK, DashboardTypeOK, Popups, Choosers, Pausing, NoPopup

LEMMA WorkerPanes ==
  ASSUME PaneInv, NEW t \in Threads, WorkerStep(t)
  PROVE  PaneFacts'
<1>1. /\ Running(t)
      /\ pc'[t] # "none" /\ \A u \in Threads \ {t} : pc'[u] = pc[u]
      /\ UNCHANGED <<stop_requested, module_index, main, rest>>
  BY WorkerMoves DEF PaneInv
<1> QED
  BY <1>1, ThreadAssumption
  DEF PaneInv, PaneFacts, NoUseAfterDelete, NoThreadWithoutHandle,
      StaticGoneAfterQuit, ReadyToStart, ReadyToDelete, Running, main, rest

LEMMA KeyPanes ==
  ASSUME PaneInv, Key
  PROVE  PaneFacts'
<1> USE DEF PaneInv, PaneFacts, NoUseAfterDelete, NoThreadWithoutHandle,
          StaticGoneAfterQuit, ReadyToStart, ReadyToDelete, QuitLabels, Running,
        At, Then, KeyIdle, NoPopup, runtime, workers, shared, rest, panels
<1>0. pc \in [Threads -> Labels] /\ popup \notin Threads
  BY PopupNotThread DEF TypeOK, ThreadsTypeOK
<1>1. CASE KeyQuit
  BY <1>1 DEF KeyQuit, RequestStop
<1>2. CASE KeyRefresh
  BY <1>2 DEF KeyRefresh, RequestRefresh, RequestStaticRefreshAll
<1>3. CASE KeyChange
  BY <1>3 DEF KeyChange, Open
<1>4. CASE KeyPopup
  BY <1>4 DEF KeyPopup, Open
<1>5. CASE KeyToggle
  BY <1>5 DEF KeyToggle
<1>6. CASE KeyResize
  BY <1>6 DEF KeyResize
<1>7. CASE PopupResize
  BY <1>7 DEF PopupResize
<1>8. ASSUME NEW key \in PopupKeys, PopupKey(key) PROVE PaneFacts'
  BY <1>0, <1>8 DEF PopupKey, Idle
<1> QED
  BY <1>1, <1>2, <1>3, <1>4, <1>5, <1>6, <1>7, <1>8 DEF Key

LEMMA MainPanes ==
  ASSUME PaneInv, MainStep
  PROVE  PaneFacts'
<1> USE DEF PaneInv, PaneFacts, NoUseAfterDelete, NoThreadWithoutHandle,
          StaticGoneAfterQuit, ReadyToStart, ReadyToDelete, QuitLabels, Running,
        At, Then, KeyIdle, NoPopup, runtime, workers, shared, rest, panels
<1>0. pc \in [Threads -> Labels] /\ popup \notin Threads
  BY PopupNotThread DEF TypeOK, ThreadsTypeOK
<1>1. CASE StartStatic
  BY <1>1, <1>0, ThreadAssumption DEF StartStatic
<1>2. CASE StartRow2
  BY <1>2, <1>0, ThreadAssumption, DashboardAssumption DEF StartRow2,
    Started
<1>3. CASE FinishStart
  BY <1>3 DEF FinishStart, SetReady, Idle
<1>4. CASE RefreshErase
  BY <1>4 DEF RefreshErase, EraseTopPanels
<1>5. CASE PopupPause
  BY <1>5 DEF PopupPause, SetPaused
<1>6. CASE PopupCreate
  BY <1>6 DEF PopupCreate, Idle
<1>7. CASE PopupDraw
  BY <1>7 DEF PopupDraw
<1>8. CASE PopupClose
  BY <1>8, <1>0 DEF PopupClose
<1>9. CASE ResumeUnpause
  BY <1>9 DEF ResumeUnpause, SetPaused
<1>10. CASE ResumeRequest
  BY <1>10 DEF ResumeRequest, RequestRefresh, RequestStaticRefreshAll
<1>11. CASE AfterPopup
  BY <1>11 DEF AfterPopup, Open, Idle
<1>12. CASE JoinPrimary
  BY <1>12 DEF JoinPrimary, Join, Open
<1>13. CASE StartPrimary
  BY <1>13, <1>0, ThreadAssumption DEF StartPrimary, Started, Idle
<1>14. CASE SmallMessage
  BY <1>14 DEF SmallMessage
<1>15. CASE TogglePause
  BY <1>15 DEF TogglePause, SetPaused
<1>16. CASE ApplyFrame
  BY <1>16 DEF ApplyFrame
<1>17. CASE SyncSupport
  BY <1>17 DEF SyncSupport, StopSupport, AfterSync
<1>18. CASE StartSupport
  BY <1>18, <1>0, ThreadAssumption DEF StartSupport, Started, AfterSync
<1>19. CASE JoinSupport
  BY <1>19 DEF JoinSupport, Join
<1>20. CASE DeleteSupport
  BY <1>20 DEF DeleteSupport
<1>21. CASE FrameBorders
  BY <1>21 DEF FrameBorders, EraseTopPanels
<1>22. CASE RequestData
  BY <1>22 DEF RequestData, RequestRefresh, RequestStaticRefreshAll
<1>23. CASE RequestUnpause
  BY <1>23 DEF RequestUnpause, SetPaused
<1>24. CASE JoinStatic
  BY <1>24 DEF JoinStatic, Join, StopSupport
<1>25. CASE StopRow2
  BY <1>25 DEF StopRow2
<1>26. CASE JoinRow2
  BY <1>26 DEF JoinRow2, Join
<1>27. CASE DeleteRow2
  BY <1>27 DEF DeleteRow2
<1>28. CASE DeleteStatic
  BY <1>28 DEF DeleteStatic
<1> QED
  BY <1>1, <1>2, <1>3, <1>4, <1>5, <1>6, <1>7, <1>8, <1>9, <1>10,
     <1>11, <1>12, <1>13, <1>14, <1>15, <1>16, <1>17, <1>18, <1>19,
     <1>20, <1>21, <1>22, <1>23, <1>24, <1>25, <1>26, <1>27, <1>28 DEF
     MainStep

(* PaneInv is inductive. *)
LEMMA PaneInvStep ==
  ASSUME PaneInv, [Next]_vars
  PROVE  PaneInv'
<1>0. TypeOK'
  BY TypeStep DEF PaneInv
<1>1. CASE Key
  BY <1>0, <1>1, KeyPanes DEF PaneInv, PaneFacts
<1>2. CASE MainStep
  BY <1>0, <1>2, MainPanes DEF PaneInv, PaneFacts
<1>3. CASE \E t \in Threads : WorkerStep(t)
  BY <1>0, <1>3, WorkerPanes DEF PaneInv, PaneFacts
<1>4. CASE UNCHANGED vars
  BY <1>0, <1>4
  DEF vars, runtime, workers, shared, main, rest, PaneInv, NoUseAfterDelete,
      NoThreadWithoutHandle, StaticGoneAfterQuit, ReadyToStart,
      ReadyToDelete, Running
<1> QED
  BY <1>1, <1>2, <1>3, <1>4 DEF Next, Terminating

(* The invariant of the panes, for any terminal sizes, modules and top     *)
(* panels, and whatever allocation or thread creation fails.               *)
THEOREM PaneInvHolds == Spec => []PaneInv
<1>1. Init => PaneInv
  BY InitType, ThreadAssumption
  DEF Init, RuntimeReset, ThreadsInit, PaneInv, NoUseAfterDelete,
      NoThreadWithoutHandle, StaticGoneAfterQuit, ReadyToStart, ReadyToDelete,
      Running, QuitLabels, NoPopup
<1> QED
  BY <1>1, PaneInvStep, PTL DEF Spec

(* No worker of the dashboard is ever left with a WINDOW that the main     *)
(* thread has deleted: every delwin of a pane comes after the pthread_join *)
(* of the thread that was given the pointer.                               *)
THEOREM NoUseAfterDeleteHolds == Spec => []NoUseAfterDelete
<1>1. PaneInv => NoUseAfterDelete
  BY DEF PaneInv
<1> QED
  BY <1>1, PaneInvHolds, PTL

-----------------------------------------------------------------------------
(* The moves a pane can make in one step of the dashboard: it stays vacant, *)
(* gets a thread, loses one that returned, is left alone, or its thread     *)
(* moves on.                                                                *)
StopKept(t) ==
  /\ stop_requested => stop_requested'
  /\ t \in Dynamic /\ local_stop[t] => local_stop'[t]

PaneMove(t) ==
  \/ pc[t] = "none" /\ pc'[t] = "none"
  \/ pc[t] = "none" /\ pc'[t] = "wait_ready" /\ t \in windows'
  \/ pc[t] = "exited" /\ pc'[t] = "none" /\ UNCHANGED windows /\ StopKept(t)
  \/ /\ pc[t] # "none" /\ pc'[t] = pc[t]
     /\ t \in windows => t \in windows'
     /\ StopKept(t)
  \/ /\ Running(t) /\ pc'[t] \notin {"none", "wait_ready"}
     /\ pc'[t] = "exited" => Asked(t)
     /\ UNCHANGED windows /\ StopKept(t)

(* Setting a stop flag withdraws none. *)
LEMMA StopRaised ==
  ASSUME TypeOK, NEW d \in Dynamic, NEW v \in BOOLEAN, local_stop[d] => v,
         local_stop' = [local_stop EXCEPT ![d] = v]
  PROVE  \A t \in Dynamic : local_stop[t] => local_stop'[t]
BY Zenon DEF TypeOK, ThreadsTypeOK

LEMMA StopSupportRaises ==
  ASSUME TypeOK, StopSupport
  PROVE  \A t \in Dynamic : local_stop[t] => local_stop'[t]
<1> DEFINE v == support_active \/ local_stop[Support]
<1>1. Support \in Dynamic
  BY DEF Dynamic
<1>2. v \in BOOLEAN /\ (local_stop[Support] => v)
  BY DEF TypeOK, DashboardTypeOK
<1>3. local_stop' = [local_stop EXCEPT ![Support] = v]
  BY DEF StopSupport
<1> HIDE DEF v
<1> QED
  BY <1>1, <1>2, <1>3, StopRaised

LEMMA KeyMoves ==
  ASSUME PaneInv, Key
  PROVE  \A t \in Threads : PaneMove(t)
<1> USE DEF PaneInv, NoUseAfterDelete, NoThreadWithoutHandle,
          StaticGoneAfterQuit, ReadyToStart, ReadyToDelete, QuitLabels,
          Running, PaneMove, StopKept, At, Then, KeyIdle, runtime, workers,
          shared, rest, panels
<1>0. pc \in [Threads -> Labels] /\ popup \notin Threads
      /\ local_stop \in [Dynamic -> BOOLEAN]
  BY PopupNotThread DEF TypeOK, ThreadsTypeOK
<1> SUFFICES ASSUME NEW t \in Threads PROVE PaneMove(t)
  OBVIOUS
<1>1. CASE KeyQuit
  BY <1>1 DEF KeyQuit, RequestStop
<1>2. CASE KeyRefresh
  BY <1>2 DEF KeyRefresh, RequestRefresh, RequestStaticRefreshAll
<1>3. CASE KeyChange
  <2>1. \A d \in Dynamic : local_stop[d] => local_stop'[d]
    <3>1. Primary \in Dynamic
      BY DEF Dynamic
    <3>2. CASE local_stop' = [local_stop EXCEPT ![Primary] = TRUE]
      BY ONLY <3>1, <3>2, PaneInv, StopRaised DEF PaneInv
    <3>3. CASE UNCHANGED local_stop
      BY <3>3
    <3> QED
      BY <1>3, <3>2, <3>3 DEF KeyChange
  <2>2. UNCHANGED <<pc, windows, stop_requested>>
    BY <1>3 DEF KeyChange
  <2> QED
    BY <2>1, <2>2
<1>4. CASE KeyPopup
  BY <1>4 DEF KeyPopup, Open
<1>5. CASE KeyToggle
  BY <1>5 DEF KeyToggle
<1>6. CASE KeyResize
  BY <1>6 DEF KeyResize
<1>7. CASE PopupResize
  BY <1>7 DEF PopupResize
<1>8. ASSUME NEW key \in PopupKeys, PopupKey(key) PROVE PaneMove(t)
  BY <1>0, <1>8 DEF PopupKey, Idle
<1> QED
  BY <1>1, <1>2, <1>3, <1>4, <1>5, <1>6, <1>7, <1>8 DEF Key

LEMMA MainMoves ==
  ASSUME PaneInv, MainStep
  PROVE  \A t \in Threads : PaneMove(t)
<1> USE DEF PaneInv, NoUseAfterDelete, NoThreadWithoutHandle,
          StaticGoneAfterQuit, ReadyToStart, ReadyToDelete, QuitLabels,
          Running, PaneMove, StopKept, At, Then, KeyIdle, runtime, workers,
          shared, rest, panels
<1>0. pc \in [Threads -> Labels] /\ popup \notin Threads
      /\ local_stop \in [Dynamic -> BOOLEAN]
  BY PopupNotThread DEF TypeOK, ThreadsTypeOK
<1> SUFFICES ASSUME NEW t \in Threads PROVE PaneMove(t)
  OBVIOUS
<1>1. CASE StartStatic
  BY <1>1, <1>0, ThreadAssumption DEF StartStatic
<1>2. CASE StartRow2
  BY <1>2, <1>0, ThreadAssumption DEF StartRow2, Started
<1>3. CASE FinishStart
  BY <1>3 DEF FinishStart, SetReady
<1>4. CASE RefreshErase
  BY <1>4 DEF RefreshErase, EraseTopPanels
<1>5. CASE PopupPause
  BY <1>5 DEF PopupPause, SetPaused
<1>6. CASE PopupCreate
  BY <1>6 DEF PopupCreate, Idle
<1>7. CASE PopupDraw
  BY <1>7 DEF PopupDraw
<1>8. CASE PopupClose
  BY <1>8, <1>0 DEF PopupClose
<1>9. CASE ResumeUnpause
  BY <1>9 DEF ResumeUnpause, SetPaused
<1>10. CASE ResumeRequest
  BY <1>10 DEF ResumeRequest, RequestRefresh, RequestStaticRefreshAll
<1>11. CASE AfterPopup
  BY <1>11 DEF AfterPopup, Open
<1>12. CASE JoinPrimary
  BY <1>12 DEF JoinPrimary, Join, Open
<1>13. CASE StartPrimary
  BY <1>13, <1>0, ThreadAssumption DEF StartPrimary, Started
<1>14. CASE SmallMessage
  BY <1>14 DEF SmallMessage
<1>15. CASE TogglePause
  BY <1>15 DEF TogglePause, SetPaused
<1>16. CASE ApplyFrame
  BY <1>16 DEF ApplyFrame
<1>17. CASE SyncSupport
  <2>1. \A d \in Dynamic : local_stop[d] => local_stop'[d]
    BY <1>17, StopSupportRaises DEF SyncSupport
  <2>2. /\ UNCHANGED <<pc, stop_requested>>
        /\ t \in windows => t \in windows'
    BY <1>17 DEF SyncSupport
  <2> QED
    BY <2>1, <2>2
<1>18. CASE StartSupport
  BY <1>18, <1>0, ThreadAssumption DEF StartSupport, Started
<1>19. CASE JoinSupport
  BY <1>19 DEF JoinSupport, Join
<1>20. CASE DeleteSupport
  BY <1>20 DEF DeleteSupport
<1>21. CASE FrameBorders
  BY <1>21 DEF FrameBorders, EraseTopPanels
<1>22. CASE RequestData
  BY <1>22 DEF RequestData, RequestRefresh, RequestStaticRefreshAll
<1>23. CASE RequestUnpause
  BY <1>23 DEF RequestUnpause, SetPaused
<1>24. CASE JoinStatic
  <2>1. \A d \in Dynamic : local_stop[d] => local_stop'[d]
    BY <1>24, StopSupportRaises DEF JoinStatic
  <2>2. UNCHANGED <<windows, stop_requested>>
    BY <1>24 DEF JoinStatic
  <2>3. CASE UNCHANGED pc
    BY <2>1, <2>2, <2>3
  <2>4. CASE Join(StaticModules)
    BY <2>1, <2>2, <2>4 DEF Join
  <2> QED
    BY <1>24, <2>3, <2>4 DEF JoinStatic
<1>25. CASE StopRow2
  <2>1. \A d \in Dynamic : local_stop[d] => local_stop'[d]
    <3>1. Primary \in Dynamic
      BY DEF Dynamic
    <3>2. CASE local_stop' = [local_stop EXCEPT ![Primary] = TRUE]
      BY ONLY <3>1, <3>2, PaneInv, StopRaised DEF PaneInv
    <3>3. CASE UNCHANGED local_stop
      BY <3>3
    <3> QED
      BY <1>25, <3>2, <3>3 DEF StopRow2
  <2>2. UNCHANGED <<pc, windows, stop_requested>>
    BY <1>25 DEF StopRow2
  <2> QED
    BY <2>1, <2>2
<1>26. CASE JoinRow2
  BY <1>26 DEF JoinRow2, Join
<1>27. CASE DeleteRow2
  BY <1>27 DEF DeleteRow2
<1>28. CASE DeleteStatic
  BY <1>28 DEF DeleteStatic
<1> QED
  BY <1>1, <1>2, <1>3, <1>4, <1>5, <1>6, <1>7, <1>8, <1>9, <1>10,
     <1>11, <1>12, <1>13, <1>14, <1>15, <1>16, <1>17, <1>18, <1>19,
     <1>20, <1>21, <1>22, <1>23, <1>24, <1>25, <1>26, <1>27, <1>28 DEF
     MainStep

(* A worker never goes back to its start, and returns only when it has been *)
(* asked to.                                                                *)
LEMMA WorkerGoes ==
  ASSUME TypeOK, NEW t \in Threads, WorkerStep(t)
  PROVE  /\ pc'[t] # "wait_ready"
         /\ pc'[t] = "exited" => Asked(t)
         /\ UNCHANGED local_stop
<1> USE DEF TypeOK, ThreadsTypeOK, Goto, shared
<1>0. Worker(t)
  BY DEF WorkerStep
<1>1. CASE WaitUntilReady(t)
  BY <1>1 DEF WaitUntilReady
<1>2. CASE TestStop(t)
  BY <1>2 DEF TestStop, ShouldStop, Asked
<1>3. CASE TestPaused(t)
  BY <1>3 DEF TestPaused, AfterPauseCheck
<1>4. CASE TestShow(t)
  BY <1>4 DEF TestShow
<1>5. CASE SleepOver(t)
  BY <1>5 DEF SleepOver
<1>6. CASE LockNcurses(t)
  BY <1>6 DEF LockNcurses
<1>7. CASE ClearWindow(t)
  BY <1>7 DEF ClearWindow
<1>8. CASE Collect(t)
  BY <1>8 DEF Collect
<1>9. CASE Paint(t)
  BY <1>9 DEF Paint
<1>10. CASE WaitOver(t)
  BY <1>10 DEF WaitOver
<1> QED
  BY <1>0, <1>1, <1>2, <1>3, <1>4, <1>5, <1>6, <1>7, <1>8, <1>9, <1>10
  DEF Worker

LEMMA WorkerPaneMoves ==
  ASSUME PaneInv, NEW u \in Threads, WorkerStep(u)
  PROVE  \A t \in Threads : PaneMove(t)
<1>1. /\ Running(u)
      /\ pc'[u] # "none" /\ \A t \in Threads \ {u} : pc'[t] = pc[t]
      /\ UNCHANGED <<stop_requested, module_index, main, rest>>
  BY WorkerMoves DEF PaneInv
<1>2. /\ pc'[u] # "wait_ready"
      /\ pc'[u] = "exited" => Asked(u)
      /\ UNCHANGED local_stop
  BY WorkerGoes DEF PaneInv
<1>3. pc'[u] # "none" /\ UNCHANGED <<windows, stop_requested>>
  BY <1>1 DEF rest
<1> QED
  BY <1>1, <1>2, <1>3 DEF PaneMove, StopKept, Running

LEMMA PaneMoves ==
  ASSUME PaneInv, [Next]_vars
  PROVE  (\A t \in Threads : PaneMove(t)) \/ UNCHANGED vars
BY KeyMoves, MainMoves, WorkerPaneMoves DEF Next, Terminating

(* A pane gets a thread only when the last one has been joined, and until  *)
(* then the request to stop it stands: change_window_module and            *)
(* sync_support_window_geometry never restart a pane too early.            *)
THEOREM ReplacedOnlyAfterJoinHolds == Spec => ReplacedOnlyAfterJoin
<1> DEFINE Kept ==
      \A d \in Dynamic :
        \/ pc[d] = "none"
        \/ /\ pc[d] # "wait_ready" => pc'[d] # "wait_ready"
           /\ local_stop[d] => local_stop'[d]
<1>1. PaneInv /\ [Next]_vars => [Kept]_vars
  BY PaneMoves DEF PaneMove, StopKept, Running, Threads
<1> QED
  BY <1>1, PaneInvHolds, PTL DEF Spec, ReplacedOnlyAfterJoin

LEMMA PaneMoveRefines ==
  ASSUME PaneInv, PaneInv', NEW t \in Threads, PaneMove(t)
  PROVE  Lifecycle!PaneStep(t)
<1>0. Running(t) => t \in windows
  BY DEF PaneInv, NoUseAfterDelete
<1>1. (Running(t) => t \in windows)'
  BY DEF PaneInv, NoUseAfterDelete
<1>2. StopKept(t) /\ Asked(t) => Asked(t)'
  BY DEF StopKept, Asked
<1> QED
  BY <1>0, <1>1, <1>2
  DEF PaneMove, PaneWorker, Running, Lifecycle!PaneStep, Lifecycle!Vacant,
      Lifecycle!Start, Lifecycle!Run, Lifecycle!Returned

(* The dashboard implements the abstract panes of TrfxPanes: each of its   *)
(* steps, seen through windows, threads and stop flags only, is a step the *)
(* life cycle of a pane allows or none at all.                             *)
THEOREM DashboardRefinesPanes == Spec => PaneLifecycle
<1>1. Init => Lifecycle!Init
  BY DEF Init, RuntimeReset, ThreadsInit, Lifecycle!Init, PaneWorker, Asked
<1>2. PaneInv /\ PaneInv' /\ [Next]_vars =>
        [Lifecycle!Next]_<<windows \cap Threads, [t \in Threads |-> PaneWorker(t)],
                          {t \in Threads : Asked(t)}>>
  <2> SUFFICES ASSUME PaneInv, PaneInv', [Next]_vars
               PROVE  \/ Lifecycle!Next
                      \/ UNCHANGED <<windows \cap Threads,
                                    [t \in Threads |-> PaneWorker(t)],
                                    {t \in Threads : Asked(t)}>>
    OBVIOUS
  <2>1. CASE UNCHANGED vars
    BY <2>1 DEF vars, runtime, workers, shared, rest, PaneWorker, Asked
  <2>2. CASE \A t \in Threads : PaneMove(t)
    <3>1. \A t \in Threads : Lifecycle!PaneStep(t)
      BY <2>2, PaneMoveRefines
    <3>2. [t \in Threads |-> PaneWorker(t)]'
             \in [Threads -> {"none", "running", "exited"}]
      BY DEF PaneWorker
    <3> QED
      BY <3>1, <3>2 DEF Lifecycle!Next
  <2> QED
    BY <2>1, <2>2, PaneMoves
<1> QED
  BY <1>1, <1>2, PaneInvHolds, PTL DEF Spec, PaneLifecycle, Lifecycle!Spec

-----------------------------------------------------------------------------
(* Pausing and resuming.                                                   *)

(* Where the main thread may be while the workers are paused: a relayout,   *)
(* or a popup of the kind that resumes them.                                *)
RelayoutLabels == {"apply", "sync", "start_support", "join_support", "delete_support",
                   "borders", "request", "unpause"}

PausedPopup == {"popup_create", "popup_draw", "popup_getch", "popup_close", "resume_unpause"}

StartLabels == {"start_static", "start_row2", "sync", "start_support", "set_ready", "aborted"}

StopLabels == JoinLabels \cup QuitLabels \cup {"delete_support", "crashed"}

PauseFacts ==
  /\ paused => /\ ready /\ ~stop_requested
               /\ \/ mpc \in RelayoutLabels
                  \/ mpc \in PausedPopup /\ popup \in Pausing
  /\ mpc = "popup_pause" => popup \in Pausing
  /\ ~ready => mpc \in StartLabels
  /\ ~ready /\ mpc \in {"start_static", "start_row2", "sync"} => Support \notin windows
  /\ stop_requested => mpc \in StopLabels \ {"join_primary"}

LEMMA KeyPauses ==
  ASSUME PauseFacts, TypeOK, Key
  PROVE  PauseFacts'
<1> USE DEF PauseFacts, RelayoutLabels, PausedPopup, StartLabels, StopLabels, QuitLabels,
            JoinLabels, Pausing, Choosers, Popups, NoPopup, At, Then, KeyIdle, runtime,
            workers, shared, rest, panels
<1>0. paused \in BOOLEAN /\ ready \in BOOLEAN /\ stop_requested \in BOOLEAN
  BY DEF TypeOK, RuntimeTypeOK
<1>1. CASE KeyQuit
  BY <1>0, <1>1 DEF KeyQuit, RequestStop
<1>2. CASE KeyRefresh
  BY <1>0, <1>2 DEF KeyRefresh, RequestRefresh, RequestStaticRefreshAll
<1>3. CASE KeyChange
  BY <1>0, <1>3 DEF KeyChange, Open
<1>4. CASE KeyPopup
  BY <1>0, <1>4 DEF KeyPopup, Open
<1>5. CASE KeyToggle
  BY <1>0, <1>5 DEF KeyToggle
<1>6. CASE KeyResize
  BY <1>0, <1>6 DEF KeyResize
<1>7. CASE PopupResize
  BY <1>0, <1>7 DEF PopupResize
<1>8. ASSUME NEW key \in PopupKeys, PopupKey(key) PROVE PauseFacts'
  BY <1>0, <1>8 DEF PopupKey, Idle, LeavesWindow
<1> QED
  BY <1>1, <1>2, <1>3, <1>4, <1>5, <1>6, <1>7, <1>8
  DEF Key

LEMMA MainPauses ==
  ASSUME PauseFacts, TypeOK, MainStep
  PROVE  PauseFacts'
<1> USE DEF PauseFacts, RelayoutLabels, PausedPopup, StartLabels, StopLabels, QuitLabels,
            JoinLabels, Pausing, Choosers, Popups, NoPopup, At, Then, KeyIdle, runtime,
            workers, shared, rest, panels
<1>0. paused \in BOOLEAN /\ ready \in BOOLEAN /\ stop_requested \in BOOLEAN
  BY DEF TypeOK, RuntimeTypeOK
<1>1. CASE StartStatic
  BY <1>0, <1>1, ThreadAssumption DEF StartStatic
<1>2. CASE StartRow2
  BY <1>0, <1>2 DEF StartRow2, Started
<1>3. CASE FinishStart
  BY <1>0, <1>3 DEF FinishStart, SetReady, Idle
<1>4. CASE RefreshErase
  BY <1>0, <1>4 DEF RefreshErase, EraseTopPanels
<1>5. CASE PopupPause
  BY <1>0, <1>5 DEF PopupPause, SetPaused
<1>6. CASE PopupCreate
  BY <1>0, <1>6 DEF PopupCreate, Idle
<1>7. CASE PopupDraw
  BY <1>0, <1>7 DEF PopupDraw
<1>8. CASE PopupClose
  BY <1>0, <1>8 DEF PopupClose
<1>9. CASE ResumeUnpause
  BY <1>0, <1>9 DEF ResumeUnpause, SetPaused
<1>10. CASE ResumeRequest
  BY <1>0, <1>10 DEF ResumeRequest, RequestRefresh, RequestStaticRefreshAll
<1>11. CASE AfterPopup
  BY <1>0, <1>11 DEF AfterPopup, Open, Idle
<1>12. CASE JoinPrimary
  BY <1>0, <1>12 DEF JoinPrimary, Join, Open
<1>13. CASE StartPrimary
  BY <1>0, <1>13 DEF StartPrimary, Started, Idle
<1>14. CASE SmallMessage
  BY <1>0, <1>14 DEF SmallMessage
<1>15. CASE TogglePause
  BY <1>0, <1>15 DEF TogglePause, SetPaused
<1>16. CASE ApplyFrame
  BY <1>0, <1>16 DEF ApplyFrame
<1>17. CASE SyncSupport
  BY <1>0, <1>17 DEF SyncSupport, StopSupport, AfterSync
<1>18. CASE StartSupport
  BY <1>0, <1>18 DEF StartSupport, Started, AfterSync
<1>19. CASE JoinSupport
  BY <1>0, <1>19 DEF JoinSupport, Join
<1>20. CASE DeleteSupport
  BY <1>0, <1>20 DEF DeleteSupport
<1>21. CASE FrameBorders
  BY <1>0, <1>21 DEF FrameBorders, EraseTopPanels
<1>22. CASE RequestData
  BY <1>0, <1>22 DEF RequestData, RequestRefresh, RequestStaticRefreshAll
<1>23. CASE RequestUnpause
  BY <1>0, <1>23 DEF RequestUnpause, SetPaused
<1>24. CASE JoinStatic
  BY <1>0, <1>24 DEF JoinStatic, Join, StopSupport
<1>25. CASE StopRow2
  BY <1>0, <1>25 DEF StopRow2
<1>26. CASE JoinRow2
  BY <1>0, <1>26 DEF JoinRow2, Join
<1>27. CASE DeleteRow2
  BY <1>0, <1>27 DEF DeleteRow2
<1>28. CASE DeleteStatic
  BY <1>0, <1>28 DEF DeleteStatic
<1> QED
  BY <1>1, <1>2, <1>3, <1>4, <1>5, <1>6, <1>7, <1>8, <1>9, <1>10, <1>11,
     <1>12, <1>13, <1>14, <1>15, <1>16, <1>17, <1>18, <1>19, <1>20, <1>21,
     <1>22, <1>23, <1>24, <1>25, <1>26, <1>27, <1>28
  DEF MainStep

LEMMA PauseInvariant == Spec => []PauseFacts
<1>1. Init => PauseFacts
  BY DEF Init, RuntimeReset, PauseFacts, StartLabels
<1>2. TypeOK /\ PauseFacts /\ [Next]_vars => PauseFacts'
  <2> SUFFICES ASSUME TypeOK, PauseFacts, [Next]_vars
      PROVE  PauseFacts'
    OBVIOUS
  <2>1. ASSUME UNCHANGED <<paused, ready, stop_requested, main, rest>>
        PROVE  PauseFacts'
    BY <2>1 DEF PauseFacts, main, rest
  <2>2. ASSUME NEW t \in Threads, WorkerStep(t)
        PROVE  UNCHANGED <<paused, ready, stop_requested, main, rest>>
    BY <2>2
    DEF WorkerStep, Worker, WaitUntilReady, TestStop, TestPaused, TestShow, SleepOver,
        LockNcurses, ClearWindow, Collect, Paint, WaitOver, ConsumeStaticRefresh, runtime
  <2>3. CASE UNCHANGED vars
    BY <2>1, <2>3 DEF vars, runtime
  <2> QED
    BY <2>1, <2>2, <2>3, KeyPauses, MainPauses DEF Next, Terminating
<1> QED
  BY <1>1, <1>2, DashboardTypes, PTL DEF Spec

(* Whatever chain of popups, refused popups, relayouts and failures the     *)
(* main thread has been through, no worker is paused when it waits for a    *)
(* key.                                                                     *)
THEOREM PauseIsBalanced == Spec => []PauseBalanced
<1>1. PauseFacts => PauseBalanced
  BY DEF PauseFacts, PauseBalanced, At, RelayoutLabels, PausedPopup
<1> QED
  BY <1>1, PauseInvariant, PTL

-----------------------------------------------------------------------------
(* Refresh requests.                                                       *)

(* A panel's worker holds a sample only between collecting and painting it, *)
(* and a sample or picture that a request made old has its flag set until   *)
(* the worker has waited.                                                   *)
RefreshInv ==
  \A m \in StaticModules :
    /\ pc[m] \notin {"clear", "clearing"}
    /\ pc[m] \notin {"draw", "drawing"} => sample[m] = "nothing"
    /\ pc[m] \in {"draw", "drawing"} /\ sample[m] = "old" => force_refresh_flags[m]
    /\ pc[m] = "wait" /\ shown[m] = "old" => force_refresh_flags[m]

(* What a step of the main thread may do to a panel. *)
PanelKept(m) ==
  /\ pc'[m] = pc[m] \/ (pc[m] \in {"none", "exited"} /\ pc'[m] \in {"none", "wait_ready"})
  /\ \/ UNCHANGED <<sample, force_refresh_flags>> /\ shown'[m] \in {shown[m], "nothing"}
     \/ sample' = Outdate(sample) /\ force_refresh_flags'[m]

LEMMA KeepsRefresh ==
  ASSUME RefreshInv, \A m \in StaticModules : PanelKept(m)
  PROVE  RefreshInv'
<1> SUFFICES ASSUME NEW m \in StaticModules
    PROVE  /\ pc'[m] \notin {"clear", "clearing"}
           /\ pc'[m] \notin {"draw", "drawing"} => sample'[m] = "nothing"
           /\ pc'[m] \in {"draw", "drawing"} /\ sample'[m] = "old" => force_refresh_flags'[m]
           /\ pc'[m] = "wait" /\ shown'[m] = "old" => force_refresh_flags'[m]
  BY DEF RefreshInv
<1>1. PanelKept(m)
  OBVIOUS
<1>2. sample[m] = "nothing" => Outdate(sample)[m] = "nothing"
  BY DEF Outdate
<1> QED
  BY <1>1, <1>2 DEF RefreshInv, PanelKept

LEMMA KeyRefreshes ==
  ASSUME PaneInv, Key, NEW m \in StaticModules
  PROVE  PanelKept(m)
<1> USE DEF PanelKept, At, Then, KeyIdle, runtime, workers, shared, rest, panels
<1>0. pc \in [Threads -> Labels] /\ (\A s \in StaticModules : s # Primary /\ s # Support)
  BY ThreadAssumption DEF PaneInv, TypeOK, ThreadsTypeOK
<1>1. CASE KeyQuit
  BY <1>0, <1>1 DEF KeyQuit, RequestStop
<1>2. CASE KeyRefresh
  BY <1>0, <1>2 DEF KeyRefresh, RequestRefresh, RequestStaticRefreshAll
<1>3. CASE KeyChange
  BY <1>0, <1>3 DEF KeyChange, Open
<1>4. CASE KeyPopup
  BY <1>0, <1>4 DEF KeyPopup, Open
<1>5. CASE KeyToggle
  BY <1>0, <1>5 DEF KeyToggle
<1>6. CASE KeyResize
  BY <1>0, <1>6 DEF KeyResize
<1>7. CASE PopupResize
  BY <1>0, <1>7 DEF PopupResize
<1>8. ASSUME NEW key \in PopupKeys, PopupKey(key) PROVE PanelKept(m)
  BY <1>8 DEF PopupKey, Idle
<1> QED
  BY <1>1, <1>2, <1>3, <1>4, <1>5, <1>6, <1>7, <1>8
  DEF Key

LEMMA MainRefreshes ==
  ASSUME PaneInv, MainStep, NEW m \in StaticModules
  PROVE  PanelKept(m)
<1> USE DEF PanelKept, At, Then, KeyIdle, runtime, workers, shared, rest, panels
<1>0. pc \in [Threads -> Labels] /\ (\A s \in StaticModules : s # Primary /\ s # Support)
  BY ThreadAssumption DEF PaneInv, TypeOK, ThreadsTypeOK
<1>1. CASE StartStatic
  BY <1>0, <1>1 DEF StartStatic, PaneInv, ReadyToStart
<1>2. CASE StartRow2
  BY <1>0, <1>2 DEF StartRow2, Started
<1>3. CASE FinishStart
  BY <1>0, <1>3 DEF FinishStart, SetReady, Idle
<1>4. CASE RefreshErase
  BY <1>0, <1>4 DEF RefreshErase, EraseTopPanels
<1>5. CASE PopupPause
  BY <1>0, <1>5 DEF PopupPause, SetPaused
<1>6. CASE PopupCreate
  BY <1>0, <1>6 DEF PopupCreate, Idle
<1>7. CASE PopupDraw
  BY <1>0, <1>7 DEF PopupDraw
<1>8. CASE PopupClose
  BY <1>0, <1>8 DEF PopupClose
<1>9. CASE ResumeUnpause
  BY <1>0, <1>9 DEF ResumeUnpause, SetPaused
<1>10. CASE ResumeRequest
  BY <1>0, <1>10 DEF ResumeRequest, RequestRefresh, RequestStaticRefreshAll
<1>11. CASE AfterPopup
  BY <1>0, <1>11 DEF AfterPopup, Open, Idle
<1>12. CASE JoinPrimary
  BY <1>0, <1>12 DEF JoinPrimary, Join, Open
<1>13. CASE StartPrimary
  BY <1>0, <1>13 DEF StartPrimary, Started, Idle
<1>14. CASE SmallMessage
  BY <1>0, <1>14 DEF SmallMessage
<1>15. CASE TogglePause
  BY <1>0, <1>15 DEF TogglePause, SetPaused
<1>16. CASE ApplyFrame
  BY <1>0, <1>16 DEF ApplyFrame
<1>17. CASE SyncSupport
  BY <1>0, <1>17 DEF SyncSupport, StopSupport, AfterSync
<1>18. CASE StartSupport
  BY <1>0, <1>18 DEF StartSupport, Started, AfterSync
<1>19. CASE JoinSupport
  BY <1>0, <1>19 DEF JoinSupport, Join
<1>20. CASE DeleteSupport
  BY <1>0, <1>20 DEF DeleteSupport
<1>21. CASE FrameBorders
  BY <1>0, <1>21 DEF FrameBorders, EraseTopPanels
<1>22. CASE RequestData
  BY <1>0, <1>22 DEF RequestData, RequestRefresh, RequestStaticRefreshAll
<1>23. CASE RequestUnpause
  BY <1>0, <1>23 DEF RequestUnpause, SetPaused
<1>24. CASE JoinStatic
  BY <1>0, <1>24 DEF JoinStatic, Join, StopSupport
<1>25. CASE StopRow2
  BY <1>0, <1>25 DEF StopRow2
<1>26. CASE JoinRow2
  BY <1>0, <1>26 DEF JoinRow2, Join
<1>27. CASE DeleteRow2
  BY <1>0, <1>27 DEF DeleteRow2
<1>28. CASE DeleteStatic
  BY <1>0, <1>28 DEF DeleteStatic
<1> QED
  BY <1>1, <1>2, <1>3, <1>4, <1>5, <1>6, <1>7, <1>8, <1>9, <1>10, <1>11,
     <1>12, <1>13, <1>14, <1>15, <1>16, <1>17, <1>18, <1>19, <1>20, <1>21,
     <1>22, <1>23, <1>24, <1>25, <1>26, <1>27, <1>28
  DEF MainStep

(* A worker's step, for its own panel and for the others. *)
LEMMA WorkerRefreshes ==
  ASSUME TypeOK, RefreshInv, NEW t \in Threads, WorkerStep(t)
  PROVE  RefreshInv'
<1> SUFFICES ASSUME NEW m \in StaticModules
    PROVE  /\ pc'[m] \notin {"clear", "clearing"}
           /\ pc'[m] \notin {"draw", "drawing"} => sample'[m] = "nothing"
           /\ pc'[m] \in {"draw", "drawing"} /\ sample'[m] = "old" => force_refresh_flags'[m]
           /\ pc'[m] = "wait" /\ shown'[m] = "old" => force_refresh_flags'[m]
  BY DEF RefreshInv
<1> USE DEF RefreshInv, Goto, Record, runtime, shared, rest
<1>0. /\ pc \in [Threads -> Labels] /\ m \in Threads
      /\ force_refresh_flags \in [StaticModules -> BOOLEAN]
      /\ Worker(t)
  BY DEF TypeOK, ThreadsTypeOK, RuntimeTypeOK, WorkerStep
<1>1. CASE WaitUntilReady(t)
  BY <1>0, <1>1 DEF WaitUntilReady
<1>2. CASE TestStop(t)
  BY <1>0, <1>2 DEF TestStop
<1>3. CASE TestPaused(t)
  BY <1>0, <1>3 DEF TestPaused, AfterPauseCheck
<1>4. CASE TestShow(t)
  BY <1>0, <1>4 DEF TestShow
<1>5. CASE SleepOver(t)
  BY <1>0, <1>5 DEF SleepOver
<1>6. CASE LockNcurses(t)
  BY <1>0, <1>6 DEF LockNcurses
<1>7. CASE ClearWindow(t)
  BY <1>0, <1>7 DEF ClearWindow
<1>8. CASE Collect(t)
  BY <1>0, <1>8 DEF Collect
<1>9. CASE Paint(t)
  BY <1>0, <1>9 DEF Paint
<1>10. CASE WaitOver(t)
  BY <1>0, <1>10 DEF WaitOver, ConsumeStaticRefresh
<1> QED
  BY <1>0, <1>1, <1>2, <1>3, <1>4, <1>5, <1>6, <1>7, <1>8, <1>9, <1>10
  DEF Worker

(* However requests, samples and pictures overtake each other, a panel that *)
(* waits with data from before a request is going to be woken for it.       *)
THEOREM RefreshIsNotLost == Spec => []RefreshNotLost
<1>1. Init => RefreshInv
  BY ThreadAssumption DEF Init, ThreadsInit, RefreshInv
<1>2. PaneInv /\ RefreshInv /\ [Next]_vars => RefreshInv'
  <2> SUFFICES ASSUME PaneInv, RefreshInv, [Next]_vars
      PROVE  RefreshInv'
    OBVIOUS
  <2>1. CASE UNCHANGED vars
    BY <2>1 DEF vars, runtime, workers, RefreshInv
  <2>2. ASSUME NEW t \in Threads, WorkerStep(t) PROVE RefreshInv'
    BY <2>2, WorkerRefreshes DEF PaneInv
  <2> QED
    BY <2>1, <2>2, KeyRefreshes, MainRefreshes, KeepsRefresh DEF Next, Terminating
<1>3. RefreshInv => RefreshNotLost
  BY DEF RefreshInv, RefreshNotLost
<1> QED
  BY <1>1, <1>2, <1>3, PaneInvHolds, PTL DEF Spec

-----------------------------------------------------------------------------
(* When nothing fails.                                                     *)

(* The primary slot's thread, its id and its module go together. *)
PrimaryFacts ==
  /\ thread_id \in {"zero", "live"}
  /\ mpc \in {"start_static", "start_row2"} => ~local_stop[Primary]
  /\ thread_id = "live" <=> pc[Primary] # "none"
  /\ mpc \notin {"delete_row2", "delete_static", "done"} =>
       (module_index # NoModule <=> thread_id = "live")
  /\ mpc \in {"join_primary", "join_row2"} => thread_id = "live"
  /\ pc[Primary] = "exited" => local_stop[Primary] \/ stop_requested
  /\ local_stop[Primary] /\ thread_id = "live" => mpc \in {"join_primary", "join_row2"}

(* Every top panel has its thread until it is joined. *)
StaticFacts ==
  /\ mpc # "crashed"
  /\ mpc = "join_static" => stop_requested
  /\ mpc = "join_static" \/ (~stop_requested /\ mpc # "start_static") =>
       \A m \in StaticModules : pc[m] # "none"

(* The support column, its thread and the layout go together, except while  *)
(* one of them is being brought in line.                                    *)
SupportFacts ==
  /\ support_active <=> pc[Support] # "none"
  /\ pc[Support] = "exited" => local_stop[Support] \/ stop_requested
  /\ local_stop[Support] /\ support_active => mpc = "join_support"
  /\ mpc \notin {"start_support", "delete_support"} =>
       (support_active <=> Support \in windows)
  /\ mpc = "join_support" => support_active
  /\ mpc \in {"start_static", "start_row2", "sync"} => frame.w = term.w
  /\ mpc = "start_support" => SecondaryVisible(frame.w)
  /\ mpc \in {"join_support", "delete_support"} /\ ~stop_requested =>
       ~SecondaryVisible(frame.w)
  /\ ~stop_requested
     /\ mpc \notin {"start_static", "start_row2", "sync", "join_support", "delete_support"} =>
       (Support \in windows <=> SecondaryVisible(frame.w))

Healthy == PrimaryFacts /\ StaticFacts /\ SupportFacts

Context == PaneInv /\ PauseFacts /\ ~AllocationMayFail

LEMMA KeyKeepsPrimary ==
  ASSUME Context, Healthy, Key
  PROVE  PrimaryFacts'
<1> USE DEF Healthy, PrimaryFacts, At, Then, KeyIdle, runtime, workers, shared, rest, panels
<1>0. /\ pc \in [Threads -> Labels] /\ local_stop \in [Dynamic -> BOOLEAN]
      /\ support_active \in BOOLEAN /\ stop_requested \in BOOLEAN
      /\ windows \subseteq Threads \cup Popups
      /\ popup \notin Threads /\ ~AllocationMayFail
      /\ mpc = "getch" => ~stop_requested
      /\ ReadyToStart /\ ReadyToDelete /\ StaticGoneAfterQuit
  BY PopupNotThread
  DEF Context, PaneInv, TypeOK, ThreadsTypeOK, DashboardTypeOK, RuntimeTypeOK, PauseFacts,
      StopLabels, JoinLabels, QuitLabels
<1>a. (\A s \in StaticModules : s # Primary /\ s # Support) /\ NoModule \notin Modules
  BY ThreadAssumption
<1>1. CASE KeyQuit
  BY <1>0, <1>a, <1>1
  DEF KeyQuit, RequestStop, ReadyToStart, ReadyToDelete, StaticGoneAfterQuit, QuitLabels
<1>2. CASE KeyRefresh
  BY <1>0, <1>a, <1>2
  DEF KeyRefresh, RequestRefresh, RequestStaticRefreshAll,
      ReadyToStart, ReadyToDelete, StaticGoneAfterQuit, QuitLabels
<1>3. CASE KeyChange
  BY <1>0, <1>a, <1>3
  DEF KeyChange, Open, ReadyToStart, ReadyToDelete, StaticGoneAfterQuit, QuitLabels
<1>4. CASE KeyPopup
  BY <1>0, <1>a, <1>4
  DEF KeyPopup, Open, ReadyToStart, ReadyToDelete, StaticGoneAfterQuit, QuitLabels
<1>5. CASE KeyToggle
  BY <1>0, <1>a, <1>5
  DEF KeyToggle, ReadyToStart, ReadyToDelete, StaticGoneAfterQuit, QuitLabels
<1>6. CASE KeyResize
  BY <1>0, <1>a, <1>6
  DEF KeyResize, ReadyToStart, ReadyToDelete, StaticGoneAfterQuit, QuitLabels
<1>7. CASE PopupResize
  BY <1>0, <1>a, <1>7
  DEF PopupResize, ReadyToStart, ReadyToDelete, StaticGoneAfterQuit, QuitLabels
<1>8. ASSUME NEW key \in PopupKeys, PopupKey(key) PROVE PrimaryFacts'
  BY <1>0, <1>a, <1>8 DEF PopupKey, Idle, ReadyToStart
<1> QED
  BY <1>1, <1>2, <1>3, <1>4, <1>5, <1>6, <1>7, <1>8
  DEF Key

LEMMA MainKeepsPrimary ==
  ASSUME Context, Healthy, MainStep
  PROVE  PrimaryFacts'
<1> USE DEF Healthy, PrimaryFacts, At, Then, KeyIdle, runtime, workers, shared, rest, panels
<1>0. /\ pc \in [Threads -> Labels] /\ local_stop \in [Dynamic -> BOOLEAN]
      /\ support_active \in BOOLEAN /\ stop_requested \in BOOLEAN
      /\ windows \subseteq Threads \cup Popups
      /\ popup \notin Threads /\ ~AllocationMayFail
      /\ mpc = "getch" => ~stop_requested
      /\ ReadyToStart /\ ReadyToDelete /\ StaticGoneAfterQuit
  BY PopupNotThread
  DEF Context, PaneInv, TypeOK, ThreadsTypeOK, DashboardTypeOK, RuntimeTypeOK, PauseFacts,
      StopLabels, JoinLabels, QuitLabels
<1>a. (\A s \in StaticModules : s # Primary /\ s # Support) /\ NoModule \notin Modules
  BY ThreadAssumption
<1>1. CASE StartStatic
  BY <1>0, <1>a, <1>1, ThreadAssumption, DashboardAssumption
  DEF StartStatic, ReadyToStart, ReadyToDelete, StaticGoneAfterQuit, QuitLabels
<1>2. CASE StartRow2
  BY <1>0, <1>a, <1>2, ThreadAssumption, DashboardAssumption
  DEF StartRow2, Started, ReadyToStart, ReadyToDelete, StaticGoneAfterQuit, QuitLabels
<1>3. CASE FinishStart
  BY <1>0, <1>a, <1>3
  DEF FinishStart, SetReady, Idle,
      ReadyToStart, ReadyToDelete, StaticGoneAfterQuit, QuitLabels
<1>4. CASE RefreshErase
  BY <1>0, <1>a, <1>4
  DEF RefreshErase, EraseTopPanels,
      ReadyToStart, ReadyToDelete, StaticGoneAfterQuit, QuitLabels
<1>5. CASE PopupPause
  BY <1>0, <1>a, <1>5
  DEF PopupPause, SetPaused,
      ReadyToStart, ReadyToDelete, StaticGoneAfterQuit, QuitLabels
<1>6. CASE PopupCreate
  BY <1>0, <1>a, <1>6
  DEF PopupCreate, Idle, ReadyToStart, ReadyToDelete, StaticGoneAfterQuit, QuitLabels
<1>7. CASE PopupDraw
  BY <1>0, <1>a, <1>7
  DEF PopupDraw, ReadyToStart, ReadyToDelete, StaticGoneAfterQuit, QuitLabels
<1>8. CASE PopupClose
  BY <1>0, <1>a, <1>8
  DEF PopupClose, ReadyToStart, ReadyToDelete, StaticGoneAfterQuit, QuitLabels
<1>9. CASE ResumeUnpause
  BY <1>0, <1>a, <1>9
  DEF ResumeUnpause, SetPaused,
      ReadyToStart, ReadyToDelete, StaticGoneAfterQuit, QuitLabels
<1>10. CASE ResumeRequest
  BY <1>0, <1>a, <1>10
  DEF ResumeRequest, RequestRefresh, RequestStaticRefreshAll,
      ReadyToStart, ReadyToDelete, StaticGoneAfterQuit, QuitLabels
<1>11. CASE AfterPopup
  BY <1>0, <1>a, <1>11
  DEF AfterPopup, Open, Idle,
      ReadyToStart, ReadyToDelete, StaticGoneAfterQuit, QuitLabels
<1>12. CASE JoinPrimary
  BY <1>0, <1>a, <1>12
  DEF JoinPrimary, Join, Open,
      ReadyToStart, ReadyToDelete, StaticGoneAfterQuit, QuitLabels
<1>13. CASE StartPrimary
  BY <1>0, <1>a, <1>13, ThreadAssumption, DashboardAssumption
  DEF StartPrimary, Started, Idle,
      ReadyToStart, ReadyToDelete, StaticGoneAfterQuit, QuitLabels
<1>14. CASE SmallMessage
  BY <1>0, <1>a, <1>14
  DEF SmallMessage, ReadyToStart, ReadyToDelete, StaticGoneAfterQuit, QuitLabels
<1>15. CASE TogglePause
  BY <1>0, <1>a, <1>15
  DEF TogglePause, SetPaused,
      ReadyToStart, ReadyToDelete, StaticGoneAfterQuit, QuitLabels
<1>16. CASE ApplyFrame
  BY <1>0, <1>a, <1>16
  DEF ApplyFrame, ReadyToStart, ReadyToDelete, StaticGoneAfterQuit, QuitLabels
<1>17. CASE SyncSupport
  BY <1>0, <1>a, <1>17
  DEF SyncSupport, StopSupport, AfterSync,
      ReadyToStart, ReadyToDelete, StaticGoneAfterQuit, QuitLabels
<1>18. CASE StartSupport
  BY <1>0, <1>a, <1>18, ThreadAssumption, DashboardAssumption
  DEF StartSupport, Started, AfterSync,
      ReadyToStart, ReadyToDelete, StaticGoneAfterQuit, QuitLabels
<1>19. CASE JoinSupport
  BY <1>0, <1>a, <1>19
  DEF JoinSupport, Join, ReadyToStart, ReadyToDelete, StaticGoneAfterQuit, QuitLabels
<1>20. CASE DeleteSupport
  BY <1>0, <1>a, <1>20
  DEF DeleteSupport, ReadyToStart, ReadyToDelete, StaticGoneAfterQuit, QuitLabels
<1>21. CASE FrameBorders
  BY <1>0, <1>a, <1>21
  DEF FrameBorders, EraseTopPanels,
      ReadyToStart, ReadyToDelete, StaticGoneAfterQuit, QuitLabels
<1>22. CASE RequestData
  BY <1>0, <1>a, <1>22
  DEF RequestData, RequestRefresh, RequestStaticRefreshAll,
      ReadyToStart, ReadyToDelete, StaticGoneAfterQuit, QuitLabels
<1>23. CASE RequestUnpause
  BY <1>0, <1>a, <1>23
  DEF RequestUnpause, SetPaused,
      ReadyToStart, ReadyToDelete, StaticGoneAfterQuit, QuitLabels
<1>24. CASE JoinStatic
  BY <1>0, <1>a, <1>24, ThreadAssumption, DashboardAssumption
  DEF JoinStatic, Join, StopSupport,
      ReadyToStart, ReadyToDelete, StaticGoneAfterQuit, QuitLabels
<1>25. CASE StopRow2
  BY <1>0, <1>a, <1>25
  DEF StopRow2, ReadyToStart, ReadyToDelete, StaticGoneAfterQuit, QuitLabels
<1>26. CASE JoinRow2
  BY <1>0, <1>a, <1>26
  DEF JoinRow2, Join, ReadyToStart, ReadyToDelete, StaticGoneAfterQuit, QuitLabels
<1>27. CASE DeleteRow2
  BY <1>0, <1>a, <1>27
  DEF DeleteRow2, ReadyToStart, ReadyToDelete, StaticGoneAfterQuit, QuitLabels
<1>28. CASE DeleteStatic
  BY <1>0, <1>a, <1>28
  DEF DeleteStatic, ReadyToStart, ReadyToDelete, StaticGoneAfterQuit, QuitLabels
<1> QED
  BY <1>1, <1>2, <1>3, <1>4, <1>5, <1>6, <1>7, <1>8, <1>9, <1>10, <1>11,
     <1>12, <1>13, <1>14, <1>15, <1>16, <1>17, <1>18, <1>19, <1>20, <1>21,
     <1>22, <1>23, <1>24, <1>25, <1>26, <1>27, <1>28
  DEF MainStep

LEMMA KeyKeepsStatic ==
  ASSUME Context, Healthy, Key
  PROVE  StaticFacts'
<1> USE DEF Healthy, StaticFacts, PrimaryFacts, At, Then, KeyIdle, runtime, workers, shared, rest, panels
<1>0. /\ pc \in [Threads -> Labels] /\ local_stop \in [Dynamic -> BOOLEAN]
      /\ support_active \in BOOLEAN /\ stop_requested \in BOOLEAN
      /\ windows \subseteq Threads \cup Popups
      /\ popup \notin Threads /\ ~AllocationMayFail
      /\ mpc = "getch" => ~stop_requested
      /\ ReadyToStart /\ ReadyToDelete /\ StaticGoneAfterQuit
  BY PopupNotThread
  DEF Context, PaneInv, TypeOK, ThreadsTypeOK, DashboardTypeOK, RuntimeTypeOK, PauseFacts,
      StopLabels, JoinLabels, QuitLabels
<1>a. (\A s \in StaticModules : s # Primary /\ s # Support) /\ NoModule \notin Modules
  BY ThreadAssumption
<1>1. CASE KeyQuit
  BY <1>0, <1>a, <1>1
  DEF KeyQuit, RequestStop, ReadyToStart, ReadyToDelete, StaticGoneAfterQuit, QuitLabels
<1>2. CASE KeyRefresh
  BY <1>0, <1>a, <1>2
  DEF KeyRefresh, RequestRefresh, RequestStaticRefreshAll,
      ReadyToStart, ReadyToDelete, StaticGoneAfterQuit, QuitLabels
<1>3. CASE KeyChange
  BY <1>0, <1>a, <1>3
  DEF KeyChange, Open, ReadyToStart, ReadyToDelete, StaticGoneAfterQuit, QuitLabels
<1>4. CASE KeyPopup
  BY <1>0, <1>a, <1>4
  DEF KeyPopup, Open, ReadyToStart, ReadyToDelete, StaticGoneAfterQuit, QuitLabels
<1>5. CASE KeyToggle
  BY <1>0, <1>a, <1>5
  DEF KeyToggle, ReadyToStart, ReadyToDelete, StaticGoneAfterQuit, QuitLabels
<1>6. CASE KeyResize
  BY <1>0, <1>a, <1>6
  DEF KeyResize, ReadyToStart, ReadyToDelete, StaticGoneAfterQuit, QuitLabels
<1>7. CASE PopupResize
  BY <1>0, <1>a, <1>7
  DEF PopupResize, ReadyToStart, ReadyToDelete, StaticGoneAfterQuit, QuitLabels
<1>8. ASSUME NEW key \in PopupKeys, PopupKey(key) PROVE StaticFacts'
  BY <1>0, <1>a, <1>8 DEF PopupKey, Idle, ReadyToStart
<1> QED
  BY <1>1, <1>2, <1>3, <1>4, <1>5, <1>6, <1>7, <1>8
  DEF Key

LEMMA MainKeepsStatic ==
  ASSUME Context, Healthy, MainStep
  PROVE  StaticFacts'
<1> USE DEF Healthy, StaticFacts, PrimaryFacts, At, Then, KeyIdle, runtime, workers, shared, rest, panels
<1>0. /\ pc \in [Threads -> Labels] /\ local_stop \in [Dynamic -> BOOLEAN]
      /\ support_active \in BOOLEAN /\ stop_requested \in BOOLEAN
      /\ windows \subseteq Threads \cup Popups
      /\ popup \notin Threads /\ ~AllocationMayFail
      /\ mpc = "getch" => ~stop_requested
      /\ ReadyToStart /\ ReadyToDelete /\ StaticGoneAfterQuit
  BY PopupNotThread
  DEF Context, PaneInv, TypeOK, ThreadsTypeOK, DashboardTypeOK, RuntimeTypeOK, PauseFacts,
      StopLabels, JoinLabels, QuitLabels
<1>a. (\A s \in StaticModules : s # Primary /\ s # Support) /\ NoModule \notin Modules
  BY ThreadAssumption
<1>1. CASE StartStatic
  BY <1>0, <1>a, <1>1, ThreadAssumption, DashboardAssumption
  DEF StartStatic, ReadyToStart, ReadyToDelete, StaticGoneAfterQuit, QuitLabels
<1>2. CASE StartRow2
  BY <1>0, <1>a, <1>2, ThreadAssumption, DashboardAssumption
  DEF StartRow2, Started, ReadyToStart, ReadyToDelete, StaticGoneAfterQuit, QuitLabels
<1>3. CASE FinishStart
  BY <1>0, <1>a, <1>3
  DEF FinishStart, SetReady, Idle,
      ReadyToStart, ReadyToDelete, StaticGoneAfterQuit, QuitLabels
<1>4. CASE RefreshErase
  BY <1>0, <1>a, <1>4
  DEF RefreshErase, EraseTopPanels,
      ReadyToStart, ReadyToDelete, StaticGoneAfterQuit, QuitLabels
<1>5. CASE PopupPause
  BY <1>0, <1>a, <1>5
  DEF PopupPause, SetPaused,
      ReadyToStart, ReadyToDelete, StaticGoneAfterQuit, QuitLabels
<1>6. CASE PopupCreate
  BY <1>0, <1>a, <1>6
  DEF PopupCreate, Idle, ReadyToStart, ReadyToDelete, StaticGoneAfterQuit, QuitLabels
<1>7. CASE PopupDraw
  BY <1>0, <1>a, <1>7
  DEF PopupDraw, ReadyToStart, ReadyToDelete, StaticGoneAfterQuit, QuitLabels
<1>8. CASE PopupClose
  BY <1>0, <1>a, <1>8
  DEF PopupClose, ReadyToStart, ReadyToDelete, StaticGoneAfterQuit, QuitLabels
<1>9. CASE ResumeUnpause
  BY <1>0, <1>a, <1>9
  DEF ResumeUnpause, SetPaused,
      ReadyToStart, ReadyToDelete, StaticGoneAfterQuit, QuitLabels
<1>10. CASE ResumeRequest
  BY <1>0, <1>a, <1>10
  DEF ResumeRequest, RequestRefresh, RequestStaticRefreshAll,
      ReadyToStart, ReadyToDelete, StaticGoneAfterQuit, QuitLabels
<1>11. CASE AfterPopup
  BY <1>0, <1>a, <1>11
  DEF AfterPopup, Open, Idle,
      ReadyToStart, ReadyToDelete, StaticGoneAfterQuit, QuitLabels
<1>12. CASE JoinPrimary
  BY <1>0, <1>a, <1>12
  DEF JoinPrimary, Join, Open,
      ReadyToStart, ReadyToDelete, StaticGoneAfterQuit, QuitLabels
<1>13. CASE StartPrimary
  BY <1>0, <1>a, <1>13, ThreadAssumption, DashboardAssumption
  DEF StartPrimary, Started, Idle,
      ReadyToStart, ReadyToDelete, StaticGoneAfterQuit, QuitLabels
<1>14. CASE SmallMessage
  BY <1>0, <1>a, <1>14
  DEF SmallMessage, ReadyToStart, ReadyToDelete, StaticGoneAfterQuit, QuitLabels
<1>15. CASE TogglePause
  BY <1>0, <1>a, <1>15
  DEF TogglePause, SetPaused,
      ReadyToStart, ReadyToDelete, StaticGoneAfterQuit, QuitLabels
<1>16. CASE ApplyFrame
  BY <1>0, <1>a, <1>16
  DEF ApplyFrame, ReadyToStart, ReadyToDelete, StaticGoneAfterQuit, QuitLabels
<1>17. CASE SyncSupport
  BY <1>0, <1>a, <1>17
  DEF SyncSupport, StopSupport, AfterSync,
      ReadyToStart, ReadyToDelete, StaticGoneAfterQuit, QuitLabels
<1>18. CASE StartSupport
  BY <1>0, <1>a, <1>18, ThreadAssumption, DashboardAssumption
  DEF StartSupport, Started, AfterSync,
      ReadyToStart, ReadyToDelete, StaticGoneAfterQuit, QuitLabels
<1>19. CASE JoinSupport
  BY <1>0, <1>a, <1>19
  DEF JoinSupport, Join, ReadyToStart, ReadyToDelete, StaticGoneAfterQuit, QuitLabels
<1>20. CASE DeleteSupport
  BY <1>0, <1>a, <1>20
  DEF DeleteSupport, ReadyToStart, ReadyToDelete, StaticGoneAfterQuit, QuitLabels
<1>21. CASE FrameBorders
  BY <1>0, <1>a, <1>21
  DEF FrameBorders, EraseTopPanels,
      ReadyToStart, ReadyToDelete, StaticGoneAfterQuit, QuitLabels
<1>22. CASE RequestData
  BY <1>0, <1>a, <1>22
  DEF RequestData, RequestRefresh, RequestStaticRefreshAll,
      ReadyToStart, ReadyToDelete, StaticGoneAfterQuit, QuitLabels
<1>23. CASE RequestUnpause
  BY <1>0, <1>a, <1>23
  DEF RequestUnpause, SetPaused,
      ReadyToStart, ReadyToDelete, StaticGoneAfterQuit, QuitLabels
<1>24. CASE JoinStatic
  BY <1>0, <1>a, <1>24, ThreadAssumption, DashboardAssumption
  DEF JoinStatic, Join, StopSupport,
      ReadyToStart, ReadyToDelete, StaticGoneAfterQuit, QuitLabels
<1>25. CASE StopRow2
  BY <1>0, <1>a, <1>25
  DEF StopRow2, ReadyToStart, ReadyToDelete, StaticGoneAfterQuit, QuitLabels
<1>26. CASE JoinRow2
  BY <1>0, <1>a, <1>26
  DEF JoinRow2, Join, ReadyToStart, ReadyToDelete, StaticGoneAfterQuit, QuitLabels
<1>27. CASE DeleteRow2
  BY <1>0, <1>a, <1>27
  DEF DeleteRow2, ReadyToStart, ReadyToDelete, StaticGoneAfterQuit, QuitLabels
<1>28. CASE DeleteStatic
  BY <1>0, <1>a, <1>28
  DEF DeleteStatic, ReadyToStart, ReadyToDelete, StaticGoneAfterQuit, QuitLabels
<1> QED
  BY <1>1, <1>2, <1>3, <1>4, <1>5, <1>6, <1>7, <1>8, <1>9, <1>10, <1>11,
     <1>12, <1>13, <1>14, <1>15, <1>16, <1>17, <1>18, <1>19, <1>20, <1>21,
     <1>22, <1>23, <1>24, <1>25, <1>26, <1>27, <1>28
  DEF MainStep

LEMMA KeyKeepsSupport ==
  ASSUME Context, Healthy, Key
  PROVE  SupportFacts'
<1> USE DEF Healthy, SupportFacts, StaticFacts, At, Then, KeyIdle, runtime, workers, shared, rest, panels
<1>0. /\ pc \in [Threads -> Labels] /\ local_stop \in [Dynamic -> BOOLEAN]
      /\ support_active \in BOOLEAN /\ stop_requested \in BOOLEAN
      /\ windows \subseteq Threads \cup Popups
      /\ popup \notin Threads /\ ~AllocationMayFail
      /\ mpc = "getch" => ~stop_requested
      /\ ReadyToStart /\ ReadyToDelete /\ StaticGoneAfterQuit
  BY PopupNotThread
  DEF Context, PaneInv, TypeOK, ThreadsTypeOK, DashboardTypeOK, RuntimeTypeOK, PauseFacts,
      StopLabels, JoinLabels, QuitLabels
<1>a. (\A s \in StaticModules : s # Primary /\ s # Support) /\ NoModule \notin Modules
  BY ThreadAssumption
<1>1. CASE KeyQuit
  BY <1>0, <1>a, <1>1
  DEF KeyQuit, RequestStop, ReadyToStart, ReadyToDelete, StaticGoneAfterQuit, QuitLabels
<1>2. CASE KeyRefresh
  BY <1>0, <1>a, <1>2
  DEF KeyRefresh, RequestRefresh, RequestStaticRefreshAll,
      ReadyToStart, ReadyToDelete, StaticGoneAfterQuit, QuitLabels
<1>3. CASE KeyChange
  BY <1>0, <1>a, <1>3
  DEF KeyChange, Open, ReadyToStart, ReadyToDelete, StaticGoneAfterQuit, QuitLabels
<1>4. CASE KeyPopup
  BY <1>0, <1>a, <1>4
  DEF KeyPopup, Open, ReadyToStart, ReadyToDelete, StaticGoneAfterQuit, QuitLabels
<1>5. CASE KeyToggle
  BY <1>0, <1>a, <1>5
  DEF KeyToggle, ReadyToStart, ReadyToDelete, StaticGoneAfterQuit, QuitLabels
<1>6. CASE KeyResize
  BY <1>0, <1>a, <1>6
  DEF KeyResize, ReadyToStart, ReadyToDelete, StaticGoneAfterQuit, QuitLabels
<1>7. CASE PopupResize
  BY <1>0, <1>a, <1>7
  DEF PopupResize, ReadyToStart, ReadyToDelete, StaticGoneAfterQuit, QuitLabels
<1>8. ASSUME NEW key \in PopupKeys, PopupKey(key) PROVE SupportFacts'
  BY <1>0, <1>a, <1>8 DEF PopupKey, Idle, ReadyToStart
<1> QED
  BY <1>1, <1>2, <1>3, <1>4, <1>5, <1>6, <1>7, <1>8
  DEF Key

LEMMA MainKeepsSupport ==
  ASSUME Context, Healthy, MainStep
  PROVE  SupportFacts'
<1> USE DEF Healthy, SupportFacts, StaticFacts, At, Then, KeyIdle, runtime, workers, shared, rest, panels
<1>0. /\ pc \in [Threads -> Labels] /\ local_stop \in [Dynamic -> BOOLEAN]
      /\ support_active \in BOOLEAN /\ stop_requested \in BOOLEAN
      /\ windows \subseteq Threads \cup Popups
      /\ popup \notin Threads /\ ~AllocationMayFail
      /\ mpc = "getch" => ~stop_requested
      /\ ReadyToStart /\ ReadyToDelete /\ StaticGoneAfterQuit
  BY PopupNotThread
  DEF Context, PaneInv, TypeOK, ThreadsTypeOK, DashboardTypeOK, RuntimeTypeOK, PauseFacts,
      StopLabels, JoinLabels, QuitLabels
<1>a. (\A s \in StaticModules : s # Primary /\ s # Support) /\ NoModule \notin Modules
  BY ThreadAssumption
<1>1. CASE StartStatic
  BY <1>0, <1>a, <1>1, ThreadAssumption, DashboardAssumption
  DEF StartStatic, ReadyToStart, ReadyToDelete, StaticGoneAfterQuit, QuitLabels
<1>2. CASE StartRow2
  BY <1>0, <1>a, <1>2, ThreadAssumption, DashboardAssumption
  DEF StartRow2, Started, ReadyToStart, ReadyToDelete, StaticGoneAfterQuit, QuitLabels
<1>3. CASE FinishStart
  BY <1>0, <1>a, <1>3
  DEF FinishStart, SetReady, Idle,
      ReadyToStart, ReadyToDelete, StaticGoneAfterQuit, QuitLabels
<1>4. CASE RefreshErase
  BY <1>0, <1>a, <1>4
  DEF RefreshErase, EraseTopPanels,
      ReadyToStart, ReadyToDelete, StaticGoneAfterQuit, QuitLabels
<1>5. CASE PopupPause
  BY <1>0, <1>a, <1>5
  DEF PopupPause, SetPaused,
      ReadyToStart, ReadyToDelete, StaticGoneAfterQuit, QuitLabels
<1>6. CASE PopupCreate
  BY <1>0, <1>a, <1>6
  DEF PopupCreate, Idle, ReadyToStart, ReadyToDelete, StaticGoneAfterQuit, QuitLabels
<1>7. CASE PopupDraw
  BY <1>0, <1>a, <1>7
  DEF PopupDraw, ReadyToStart, ReadyToDelete, StaticGoneAfterQuit, QuitLabels
<1>8. CASE PopupClose
  BY <1>0, <1>a, <1>8
  DEF PopupClose, ReadyToStart, ReadyToDelete, StaticGoneAfterQuit, QuitLabels
<1>9. CASE ResumeUnpause
  BY <1>0, <1>a, <1>9
  DEF ResumeUnpause, SetPaused,
      ReadyToStart, ReadyToDelete, StaticGoneAfterQuit, QuitLabels
<1>10. CASE ResumeRequest
  BY <1>0, <1>a, <1>10
  DEF ResumeRequest, RequestRefresh, RequestStaticRefreshAll,
      ReadyToStart, ReadyToDelete, StaticGoneAfterQuit, QuitLabels
<1>11. CASE AfterPopup
  BY <1>0, <1>a, <1>11
  DEF AfterPopup, Open, Idle,
      ReadyToStart, ReadyToDelete, StaticGoneAfterQuit, QuitLabels
<1>12. CASE JoinPrimary
  BY <1>0, <1>a, <1>12
  DEF JoinPrimary, Join, Open,
      ReadyToStart, ReadyToDelete, StaticGoneAfterQuit, QuitLabels
<1>13. CASE StartPrimary
  BY <1>0, <1>a, <1>13, ThreadAssumption, DashboardAssumption
  DEF StartPrimary, Started, Idle,
      ReadyToStart, ReadyToDelete, StaticGoneAfterQuit, QuitLabels
<1>14. CASE SmallMessage
  BY <1>0, <1>a, <1>14
  DEF SmallMessage, ReadyToStart, ReadyToDelete, StaticGoneAfterQuit, QuitLabels
<1>15. CASE TogglePause
  BY <1>0, <1>a, <1>15
  DEF TogglePause, SetPaused,
      ReadyToStart, ReadyToDelete, StaticGoneAfterQuit, QuitLabels
<1>16. CASE ApplyFrame
  BY <1>0, <1>a, <1>16
  DEF ApplyFrame, ReadyToStart, ReadyToDelete, StaticGoneAfterQuit, QuitLabels
<1>17. CASE SyncSupport
  BY <1>0, <1>a, <1>17
  DEF SyncSupport, StopSupport, AfterSync,
      ReadyToStart, ReadyToDelete, StaticGoneAfterQuit, QuitLabels
<1>18. CASE StartSupport
  BY <1>0, <1>a, <1>18, ThreadAssumption, DashboardAssumption
  DEF StartSupport, Started, AfterSync,
      ReadyToStart, ReadyToDelete, StaticGoneAfterQuit, QuitLabels
<1>19. CASE JoinSupport
  BY <1>0, <1>a, <1>19
  DEF JoinSupport, Join, ReadyToStart, ReadyToDelete, StaticGoneAfterQuit, QuitLabels
<1>20. CASE DeleteSupport
  BY <1>0, <1>a, <1>20
  DEF DeleteSupport, ReadyToStart, ReadyToDelete, StaticGoneAfterQuit, QuitLabels
<1>21. CASE FrameBorders
  BY <1>0, <1>a, <1>21
  DEF FrameBorders, EraseTopPanels,
      ReadyToStart, ReadyToDelete, StaticGoneAfterQuit, QuitLabels
<1>22. CASE RequestData
  BY <1>0, <1>a, <1>22
  DEF RequestData, RequestRefresh, RequestStaticRefreshAll,
      ReadyToStart, ReadyToDelete, StaticGoneAfterQuit, QuitLabels
<1>23. CASE RequestUnpause
  BY <1>0, <1>a, <1>23
  DEF RequestUnpause, SetPaused,
      ReadyToStart, ReadyToDelete, StaticGoneAfterQuit, QuitLabels
<1>24. CASE JoinStatic
  BY <1>0, <1>a, <1>24, ThreadAssumption, DashboardAssumption
  DEF JoinStatic, Join, StopSupport,
      ReadyToStart, ReadyToDelete, StaticGoneAfterQuit, QuitLabels
<1>25. CASE StopRow2
  BY <1>0, <1>a, <1>25
  DEF StopRow2, ReadyToStart, ReadyToDelete, StaticGoneAfterQuit, QuitLabels
<1>26. CASE JoinRow2
  BY <1>0, <1>a, <1>26
  DEF JoinRow2, Join, ReadyToStart, ReadyToDelete, StaticGoneAfterQuit, QuitLabels
<1>27. CASE DeleteRow2
  BY <1>0, <1>a, <1>27
  DEF DeleteRow2, ReadyToStart, ReadyToDelete, StaticGoneAfterQuit, QuitLabels
<1>28. CASE DeleteStatic
  BY <1>0, <1>a, <1>28
  DEF DeleteStatic, ReadyToStart, ReadyToDelete, StaticGoneAfterQuit, QuitLabels
<1> QED
  BY <1>1, <1>2, <1>3, <1>4, <1>5, <1>6, <1>7, <1>8, <1>9, <1>10, <1>11,
     <1>12, <1>13, <1>14, <1>15, <1>16, <1>17, <1>18, <1>19, <1>20, <1>21,
     <1>22, <1>23, <1>24, <1>25, <1>26, <1>27, <1>28
  DEF MainStep


LEMMA WorkerHealthy ==
  ASSUME Context, Healthy, NEW t \in Threads, WorkerStep(t)
  PROVE  Healthy'
<1>1. /\ pc[t] # "none" /\ pc'[t] # "none" /\ \A u \in Threads \ {t} : pc'[u] = pc[u]
      /\ UNCHANGED <<stop_requested, module_index, main, rest>>
  BY WorkerMoves DEF Context, PaneInv, Running
<1>2. (pc'[t] = "exited" => Asked(t)) /\ UNCHANGED local_stop
  BY WorkerGoes DEF Context, PaneInv
<1>3. UNCHANGED frame
  BY DEF WorkerStep, Worker, WaitUntilReady, TestStop, TestPaused, TestShow, SleepOver,
         LockNcurses, ClearWindow, Collect, Paint, WaitOver, shared
<1> QED
  BY <1>1, <1>2, <1>3, ThreadAssumption
  DEF Healthy, PrimaryFacts, StaticFacts, SupportFacts, Asked, main, rest

(* When windows and threads can be created, the invariants below hold.     *)
LEMMA HealthyHolds == ASSUME ~AllocationMayFail PROVE Spec => [](Healthy /\ PauseFacts)
<1>1. Init => Healthy /\ PauseFacts
  BY ThreadAssumption
  DEF Init, RuntimeReset, ThreadsInit, Healthy, PrimaryFacts, StaticFacts, SupportFacts,
      PauseFacts, StartLabels
<1>2. PaneInv /\ Healthy /\ PauseFacts /\ [Next]_vars => Healthy'
  <2> SUFFICES ASSUME PaneInv, Healthy, PauseFacts, [Next]_vars
      PROVE  Healthy'
    OBVIOUS
  <2>1. Context
    BY DEF Context
  <2>2. CASE UNCHANGED vars
    BY <2>2 DEF vars, runtime, workers, shared, main, rest, Healthy, PrimaryFacts,
                StaticFacts, SupportFacts
  <2>3. CASE Key
    BY <2>1, <2>3, KeyKeepsPrimary, KeyKeepsStatic, KeyKeepsSupport DEF Healthy
  <2>4. CASE MainStep
    BY <2>1, <2>4, MainKeepsPrimary, MainKeepsStatic, MainKeepsSupport DEF Healthy
  <2> QED
    BY <2>1, <2>2, <2>3, <2>4, WorkerHealthy DEF Next, Terminating
<1> QED
  BY <1>1, <1>2, PaneInvHolds, PauseInvariant, PTL DEF Spec

(* What the invariant means while the main thread waits for a key. *)
LEMMA HealthyMeans ==
  ASSUME TypeOK, Healthy, PauseFacts
  PROVE  PaneHasThread /\ SupportFollowsLayout /\ JoinsAreDefined
<1>1. JoinsAreDefined
  BY DEF Healthy, StaticFacts, JoinsAreDefined, At
<1>2. ASSUME At("getch") PROVE ~stop_requested /\ mpc = "getch"
  BY <1>2 DEF At, PauseFacts, StopLabels, JoinLabels, QuitLabels
<1>3. PaneHasThread
  BY <1>2 DEF PaneHasThread, Healthy, PrimaryFacts, Running
<1>4. SupportFollowsLayout
  <2>1. SecondaryVisible(frame.w) \in BOOLEAN
    BY DEF SecondaryVisible, DashboardGeometry, ComputeGeometry, InitLayoutState
  <2>2. support_active \in BOOLEAN
    BY DEF TypeOK, DashboardTypeOK
  <2> QED
    BY <1>2, <2>1, <2>2 DEF SupportFollowsLayout, Healthy, SupportFacts, Running
<1> QED
  BY <1>1, <1>3, <1>4

(* When nothing fails, a primary pane has a module exactly when a thread    *)
(* runs it, and its thread_id is that thread's, whenever the main thread    *)
(* waits for a key (change_window_module, load_row2_modules).               *)
THEOREM PanesAreHealthy ==
  ASSUME ~AllocationMayFail
  PROVE  Spec => []PaneHasThread
BY HealthyMeans, HealthyHolds, DashboardTypes, PTL

(* When nothing fails, the support column has its window and its thread     *)
(* exactly when the last layout has room for it, for any sequence of        *)
(* terminal sizes (sync_support_window_geometry, destroy_support_column).   *)
THEOREM SupportColumnFollowsLayout ==
  ASSUME ~AllocationMayFail
  PROVE  Spec => []SupportFollowsLayout
BY HealthyMeans, HealthyHolds, DashboardTypes, PTL

(* When nothing fails, pthread_join is only ever called for a thread that   *)
(* was created and has not been joined: on a switch of the module, on a     *)
(* relayout, and on the way out (change_window_module,                      *)
(* destroy_support_column, cleanup_row2_modules, start_dashboard).          *)
THEOREM JoinsAreAlwaysDefined ==
  ASSUME ~AllocationMayFail
  PROVE  Spec => []JoinsAreDefined
BY HealthyMeans, HealthyHolds, DashboardTypes, PTL
=============================================================================
