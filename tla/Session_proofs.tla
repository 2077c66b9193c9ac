-------------------------- MODULE Session_proofs --------------------------
(***************************************************************************)
(* Proofs about module Session, for any set of games and any number of     *)
(* quicksaves, with power cuts at every step: the module is well typed, a  *)
(* mark resumes a game at most once, the quicksave loaded for a mark is    *)
(* the one the mark was written for, and minarch loads the slot the        *)
(* launcher chose.                                                         *)
(***************************************************************************)
EXTENDS Session, TLAPS

USE SessionAssumption

\* What programs read is among what the card may hold.
CacheOnCard ==
  /\ auto \in autoDisk
  /\ \A g \in Game : quick[g] \in quickDisk[g]

\* Quicksaves are numbered in order, failed ones too, and no mark the card may hold was consumed.
Numbered ==
  /\ \A n \in consumed \cup failed : n <= saves
  /\ \A m \in autoDisk : m.n <= saves
  /\ \A m \in autoDisk : m = NoMark \/ m.n \notin consumed
  /\ pc \in {"saving", "saved"} =>
       saves \notin consumed /\ \A m \in autoDisk : m.n # saves

\* A mark for the newest quicksave was written when that was on the card, unless
\* State_write failed.
MarkWhole ==
  saves \notin failed =>
    /\ pc = "saved" => quick[game] = saves
    /\ \A m \in autoDisk : m.game \in Game /\ m.n = saves => quickDisk[m.game] = {saves}

\* From autoResume to State_resume, the mark taken away stands for that quicksave.
ResumingWhole ==
  pc = "next" /\ resume_slot = "auto" =>
    /\ next = resuming.game
    /\ resuming.n = saves /\ saves \notin failed => quick[next] = saves

\* The slot the launcher chose reaches State_resume.
SlotChosen ==
  /\ pc = "next" => resume_slot = chosen
  /\ pc \in InGame => loaded.slot = chosen

IInv ==
  /\ TypeOK /\ CacheOnCard /\ Numbered
  /\ MarkWhole /\ ResumingWhole /\ SlotChosen
  /\ LauncherHasNoMark /\ ResumeLoadsItsQuicksave

LEMMA InitIInv == Init => IInv
<1> SUFFICES ASSUME Init PROVE IInv
  OBVIOUS
<1> USE DEF Init, NoMark, NothingLoaded
<1>1. TypeOK
  <2>1. exec \in BOOLEAN /\ quit \in BOOLEAN /\ noui \in BOOLEAN /\ halting \in BOOLEAN
    OBVIOUS
  <2>2. quick \in [Game -> SaveSet] /\ quickDisk \in [Game -> SUBSET SaveSet]
    BY DEF SaveSet
  <2>3. loaded \in [slot : Slot, mark : 0 .. MaxSaves, save : SaveSet, newest : 0 .. MaxSaves]
    BY DEF SaveSet, Slot
  <2>4. auto \in MarkSet /\ autoDisk \in SUBSET MarkSet /\ resuming \in MarkSet
    BY DEF MarkSet
  <2> QED
    BY <2>1, <2>2, <2>3, <2>4 DEF TypeOK, Slot, InGame
<1>2. CacheOnCard /\ Numbered /\ MarkWhole /\ ResumingWhole /\ SlotChosen
  BY DEF CacheOnCard, Numbered, MarkWhole, ResumingWhole, SlotChosen, InGame
<1>3. LauncherHasNoMark /\ ResumeLoadsItsQuicksave
  BY DEF LauncherHasNoMark, ResumeLoadsItsQuicksave
<1> QED
  BY <1>1, <1>2, <1>3 DEF IInv

LEMMA TypeStep == ASSUME TypeOK, [Next]_vars PROVE TypeOK'
<1> USE DEF TypeOK, InGame, MarkSet, SaveSet, Slot, NoMark, Torn,
            vars, cardVars, tmpVars, gameVars, historyVars
<1>1. CASE Boot
  <2>1. exec' \in BOOLEAN /\ quit' \in BOOLEAN /\ noui' \in BOOLEAN /\ halting' \in BOOLEAN
    BY <1>1, Zenon DEF Boot, NothingLoaded, SyncOnly, Sync
  <2> QED
    BY <1>1, <2>1 DEF Boot, NothingLoaded, SyncOnly, Sync
<1>2. CASE ScriptEnds
  BY <1>2 DEF ScriptEnds, SyncOnly, Sync
<1>3. CASE AutoResume
  <2>1. exec' \in BOOLEAN /\ quit' \in BOOLEAN /\ noui' \in BOOLEAN /\ halting' \in BOOLEAN
    BY <1>3, Zenon DEF AutoResume, Sync
  <2>2. quick' \in [Game -> SaveSet] /\ quickDisk' \in [Game -> SUBSET SaveSet]
    BY <1>3 DEF AutoResume, Sync
  <2>3. auto' \in MarkSet /\ autoDisk' \in SUBSET MarkSet /\ resuming' \in MarkSet
    BY <1>3 DEF AutoResume, Sync
  <2>4. consumed' \in SUBSET (0 .. MaxSaves)
    BY <1>3 DEF AutoResume, Sync
  <2>5. /\ resume_slot' \in Slot /\ chosen' \in Slot /\ next' \in Game \cup {NoGame}
        /\ pc' \in {"next", "list"} /\ (pc' = "next" => next' \in Game)
    BY <1>3 DEF AutoResume, Sync
  <2>6. UNCHANGED <<game, reason, saves, failed, loaded, wanted>>
    BY <1>3 DEF AutoResume
  <2> QED
    BY <2>1, <2>2, <2>3, <2>4, <2>5, <2>6
<1>4. CASE ShowLauncher
  BY <1>4 DEF ShowLauncher
<1>5. ASSUME NEW g \in Game, NEW slot \in {"hidden", "resume"}, OpenRom(g, slot)
      PROVE  TypeOK'
  BY <1>5 DEF OpenRom, SyncOnly, Sync
<1>6. CASE RestartLauncher
  BY <1>6 DEF RestartLauncher, SyncOnly, Sync
<1>7. CASE LauncherPowerOff
  <2>1. exec' \in BOOLEAN /\ quit' \in BOOLEAN /\ noui' \in BOOLEAN /\ halting' \in BOOLEAN
    BY <1>7, Zenon DEF LauncherPowerOff, PowerOff, SyncOnly, Sync
  <2> QED
    BY <1>7, <2>1 DEF LauncherPowerOff, PowerOff, SyncOnly, Sync
<1>8. CASE GameOpenFails
  BY <1>8 DEF GameOpenFails, BackToLaunch, SyncOnly, Sync
<1>9. CASE State_resume
  <2>1. exec' \in BOOLEAN /\ quit' \in BOOLEAN /\ noui' \in BOOLEAN /\ halting' \in BOOLEAN
    BY <1>9, Zenon DEF State_resume
  <2>2. loaded' \in [slot : Slot, mark : 0 .. MaxSaves, save : SaveSet, newest : 0 .. MaxSaves]
    BY <1>9 DEF State_resume
  <2> QED
    BY <1>9, <2>1, <2>2 DEF State_resume
<1>10. ASSUME NEW why \in {"sleep", "off", "hdmi"}, Menu_beforeSleep(why)
      PROVE  TypeOK'
  <2>1. quick' \in [Game -> SaveSet] /\ quickDisk' \in [Game -> SUBSET SaveSet]
    BY <1>10 DEF Menu_beforeSleep
  <2> QED
    BY <1>10, <2>1 DEF Menu_beforeSleep
<1>11. CASE State_write
  <2>1. quick' \in [Game -> SaveSet] /\ quickDisk' \in [Game -> SUBSET SaveSet]
    BY <1>11 DEF State_write
  <2> QED
    BY <1>11, <2>1 DEF State_write
<1>12. CASE MarkGame
  BY <1>12 DEF MarkGame, Mark
<1>13. CASE GamePowerOff
  <2>1. exec' \in BOOLEAN /\ quit' \in BOOLEAN /\ noui' \in BOOLEAN /\ halting' \in BOOLEAN
    BY <1>13, Zenon DEF GamePowerOff, PowerOff, SyncOnly, Sync
  <2> QED
    BY <1>13, <2>1 DEF GamePowerOff, PowerOff, SyncOnly, Sync
<1>14. CASE PWR_enterSleep
  BY <1>14 DEF PWR_enterSleep, SyncOnly, Sync
<1>15. CASE HdmiRestart
  BY <1>15 DEF HdmiRestart
<1>16. CASE SleepTimeout
  <2>1. exec' \in BOOLEAN /\ quit' \in BOOLEAN /\ noui' \in BOOLEAN /\ halting' \in BOOLEAN
    BY <1>16, Zenon DEF SleepTimeout, PowerOff, SyncOnly, Sync
  <2> QED
    BY <1>16, <2>1 DEF SleepTimeout, PowerOff, SyncOnly, Sync
<1>17. CASE Wake
  BY <1>17 DEF Wake
<1>18. CASE QuitGame
  <2>1. exec' \in BOOLEAN /\ quit' \in BOOLEAN /\ noui' \in BOOLEAN /\ halting' \in BOOLEAN
    BY <1>18, Zenon DEF QuitGame, PowerOff, SyncOnly, Sync
  <2> QED
    BY <1>18, <2>1 DEF QuitGame, PowerOff, SyncOnly, Sync
<1>19. CASE LeaveGame
  BY <1>19 DEF LeaveGame, BackToLaunch, SyncOnly, Sync
<1>20. CASE Halt
  BY <1>20 DEF Halt, SyncOnly, Sync, Mark
<1>21. CASE PowerLoss
  BY <1>21 DEF PowerLoss, Sync
<1>22. ASSUME NEW why \in {"sleep", "off", "hdmi"}, State_writeNotBegun(why)
      PROVE  TypeOK'
  BY <1>22 DEF State_writeNotBegun
<1>23. CASE State_writeFails
  BY <1>23 DEF State_writeFails
<1>24. CASE UNCHANGED vars
  BY <1>24
<1> QED
  BY <1>1, <1>2, <1>3, <1>4, <1>5, <1>6, <1>7, <1>8, <1>9, <1>10, <1>11, <1>12,
     <1>13, <1>14, <1>15, <1>16, <1>17, <1>18, <1>19, <1>20, <1>21, <1>22, <1>23, <1>24 DEF Next

LEMMA CardStep ==
  ASSUME IInv, TypeOK', [Next]_vars
  PROVE  CacheOnCard' /\ Numbered' /\ MarkWhole'
<1> USE DEF IInv, TypeOK, MarkSet, SaveSet, NoMark, Torn, CacheOnCard, Numbered, MarkWhole,
            InGame, vars, cardVars, tmpVars, gameVars, historyVars
<1>1. CASE Boot
  BY <1>1 DEF Boot, NothingLoaded, SyncOnly, Sync
<1>2. CASE ScriptEnds
  BY <1>2 DEF ScriptEnds, SyncOnly, Sync
<1>3. CASE AutoResume
  BY <1>3 DEF AutoResume, Sync
<1>4. CASE ShowLauncher
  BY <1>4 DEF ShowLauncher
<1>5. ASSUME NEW g \in Game, NEW slot \in {"hidden", "resume"}, OpenRom(g, slot)
      PROVE  CacheOnCard' /\ Numbered' /\ MarkWhole'
  BY <1>5 DEF OpenRom, SyncOnly, Sync
<1>6. CASE RestartLauncher
  BY <1>6 DEF RestartLauncher, SyncOnly, Sync
<1>7. CASE LauncherPowerOff
  BY <1>7 DEF LauncherPowerOff, PowerOff, SyncOnly, Sync
<1>8. CASE GameOpenFails
  BY <1>8 DEF GameOpenFails, BackToLaunch, SyncOnly, Sync
<1>9. CASE State_resume
  BY <1>9 DEF State_resume
<1>10. ASSUME NEW why \in {"sleep", "off", "hdmi"}, Menu_beforeSleep(why)
      PROVE  CacheOnCard' /\ Numbered' /\ MarkWhole'
  BY <1>10 DEF Menu_beforeSleep
<1>11. CASE State_write
  BY <1>11 DEF State_write
<1>12. CASE MarkGame
  BY <1>12 DEF MarkGame, Mark
<1>13. CASE GamePowerOff
  BY <1>13 DEF GamePowerOff, PowerOff, SyncOnly, Sync
<1>14. CASE PWR_enterSleep
  BY <1>14 DEF PWR_enterSleep, SyncOnly, Sync
<1>15. CASE HdmiRestart
  BY <1>15 DEF HdmiRestart
<1>16. CASE SleepTimeout
  BY <1>16 DEF SleepTimeout, PowerOff, SyncOnly, Sync
<1>17. CASE Wake
  BY <1>17 DEF Wake
<1>18. CASE QuitGame
  BY <1>18 DEF QuitGame, PowerOff, SyncOnly, Sync
<1>19. CASE LeaveGame
  BY <1>19 DEF LeaveGame, BackToLaunch, SyncOnly, Sync
<1>20. CASE Halt
  BY <1>20 DEF Halt, SyncOnly, Sync, Mark
<1>21. CASE PowerLoss
  BY <1>21 DEF PowerLoss, Sync
<1>22. ASSUME NEW why \in {"sleep", "off", "hdmi"}, State_writeNotBegun(why)
      PROVE  CacheOnCard' /\ Numbered' /\ MarkWhole'
  BY <1>22 DEF State_writeNotBegun
<1>23. CASE State_writeFails
  BY <1>23 DEF State_writeFails
<1>24. CASE UNCHANGED vars
  BY <1>24
<1> QED
  BY <1>1, <1>2, <1>3, <1>4, <1>5, <1>6, <1>7, <1>8, <1>9, <1>10, <1>11, <1>12,
     <1>13, <1>14, <1>15, <1>16, <1>17, <1>18, <1>19, <1>20, <1>21, <1>22, <1>23, <1>24 DEF Next

LEMMA LaunchStep ==
  ASSUME IInv, TypeOK', [Next]_vars
  PROVE  /\ ResumingWhole' /\ SlotChosen'
         /\ LauncherHasNoMark' /\ ResumeLoadsItsQuicksave'
<1> DEFINE Goal == /\ ResumingWhole' /\ SlotChosen'
                   /\ LauncherHasNoMark' /\ ResumeLoadsItsQuicksave'
<1> USE DEF IInv, TypeOK, MarkSet, SaveSet, NoMark, Torn, CacheOnCard, MarkWhole, ResumingWhole, SlotChosen,
            LauncherHasNoMark, ResumeLoadsItsQuicksave, InGame, vars, cardVars, tmpVars, gameVars, historyVars
<1>1. CASE Boot
  BY <1>1 DEF Boot, NothingLoaded, SyncOnly, Sync
<1>2. CASE ScriptEnds
  BY <1>2 DEF ScriptEnds, SyncOnly, Sync
<1>3. CASE AutoResume
  BY <1>3 DEF AutoResume, Sync
<1>4. CASE ShowLauncher
  BY <1>4 DEF ShowLauncher
<1>5. ASSUME NEW g \in Game, NEW slot \in {"hidden", "resume"}, OpenRom(g, slot)
      PROVE  Goal
  BY <1>5 DEF OpenRom, SyncOnly, Sync
<1>6. CASE RestartLauncher
  BY <1>6 DEF RestartLauncher, SyncOnly, Sync
<1>7. CASE LauncherPowerOff
  BY <1>7 DEF LauncherPowerOff, PowerOff, SyncOnly, Sync
<1>8. CASE GameOpenFails
  BY <1>8 DEF GameOpenFails, BackToLaunch, SyncOnly, Sync
<1>9. CASE State_resume
  BY <1>9 DEF State_resume
<1>10. ASSUME NEW why \in {"sleep", "off", "hdmi"}, Menu_beforeSleep(why)
      PROVE  Goal
  BY <1>10 DEF Menu_beforeSleep
<1>11. CASE State_write
  BY <1>11 DEF State_write
<1>12. CASE MarkGame
  BY <1>12 DEF MarkGame, Mark
<1>13. CASE GamePowerOff
  BY <1>13 DEF GamePowerOff, PowerOff, SyncOnly, Sync
<1>14. CASE PWR_enterSleep
  BY <1>14 DEF PWR_enterSleep, SyncOnly, Sync
<1>15. CASE HdmiRestart
  BY <1>15 DEF HdmiRestart
<1>16. CASE SleepTimeout
  BY <1>16 DEF SleepTimeout, PowerOff, SyncOnly, Sync
<1>17. CASE Wake
  BY <1>17 DEF Wake
<1>18. CASE QuitGame
  BY <1>18 DEF QuitGame, PowerOff, SyncOnly, Sync
<1>19. CASE LeaveGame
  BY <1>19 DEF LeaveGame, BackToLaunch, SyncOnly, Sync
<1>20. CASE Halt
  BY <1>20 DEF Halt, SyncOnly, Sync, Mark
<1>21. CASE PowerLoss
  BY <1>21 DEF PowerLoss, Sync
<1>22. ASSUME NEW why \in {"sleep", "off", "hdmi"}, State_writeNotBegun(why)
      PROVE  Goal
  BY <1>22 DEF State_writeNotBegun
<1>23. CASE State_writeFails
  BY <1>23 DEF State_writeFails
<1>24. CASE UNCHANGED vars
  BY <1>24
<1> QED
  BY <1>1, <1>2, <1>3, <1>4, <1>5, <1>6, <1>7, <1>8, <1>9, <1>10, <1>11, <1>12,
     <1>13, <1>14, <1>15, <1>16, <1>17, <1>18, <1>19, <1>20, <1>21, <1>22, <1>23, <1>24 DEF Next

LEMMA InductiveStep == IInv /\ [Next]_vars => IInv'
<1> SUFFICES ASSUME IInv, [Next]_vars PROVE IInv'
  OBVIOUS
<1>1. TypeOK'
  BY TypeStep DEF IInv
<1> QED
  BY <1>1, CardStep, LaunchStep DEF IInv

THEOREM SessionInvariant == Spec => []IInv
  BY InitIInv, InductiveStep, PTL DEF Spec

\* Every variable of the session keeps to its values.
THEOREM SessionTypeCorrect == Spec => []TypeOK
  BY SessionInvariant, PTL DEF IInv

\* The quicksave loaded for a mark is the one it was written for, whole, unless
\* a later one was begun (State_write, Menu_beforeSleep, State_resume).
THEOREM ResumesTheMarkedQuicksave == Spec => []ResumeLoadsItsQuicksave
  BY SessionInvariant, PTL DEF IInv

\* minarch loads the slot the launcher chose (openRom, autoResume, State_resume).
THEOREM ChosenSlotIsLoaded == Spec => []LoadsChosenSlot
<1>1. IInv => LoadsChosenSlot
  BY DEF IInv, SlotChosen, LoadsChosenSlot, InGame
<1> QED
  BY <1>1, SessionInvariant, PTL

\* The launcher is never shown with a game left to resume (autoResume).
THEOREM LauncherConsumesMark == Spec => []LauncherHasNoMark
  BY SessionInvariant, PTL DEF IInv

\* No mark resumes a game twice (autoResume's unlink and sync), whatever a power
\* cut leaves on the card.
THEOREM MarksResumeOnce == Spec => ResumeAtMostOnce
<1>1. IInv /\ [Next]_vars =>
        [pc = "launch" /\ pc' = "next" => auto.n \notin consumed]_vars
  <2> SUFFICES ASSUME IInv, [Next]_vars, pc = "launch", pc' = "next"
               PROVE  auto.n \notin consumed
    OBVIOUS
  <2>1. auto # NoMark
    BY DEF Next, vars, Boot, ScriptEnds, AutoResume, ShowLauncher, OpenRom, RestartLauncher,
           LauncherPowerOff, GameOpenFails, State_resume, Menu_beforeSleep, State_write,
           State_writeNotBegun, State_writeFails,
           MarkGame, GamePowerOff, PWR_enterSleep, HdmiRestart, SleepTimeout, Wake,
           QuitGame, LeaveGame, BackToLaunch, Halt, PowerLoss
  <2> QED
    BY <2>1 DEF IInv, CacheOnCard, Numbered
<1> QED
  BY <1>1, SessionInvariant, PTL DEF Spec, ResumeAtMostOnce
=============================================================================
