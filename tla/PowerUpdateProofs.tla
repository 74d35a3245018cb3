-------------------------- MODULE PowerUpdateProofs ---------------------------
(***************************************************************************)
(* Theorems about PowerUpdate for any numbers of checks, updates and       *)
(* losses of power: types, the verdicts of the page and of the window at   *)
(* the end of an update, and the notice after a restart.                   *)
(***************************************************************************)
EXTENDS PowerUpdate, TLAPS

(* check_running is the worker's; unless the channel changed under a check,  *)
(* what travels from the script's configuration to the page is about the     *)
(* channel: asked, then check_result until the timer has taken it, then page.*)
Travelling == prog.check_done \/ prog.ui = "show"

ChannelInv ==
  /\ prog.check_running <=> prog.worker /= "idle"
  /\ ~prog.crossed =>
       /\ prog.worker = "query" => prog.asked = channel
       /\ prog.worker = "flag" => prog.of = channel
       /\ prog.worker \in {"clear", "idle"} =>
            IF Travelling THEN prog.of = channel
            ELSE prog.page \in Verdicts => prog.shown = channel

(* The window is busy exactly while update_running; update.sh runs within    *)
(* that, and once its thread has seen the end of it the exit code is its.    *)
RunInv ==
  /\ prog.update_running <=> prog.overlay = "busy"
  /\ script.pc = "boot" => prog = Down
  /\ script.pc \notin {"off", "boot"} =>
       prog.update_running /\ prog.updater = "wait" /\ ~prog.update_finished
  /\ prog.update_running /\ prog.update_finished =>
       script.pc = "off" /\ prog.exit_code = script.code
  /\ prog.update_running /\ prog.updater = "flag" => prog.exit_code = script.code
  /\ prog.ui = "judge" => prog.update_running

(* How update.sh ended, by the last status it wrote.                         *)
Final == {"ERROR", "UP_TO_DATE", "RESTARTING"}

ScriptInv ==
  /\ script.pc \notin {"off", "mark", "sleep", "boot"} => status \notin Final
  /\ script.pc \in {"mark", "sleep"} => status = "RESTARTING"
  /\ prog.update_running /\ script.pc = "off" =>
       \/ status = "ERROR" /\ outcome = "error"
       \/ status = "UP_TO_DATE" /\ outcome = "uptodate" /\ script.code = 0
       \/ status = "RESTARTING" /\ outcome = "installed" /\ script.code = 0
       \/ status = "RESTARTING" /\ outcome = "stopped"
       \/ status \notin Final /\ outcome = "cut" /\ script.code = 0
       \/ status \notin Final /\ outcome \in {"unstarted", "killed"} /\ script.code /= 0

(* A final status that was read still stands, and so does the one that       *)
(* started the restart's clock.                                              *)
ClockInv ==
  /\ prog.ui = "judge" /\ prog.seen \in Final => status = prog.seen
  /\ prog.restart_since /= "zero" => prog.update_running /\ status = "RESTARTING"
  /\ prog.restart_since = "over" => script.pc = "off"

DoneInv == done => completed

IInv == TypeOK /\ ChannelInv /\ RunInv /\ ScriptInv /\ ClockInv /\ VerdictTrue /\ DoneInv

-----------------------------------------------------------------------------
(* Types.  The record of the program is a matter of its own: Zenon takes it  *)
(* as a whole, SMT by its fields.                                            *)

LEMMA CheckingType ==
  ASSUME NEW p \in Program
  PROVE  Checking(p) \in Program
<1>1. CASE p.check_running
  <2>1. (p.worker = "clear" /\ ~p.check_done) \in BOOLEAN
    OBVIOUS
  <2>2. [p EXCEPT !.page = "checking", !.enabled = FALSE,
                  !.missed = p.worker = "clear" /\ ~p.check_done] \in Program
    BY <2>1, ZenonT(60) DEF Program
  <2> QED
    BY <1>1, <2>2 DEF Checking
<1>2. CASE ~p.check_running
  <2>1. [p EXCEPT !.page = "checking", !.enabled = FALSE,
                  !.check_running = TRUE, !.worker = "start",
                  !.missed = FALSE, !.crossed = FALSE] \in Program
    BY ZenonT(60) DEF Program
  <2> QED
    BY <1>2, <2>1 DEF Checking
<1> QED
  BY <1>1, <1>2

LEMMA FreshType == Fresh \in Program /\ Down \in Program
<1>1. Fresh \in Program
  BY DEF Fresh, Program, Verdicts, Channels, Overlays
<1> QED
  BY <1>1, ZenonT(60) DEF Down, Program

LEMMA TouchType ==
  ASSUME prog \in Program,
         OpenPage \/ SetChannel \/ StartRefused \/ StartMissing \/ StartUpdate \/ Close
  PROVE  prog' \in Program
<1>1. CASE OpenPage
  BY <1>1, CheckingType DEF OpenPage
<1>2. CASE SetChannel
  <2>1. [prog EXCEPT !.crossed = TRUE] \in Program
    BY ZenonT(60) DEF Program
  <2> QED
    BY <1>2, <2>1, CheckingType DEF SetChannel
<1>3. CASE StartRefused
  BY <1>3, ZenonT(60) DEF StartRefused, Program, Overlays
<1>4. CASE StartMissing
  BY <1>4, ZenonT(60) DEF StartMissing, Program, Overlays
<1>5. CASE StartUpdate
  BY <1>5, ZenonT(60) DEF StartUpdate, Program, Overlays
<1>6. CASE Close
  BY <1>6, ZenonT(60) DEF Close, Program, Overlays
<1> QED
  BY <1>1, <1>2, <1>3, <1>4, <1>5, <1>6

LEMMA TakenType ==
  ASSUME NEW p \in Program, NEW u \in {"show", "read"}
  PROVE  [p EXCEPT !.check_done = FALSE, !.ui = u] \in Program
<1>1. CASE u = "show"
  BY <1>1, ZenonT(60) DEF Program
<1>2. CASE u = "read"
  BY <1>2, ZenonT(60) DEF Program
<1> QED
  BY <1>1, <1>2

LEMMA EndedType ==
  ASSUME NEW p \in Program, NEW t \in BOOLEAN,
         NEW w \in Overlays
  PROVE  [p EXCEPT !.ui = "idle", !.seen = "none", !.update_running = FALSE,
                   !.restart_since = "zero", !.overlay = w, !.torn = t] \in Program
BY ZenonT(60) DEF Program

LEMMA PollType ==
  ASSUME prog \in Program, status \in Phases \cup {"none"},
         PollStep \/ ClockRuns
  PROVE  prog' \in Program
<1>1. CASE PollTake
  <2>1. ASSUME NEW u \in {"show", "read"}
        PROVE  [prog EXCEPT !.check_done = FALSE, !.ui = u] \in Program
    BY TakenType
  <2> QED
    BY <1>1, <2>1 DEF PollTake
<1>2. CASE PollShow
  <2>1. ASSUME NEW r \in Verdicts \cup {"none", "checking"}, NEW c \in Channels,
               NEW e \in BOOLEAN
        PROVE  [prog EXCEPT !.page = r, !.shown = c, !.enabled = e, !.missed = FALSE,
                            !.ui = "read"] \in Program
    BY ZenonT(60) DEF Program
  <2>2. /\ prog.check_result \in Verdicts \cup {"none", "checking"}
        /\ prog.of \in Channels
        /\ (prog.enabled \/ prog.check_result = "available") \in BOOLEAN
    BY DEF Program
  <2> QED
    BY <1>2, <2>1, <2>2 DEF PollShow
<1>3. CASE PollRead
  <2>1. CASE ~prog.update_running
    BY <1>3, <2>1, ZenonT(60) DEF PollRead, Program
  <2>2. CASE prog.update_running /\ status = "RESTARTING" /\ prog.restart_since = "zero"
    BY <1>3, <2>2, ZenonT(60) DEF PollRead, Program
  <2>3. CASE prog.update_running /\ ~(status = "RESTARTING" /\ prog.restart_since = "zero")
    <3>1. [prog EXCEPT !.seen = status, !.ui = "judge",
                       !.restart_since = prog.restart_since] \in Program
      BY ZenonT(60) DEF Program
    <3> QED
      BY <1>3, <2>3, <3>1 DEF PollRead
  <2> QED
    BY <2>1, <2>2, <2>3
<1>4. CASE PollJudge
  <2>1. [prog EXCEPT !.ui = "idle", !.seen = "none"] \in Program
    BY ZenonT(60) DEF Program
  <2>2. ASSUME NEW o \in {"uptodate", "failed", "unfinished", "restart"}
        PROVE  Ended(o) \in Program
    <3>1. o \in Overlays /\ (prog.seen /= status) \in BOOLEAN
      BY DEF Overlays
    <3> QED
      BY <3>1, EndedType DEF Ended
  <2>3. Verdict \in {"uptodate", "failed", "unfinished", "restart"}
    BY DEF Verdict
  <2> QED
    BY <1>4, <2>1, <2>2, <2>3 DEF PollJudge
<1>5. CASE ClockRuns
  BY <1>5, ZenonT(60) DEF ClockRuns, Program
<1> QED
  BY <1>1, <1>2, <1>3, <1>4, <1>5 DEF PollStep

LEMMA ThreadType ==
  ASSUME prog \in Program, channel \in Channels, script.code \in -1..1,
         CheckStep \/ UpdateStep \/ NoticeGone
  PROVE  prog' \in Program
<1>1. CASE CheckStart
  BY <1>1, ZenonT(60) DEF CheckStart, Program
<1>2. ASSUME NEW answer \in Verdicts, CheckQuery(answer)
      PROVE  prog' \in Program
  <2>1. ASSUME NEW c \in Channels
        PROVE  [prog EXCEPT !.check_result = answer, !.of = c, !.asked = "nightly",
                            !.worker = "flag"] \in Program
    <3>1. "nightly" \in Channels
      BY DEF Channels
    <3> QED
      BY <3>1, ZenonT(60) DEF Program
  <2>2. prog.asked \in Channels
    BY DEF Program
  <2> QED
    BY <1>2, <2>1, <2>2 DEF CheckQuery
<1>3. CASE CheckFlag
  BY <1>3, ZenonT(60) DEF CheckFlag, Program
<1>4. CASE CheckClear
  BY <1>4, ZenonT(60) DEF CheckClear, Program
<1>5. CASE UpdateReturn
  BY <1>5, ZenonT(60) DEF UpdateReturn, Program
<1>6. CASE UpdateFlag
  BY <1>6, ZenonT(60) DEF UpdateFlag, Program
<1>7. CASE NoticeGone
  BY <1>7, ZenonT(60) DEF NoticeGone, Program
<1>8. CASE CheckMissing
  <2>1. "failed" \in Verdicts
    BY DEF Verdicts
  <2>2. [prog EXCEPT !.check_result = "failed", !.of = channel, !.worker = "flag"] \in Program
    BY <2>1, ZenonT(60) DEF Program
  <2> QED
    BY <1>8, <2>2 DEF CheckMissing
<1> QED
  BY <1>1, <1>2, <1>3, <1>4, <1>5, <1>6, <1>7, <1>8 DEF CheckStep, UpdateStep

LEMMA ExtractType ==
  ASSUME prog \in Program,
         (\E reached \in BOOLEAN : ScriptExtract(reached)) \/ ScriptExtracted
  PROVE  prog' \in Program
<1>1. ASSUME NEW e \in BOOLEAN
      PROVE  [prog EXCEPT !.exe = e] \in Program
  BY ZenonT(60) DEF Program
<1>2. ASSUME NEW reached \in BOOLEAN, ScriptExtract(reached)
      PROVE  prog' \in Program
  <2>1. (prog.exe /\ ~reached) \in BOOLEAN
    BY DEF Program
  <2> QED
    BY <1>1, <1>2, <2>1 DEF ScriptExtract
<1>3. CASE ScriptExtracted
  BY <1>1, <1>3 DEF ScriptExtracted
<1> QED
  BY <1>2, <1>3

LEMMA StartedType ==
  ASSUME NEW marked \in BOOLEAN, NEW left, Started(marked, left)
  PROVE  prog' \in Program /\ ~done' /\ ~completed' /\ status' \in {"none", left}
<1>1. [Fresh EXCEPT !.notice = marked] \in Program
  BY FreshType, ZenonT(60) DEF Program
<1>2. ~done' /\ ~completed'
  BY Zenon DEF Started
<1>3. status' \in {"none", left}
  BY DEF Started
<1>4. prog' \in Program
  BY <1>1 DEF Started
<1> QED
  BY <1>2, <1>3, <1>4

(* The rest of TypeOK. *)
LEMMA TypeStep ==
  ASSUME TypeOK, [Next]_vars
  PROVE  TypeOK'
<1> USE PowerAssumption DEF TypeOK, files, world, history, counters
<1>1. CASE OpenPage \/ SetChannel \/ StartRefused \/ StartMissing \/ StartUpdate \/ Close
  <2>1. prog' \in Program
    BY <1>1, TouchType
  <2> QED
    BY <1>1, <2>1
    DEF OpenPage, SetChannel, StartRefused, StartMissing, StartUpdate, Close
<1>2. CASE PollStep \/ ClockRuns
  <2>1. prog' \in Program
    BY <1>2, PollType
  <2> QED
    BY <1>2, <2>1 DEF PollStep, PollTake, PollShow, PollRead, PollJudge, ClockRuns, Ui
<1>3. CASE CheckStep \/ UpdateStep \/ NoticeGone
  <2>1. prog' \in Program
    BY <1>3, ThreadType
  <2>2. UNCHANGED <<script, files, world, history, counters>>
    <3>1. CASE CheckStep
      BY <3>1 DEF CheckStep, CheckMissing, CheckStart, CheckQuery, CheckFlag, CheckClear, Worker
    <3>2. CASE UpdateStep \/ NoticeGone
      BY <3>2 DEF UpdateStep, UpdateReturn, UpdateFlag, NoticeGone
    <3> QED
      BY <1>3, <3>1, <3>2
  <2> QED
    BY <2>1, <2>2
<1>4. CASE ScriptStop
  BY <1>4, FreshType DEF ScriptStop, Goto, Exit
<1>5. CASE ScriptBoot
  <2>1. Started(done, status)
    BY <1>5 DEF ScriptBoot
  <2>2. prog' \in Program /\ ~done' /\ ~completed' /\ status' \in {"none", status}
    BY <2>1, StartedType
  <2>3. done' \in BOOLEAN /\ completed' \in BOOLEAN
    BY <1>5, <2>1, Zenon DEF Started
  <2> QED
    BY <1>5, <2>2, <2>3 DEF ScriptBoot, Exit
<1>6. ASSUME NEW kept \in BOOLEAN, PowerLoss(kept)
      PROVE  TypeOK'
  <2> DEFINE left == IF kept THEN status ELSE "none"
  <2>1. Started(kept /\ done, left) /\ (kept /\ done) \in BOOLEAN
    BY <1>6 DEF PowerLoss
  <2>2. prog' \in Program /\ status' \in {"none", left}
    BY <2>1, StartedType
  <2>3. done' \in BOOLEAN /\ completed' \in BOOLEAN
    BY <2>1, Zenon DEF Started
  <2>4. printing' \in BOOLEAN
    BY <1>6, Zenon DEF PowerLoss
  <2> QED
    BY <1>6, <2>2, <2>3, <2>4 DEF PowerLoss
<1>7. CASE ScriptStart \/ ScriptDownload
  BY <1>7 DEF ScriptStart, ScriptDownload, Goto, Phases
<1>11. CASE (\E reached \in BOOLEAN : ScriptExtract(reached)) \/ ScriptExtracted
  <2>1. prog' \in Program
    BY <1>11, ExtractType
  <2>2. CASE \E reached \in BOOLEAN : ScriptExtract(reached)
    <3>1. PICK reached \in BOOLEAN : ScriptExtract(reached)
      BY <2>2
    <3>2. /\ status' = "EXTRACTING" /\ whole' = FALSE
          /\ script' = [script EXCEPT !.pc = "extract"]
          /\ UNCHANGED <<done, world, history, counters>>
      BY <3>1 DEF ScriptExtract, Goto
    <3> QED
      BY <2>1, <3>2 DEF Phases
  <2>3. CASE ScriptExtracted
    <3>1. /\ whole' = TRUE /\ script' = [script EXCEPT !.pc = "macros"]
          /\ UNCHANGED <<status, done, world, history, counters>>
      BY <2>3 DEF ScriptExtracted, Goto
    <3> QED
      BY <2>1, <3>1
  <2> QED
    BY <1>11, <2>2, <2>3
<1>12. CASE ScriptUnstarted \/ (\E code \in 0..1 : ScriptDies(code))
  BY <1>12 DEF ScriptUnstarted, ScriptDies, Exit
<1>10. CASE \/ \E code \in 0..1 : ScriptError(code)
            \/ ScriptUpToDate \/ ScriptNoPackage \/ ScriptNotExtracted
  BY <1>10 DEF ScriptError, ScriptUpToDate, ScriptNoPackage, ScriptNotExtracted, Exit, Phases
<1>8. CASE (\E changed \in BOOLEAN : ScriptMacros(changed)) \/ ScriptRestarting
           \/ ScriptMark \/ PrintChanges
  <2>2. CASE \E changed \in BOOLEAN : ScriptMacros(changed)
    BY <2>2 DEF ScriptMacros, Goto
  <2>3. CASE ScriptRestarting
    BY <2>3 DEF ScriptRestarting, Goto, Phases
  <2>4. CASE ScriptMark
    BY <2>4 DEF ScriptMark, Goto
  <2>5. CASE PrintChanges
    BY <2>5 DEF PrintChanges
  <2> QED
    BY <1>8, <2>2, <2>3, <2>4, <2>5
<1>9. CASE UNCHANGED vars
  BY <1>9 DEF vars
<1> QED
  BY <1>1, <1>2, <1>3, <1>4, <1>5, <1>6, <1>7, <1>8, <1>9, <1>10, <1>11, <1>12
  DEF Next, ScriptStep

-----------------------------------------------------------------------------
(* The verdict of the page. *)

LEMMA ChannelStep ==
  ASSUME TypeOK, ChannelInv, RunInv, [Next]_vars
  PROVE  ChannelInv'
<1> USE DEF TypeOK, Program, ChannelInv, Travelling, files, world, history, counters
<1>1. CASE OpenPage
  BY <1>1 DEF OpenPage, Checking, Idle, Verdicts
<1>2. CASE SetChannel
  BY <1>2 DEF SetChannel, Checking, Idle, Verdicts
<1>3. CASE StartRefused \/ StartMissing \/ StartUpdate \/ Close
  <2>1. CASE StartRefused
    BY <2>1 DEF StartRefused
  <2>2. CASE StartMissing
    BY <2>2 DEF StartMissing
  <2>3. CASE StartUpdate
    BY <2>3 DEF StartUpdate
  <2>4. CASE Close
    BY <2>4 DEF Close
  <2> QED
    BY <1>3, <2>1, <2>2, <2>3, <2>4
<1>4. CASE PollTake
  BY <1>4 DEF PollTake, Ui
<1>5. CASE PollShow
  BY <1>5 DEF PollShow, Ui
<1>6. CASE PollRead
  BY <1>6 DEF PollRead, Ui
<1>7. CASE PollJudge
  BY <1>7 DEF PollJudge, Ui, Ended
<1>8. CASE ClockRuns \/ UpdateStep \/ NoticeGone
  <2>1. CASE ClockRuns
    BY <2>1 DEF ClockRuns
  <2>2. CASE UpdateReturn
    BY <2>2 DEF UpdateReturn
  <2>3. CASE UpdateFlag
    BY <2>3 DEF UpdateFlag
  <2>4. CASE NoticeGone
    BY <2>4 DEF NoticeGone
  <2> QED
    BY <1>8, <2>1, <2>2, <2>3, <2>4 DEF UpdateStep
<1>9. CASE CheckStep
  <2>1. CASE CheckStart
    BY <2>1 DEF CheckStart, Worker
  <2>2. ASSUME NEW answer \in Verdicts, CheckQuery(answer)
        PROVE  ChannelInv'
    BY <2>2 DEF CheckQuery, Worker
  <2>3. CASE CheckFlag
    BY <2>3 DEF CheckFlag, Worker
  <2>4. CASE CheckClear
    BY <2>4 DEF CheckClear, Worker
  <2>5. CASE CheckMissing
    BY <2>5 DEF CheckMissing, Worker
  <2> QED
    BY <1>9, <2>1, <2>2, <2>3, <2>4, <2>5 DEF CheckStep
<1>10. CASE ScriptStop
  BY <1>10 DEF ScriptStop, Down, Fresh, Exit, Goto, Verdicts
<1>11. CASE ScriptBoot
  BY <1>11 DEF ScriptBoot, Started, Fresh, Verdicts
<1>12. ASSUME NEW kept \in BOOLEAN, PowerLoss(kept)
       PROVE  ChannelInv'
  BY <1>12 DEF PowerLoss, Started, Fresh, Verdicts
<1>13. CASE UNCHANGED <<prog, channel>>
  BY <1>13
<1>14. CASE (\E reached \in BOOLEAN : ScriptExtract(reached)) \/ ScriptExtracted
  BY <1>14 DEF ScriptExtract, ScriptExtracted
<1> QED
  BY <1>1, <1>2, <1>3, <1>4, <1>5, <1>6, <1>7, <1>8, <1>9, <1>10, <1>11, <1>12, <1>13, <1>14
  DEF Next, PollStep, ScriptStep, vars, ScriptUnstarted, ScriptDies, ScriptStart, ScriptError,
      ScriptUpToDate, ScriptDownload, ScriptNoPackage, ScriptNotExtracted, ScriptMacros, ScriptRestarting, ScriptMark, PrintChanges

-----------------------------------------------------------------------------
(* The window at the end of an update. *)

UpdateInv == RunInv /\ ScriptInv /\ ClockInv /\ VerdictTrue

LEMMA UpdateTouch ==
  ASSUME TypeOK, UpdateInv,
         OpenPage \/ SetChannel \/ StartRefused \/ StartMissing \/ StartUpdate \/ Close
  PROVE  UpdateInv'
<1> USE DEF TypeOK, Program, UpdateInv, RunInv, ScriptInv, ClockInv, VerdictTrue, Final,
            files, world, history, counters, Idle, Down, Fresh
<1>1. CASE OpenPage
  BY <1>1 DEF OpenPage, Checking
<1>2. CASE SetChannel
  BY <1>2 DEF SetChannel, Checking
<1>3. CASE StartRefused
  BY <1>3 DEF StartRefused
<1>4. CASE StartMissing
  BY <1>4 DEF StartMissing
<1>5. CASE StartUpdate
  BY <1>5 DEF StartUpdate
<1>6. CASE Close
  BY <1>6 DEF Close
<1> QED
  BY <1>1, <1>2, <1>3, <1>4, <1>5, <1>6

LEMMA UpdatePoll ==
  ASSUME TypeOK, UpdateInv, PollStep \/ ClockRuns
  PROVE  UpdateInv'
<1> USE DEF TypeOK, Program, UpdateInv, RunInv, ScriptInv, ClockInv, VerdictTrue, Final,
            files, world, history, counters, Down, Fresh, Ui
<1>1. CASE PollTake
  BY <1>1 DEF PollTake
<1>2. CASE PollShow
  BY <1>2 DEF PollShow
<1>3. CASE PollRead
  BY <1>3 DEF PollRead
<1>4. CASE PollJudge
  BY <1>4 DEF PollJudge, Ended, Verdict
<1>5. CASE ClockRuns
  BY <1>5 DEF ClockRuns
<1> QED
  BY <1>1, <1>2, <1>3, <1>4, <1>5 DEF PollStep

LEMMA UpdateThreads ==
  ASSUME TypeOK, UpdateInv, CheckStep \/ UpdateStep \/ NoticeGone \/ PrintChanges
  PROVE  UpdateInv'
<1> USE DEF TypeOK, Program, UpdateInv, RunInv, ScriptInv, ClockInv, VerdictTrue, Final,
            files, world, history, counters, Down, Fresh, Worker
<1>1. CASE CheckStart
  BY <1>1 DEF CheckStart
<1>2. ASSUME NEW answer \in Verdicts, CheckQuery(answer)
      PROVE  UpdateInv'
  BY <1>2 DEF CheckQuery
<1>3. CASE CheckFlag
  BY <1>3 DEF CheckFlag
<1>4. CASE CheckClear
  BY <1>4 DEF CheckClear
<1>5. CASE UpdateReturn
  BY <1>5 DEF UpdateReturn
<1>6. CASE UpdateFlag
  BY <1>6 DEF UpdateFlag
<1>7. CASE NoticeGone
  BY <1>7 DEF NoticeGone
<1>8. CASE PrintChanges
  BY <1>8 DEF PrintChanges
<1>9. CASE CheckMissing
  BY <1>9 DEF CheckMissing
<1> QED
  BY <1>1, <1>2, <1>3, <1>4, <1>5, <1>6, <1>7, <1>8, <1>9 DEF CheckStep, UpdateStep

LEMMA UpdateScript ==
  ASSUME TypeOK, UpdateInv, ScriptStep \/ (\E kept \in BOOLEAN : PowerLoss(kept))
  PROVE  UpdateInv'
<1> USE DEF TypeOK, Program, UpdateInv, RunInv, ScriptInv, ClockInv, VerdictTrue, Final,
            files, world, history, counters, Down, Fresh, Goto, Exit
<1>1. CASE ScriptStart
  BY <1>1 DEF ScriptStart
<1>2. ASSUME NEW code \in 0..1, ScriptError(code)
      PROVE  UpdateInv'
  BY <1>2 DEF ScriptError
<1>3. CASE ScriptUpToDate
  BY <1>3 DEF ScriptUpToDate
<1>4. CASE ScriptDownload
  BY <1>4 DEF ScriptDownload
<1>5. CASE ScriptNoPackage
  BY <1>5 DEF ScriptNoPackage
<1>6. ASSUME NEW reached \in BOOLEAN, ScriptExtract(reached)
      PROVE  UpdateInv'
  BY <1>6 DEF ScriptExtract
<1>7. CASE ScriptNotExtracted
  BY <1>7 DEF ScriptNotExtracted
<1>8. CASE ScriptExtracted
  BY <1>8 DEF ScriptExtracted
<1>9. ASSUME NEW changed \in BOOLEAN, ScriptMacros(changed)
      PROVE  UpdateInv'
  BY <1>9 DEF ScriptMacros
<1>10. CASE ScriptRestarting
  BY <1>10 DEF ScriptRestarting
<1>11. CASE ScriptMark
  BY <1>11 DEF ScriptMark
<1>12. CASE ScriptStop
  BY <1>12 DEF ScriptStop
<1>13. CASE ScriptBoot
  BY <1>13 DEF ScriptBoot, Started
<1>14. ASSUME NEW kept \in BOOLEAN, PowerLoss(kept)
       PROVE  UpdateInv'
  BY <1>14 DEF PowerLoss, Started
<1>15. CASE ScriptUnstarted
  BY <1>15 DEF ScriptUnstarted
<1>16. ASSUME NEW code \in 0..1, ScriptDies(code)
       PROVE  UpdateInv'
  BY <1>16 DEF ScriptDies
<1> QED
  BY <1>1, <1>2, <1>3, <1>4, <1>5, <1>6, <1>7, <1>8, <1>9, <1>10, <1>11, <1>12, <1>13, <1>14,
     <1>15, <1>16
  DEF ScriptStep

-----------------------------------------------------------------------------
(* The notice: only a start of the program shows it, by the file that        *)
(* update.sh leaves when it completes an update.                             *)

NoticeStep == prog'.notice /\ ~prog.notice => completed

LEMMA NoticeTouch ==
  ASSUME TypeOK, DoneInv,
         OpenPage \/ SetChannel \/ StartRefused \/ StartMissing \/ StartUpdate \/ Close
  PROVE  NoticeStep /\ DoneInv'
<1> USE DEF TypeOK, Program, DoneInv, NoticeStep, files, history
<1>1. CASE OpenPage
  BY <1>1 DEF OpenPage, Checking
<1>2. CASE SetChannel
  BY <1>2 DEF SetChannel, Checking
<1>3. CASE StartRefused
  BY <1>3 DEF StartRefused
<1>4. CASE StartMissing
  BY <1>4 DEF StartMissing
<1>5. CASE StartUpdate
  BY <1>5 DEF StartUpdate
<1>6. CASE Close
  BY <1>6 DEF Close
<1> QED
  BY <1>1, <1>2, <1>3, <1>4, <1>5, <1>6

LEMMA NoticeThreads ==
  ASSUME TypeOK, DoneInv,
         PollStep \/ ClockRuns \/ CheckStep \/ UpdateStep \/ NoticeGone \/ PrintChanges
  PROVE  NoticeStep /\ DoneInv'
<1> USE DEF TypeOK, Program, DoneInv, NoticeStep, files, history, Ui, Worker
<1>1. CASE PollTake
  BY <1>1 DEF PollTake
<1>2. CASE PollShow
  BY <1>2 DEF PollShow
<1>3. CASE PollRead
  BY <1>3 DEF PollRead
<1>4. CASE PollJudge
  BY <1>4 DEF PollJudge, Ended
<1>5. CASE ClockRuns
  BY <1>5 DEF ClockRuns
<1>6. CASE CheckStart
  BY <1>6 DEF CheckStart
<1>7. ASSUME NEW answer \in Verdicts, CheckQuery(answer)
      PROVE  NoticeStep /\ DoneInv'
  BY <1>7 DEF CheckQuery
<1>8. CASE CheckFlag
  BY <1>8 DEF CheckFlag
<1>9. CASE CheckClear
  BY <1>9 DEF CheckClear
<1>10. CASE UpdateReturn
  BY <1>10 DEF UpdateReturn
<1>11. CASE UpdateFlag
  BY <1>11 DEF UpdateFlag
<1>12. CASE NoticeGone
  BY <1>12 DEF NoticeGone
<1>13. CASE PrintChanges
  BY <1>13 DEF PrintChanges
<1>14. CASE CheckMissing
  BY <1>14 DEF CheckMissing
<1> QED
  BY <1>1, <1>2, <1>3, <1>4, <1>5, <1>6, <1>7, <1>8, <1>9, <1>10, <1>11, <1>12, <1>13, <1>14
  DEF PollStep, CheckStep, UpdateStep

LEMMA NoticeScript ==
  ASSUME TypeOK, DoneInv, ScriptStep \/ (\E kept \in BOOLEAN : PowerLoss(kept))
  PROVE  NoticeStep /\ DoneInv'
<1> USE DEF TypeOK, Program, DoneInv, NoticeStep, files, history
<1>1. CASE ScriptStop
  BY <1>1 DEF ScriptStop, Down, Fresh
<1>2. CASE ScriptBoot
  BY <1>2 DEF ScriptBoot, Started, Fresh
<1>3. ASSUME NEW kept \in BOOLEAN, PowerLoss(kept)
      PROVE  NoticeStep /\ DoneInv'
  BY <1>3 DEF PowerLoss, Started, Fresh
<1>4. CASE ScriptMark
  BY <1>4 DEF ScriptMark
<1>5. CASE UNCHANGED <<prog, done, completed>>
  BY <1>5
<1>6. CASE (\E reached \in BOOLEAN : ScriptExtract(reached)) \/ ScriptExtracted
  BY <1>6 DEF ScriptExtract, ScriptExtracted
<1> QED
  BY <1>1, <1>2, <1>3, <1>4, <1>5, <1>6
  DEF ScriptStep, ScriptUnstarted, ScriptDies, ScriptStart, ScriptError, ScriptUpToDate,
      ScriptDownload, ScriptNoPackage, ScriptNotExtracted, ScriptMacros, ScriptRestarting

-----------------------------------------------------------------------------
LEMMA InitInv == Init => IInv
<1> SUFFICES ASSUME Init PROVE IInv
  OBVIOUS
<1> USE DEF Init
<1>1. TypeOK
  <2>1. prog \in Program /\ status \in Phases \cup {"none"} /\ channel \in Channels
    BY FreshType
  <2>2. /\ done \in BOOLEAN /\ whole \in BOOLEAN /\ buildroot \in BOOLEAN
        /\ printing \in BOOLEAN /\ completed \in BOOLEAN
    BY Zenon
  <2>3. checks \in 0..MaxChecks /\ updates \in 0..MaxUpdates /\ losses \in 0..MaxLosses
    BY PowerAssumption
  <2>4. /\ script \in [pc: {"off", "start", "look", "download", "extract", "macros",
                           "restarting", "mark", "sleep", "boot"},
                      code: -1..1, text: {"all", "part"}]
        /\ outcome \in {"none", "missing", "unstarted", "error", "uptodate", "cut", "killed",
                        "stopped", "installed"}
    OBVIOUS
  <2> QED
    BY <2>1, <2>2, <2>3, <2>4 DEF TypeOK
<1>2. ChannelInv
  BY DEF ChannelInv, Travelling, Fresh, Verdicts
<1>3. RunInv /\ ScriptInv /\ ClockInv /\ VerdictTrue
  BY DEF RunInv, ScriptInv, ClockInv, VerdictTrue, Fresh
<1>4. DoneInv
  BY DEF DoneInv
<1> QED
  BY <1>1, <1>2, <1>3, <1>4 DEF IInv

LEMMA NextInv ==
  ASSUME IInv, [Next]_vars
  PROVE  IInv' /\ (NoticeStep \/ UNCHANGED vars)
<1> USE DEF IInv
<1>1. TypeOK' /\ ChannelInv'
  BY TypeStep, ChannelStep
<1>2. CASE UNCHANGED vars
  <2>1. UpdateInv' /\ DoneInv'
    BY <1>2 DEF vars, files, world, history, UpdateInv, RunInv, ScriptInv, ClockInv,
                VerdictTrue, DoneInv, Final
  <2> QED
    BY <1>1, <1>2, <2>1 DEF UpdateInv
<1>3. CASE Next
  <2>1. UpdateInv'
    BY <1>3, UpdateTouch, UpdatePoll, UpdateThreads, UpdateScript DEF Next, UpdateInv
  <2>2. NoticeStep /\ DoneInv'
    BY <1>3, NoticeTouch, NoticeThreads, NoticeScript DEF Next
  <2> QED
    BY <1>1, <2>1, <2>2 DEF UpdateInv
<1> QED
  BY <1>2, <1>3

THEOREM Inductive == Spec => []IInv
<1>1. IInv /\ [Next]_vars => IInv'
  BY NextInv
<1> QED
  BY InitInv, <1>1, PTL DEF Spec

-----------------------------------------------------------------------------
(* Every variable keeps its type.                                            *)
THEOREM TypeCorrect == Spec => []TypeOK
<1>1. IInv => TypeOK
  BY DEF IInv
<1> QED
  BY Inductive, <1>1, PTL

(* Once nothing is under way the verdict on the page is about the channel in *)
(* the configuration (poll_update, sysinfo_panel.cpp).                       *)
THEOREM VerdictIsOfChannel == Spec => []VerdictOfChannel
<1>1. IInv => VerdictOfChannel
  BY DEF IInv, ChannelInv, Travelling, VerdictOfChannel, Idle
<1> QED
  BY Inductive, <1>1, PTL

(* The window at the end of an update says what update.sh did.               *)
THEOREM VerdictIsTrue == Spec => []VerdictTrue
<1>1. IInv => VerdictTrue
  BY DEF IInv
<1> QED
  BY Inductive, <1>1, PTL

(* "PowerScreen UPDATED!" is for an update that was completed.               *)
THEOREM NoticeIsHonest == Spec => NoticeHonest
<1>1. IInv /\ [Next]_vars => [prog'.notice /\ ~prog.notice => completed]_vars
  BY NextInv DEF NoticeStep
<1> QED
  BY Inductive, <1>1, PTL DEF Spec, NoticeHonest

-----------------------------------------------------------------------------
(* The window locks the screen: no update starts over another, and update.sh *)
(* has the channel it began with, which the model therefore does not copy.   *)
Alone ==
  script.pc /= "off" =>
    /\ channel' = channel
    /\ script'.pc = "start" => script.pc = "start"

LEMMA AloneStep ==
  ASSUME TypeOK, RunInv, [Next]_vars
  PROVE  Alone
<1> SUFFICES ASSUME script.pc /= "off" PROVE Alone
  BY DEF Alone
<1> USE DEF Alone, world
<1>1. ~(Idle /\ prog.overlay = "none")
  BY DEF RunInv, Idle, Down, Fresh
<1>2. CASE UNCHANGED <<script, channel>>
  BY <1>2
<1>3. CASE OpenPage \/ SetChannel \/ StartRefused \/ StartMissing \/ StartUpdate
  BY <1>1, <1>3 DEF OpenPage, SetChannel, StartRefused, StartMissing, StartUpdate
<1>4. CASE Close \/ PollStep \/ ClockRuns
  BY <1>2, <1>4 DEF Close, PollStep, PollTake, PollShow, PollRead, PollJudge, Ui, ClockRuns
<1>5. CASE CheckStep \/ UpdateStep \/ PrintChanges \/ NoticeGone
  BY <1>2, <1>5 DEF CheckStep, CheckMissing, CheckStart, CheckQuery, CheckFlag, CheckClear, Worker,
                    UpdateStep, UpdateReturn, UpdateFlag, PrintChanges, NoticeGone
<1>6. CASE ScriptStep
  <2>1. channel' = channel
    BY <1>6 DEF ScriptStep, ScriptUnstarted, ScriptDies, ScriptStart, ScriptError,
                ScriptUpToDate, ScriptDownload, ScriptNoPackage, ScriptExtract, ScriptNotExtracted, ScriptExtracted,
                ScriptMacros, ScriptRestarting, ScriptMark, ScriptStop, ScriptBoot
  <2>2. script'.pc /= "start"
    <3>1. CASE ScriptStart \/ ScriptDownload \/ ScriptExtracted
               \/ ScriptRestarting \/ ScriptMark
               \/ (\E reached \in BOOLEAN : ScriptExtract(reached))
               \/ (\E changed \in BOOLEAN : ScriptMacros(changed))
      BY <3>1 DEF ScriptStart, ScriptDownload, ScriptExtract, ScriptExtracted,
                  ScriptRestarting, ScriptMark, ScriptMacros, Goto, TypeOK
    <3>2. CASE ScriptUnstarted \/ (\E code \in 0..1 : ScriptDies(code))
               \/ ScriptUpToDate \/ ScriptNoPackage \/ ScriptNotExtracted \/ ScriptStop
               \/ ScriptBoot \/ (\E code \in 0..1 : ScriptError(code))
      BY <3>2 DEF ScriptUnstarted, ScriptDies, ScriptUpToDate, ScriptNoPackage, ScriptNotExtracted, ScriptStop,
                  ScriptBoot, ScriptError, Goto, Exit, TypeOK
    <3> QED
      BY <1>6, <3>1, <3>2 DEF ScriptStep
  <2> QED
    BY <2>1, <2>2
<1>7. ASSUME NEW kept \in BOOLEAN, PowerLoss(kept)
      PROVE  Alone
  BY <1>7 DEF PowerLoss
<1>8. CASE UNCHANGED vars
  BY <1>2, <1>8 DEF vars
<1> QED
  BY <1>3, <1>4, <1>5, <1>6, <1>7, <1>8 DEF Next

(* start_update(), sysinfo_panel.cpp: one update.sh at a time, and the       *)
(* channel is not chosen while it runs.                                      *)
THEOREM OneUpdateAtATime == Spec => [][Alone]_vars
<1>1. IInv /\ [Next]_vars => [Alone]_vars
  BY AloneStep DEF IInv
<1> QED
  BY Inductive, <1>1, PTL DEF Spec
=============================================================================
