-------------------------- MODULE WakeCycleProofs --------------------------
(***************************************************************************)
(* Proofs about the power controller and the camera it switches.           *)
(*                                                                         *)
(* A command is pending from the moment it is received until it is served, *)
(* although ak_stm_uart_flg stays up until ak_stm_uart has returned.  The  *)
(* invariant follows three things on their way round: the question for the *)
(* source and its answer, the word that the WiFi chip sleeps, and the      *)
(* number of restarts.                                                     *)
(***************************************************************************)
EXTENDS WakeCycle, TLAPS

\* Where the controller has the camera on, and off.
OnSteps == {"test", "dispatch", "answer", "waiting", "wfi"}
OffSteps == {"disarm", "forget", "cycle", "arm", "erase", "skip", "halting", "halt"}

\* Received, and not served yet.
Pending(id) == uartFlg /\ cmd.id = id /\ pc \notin {"answer", "cycle", "arm", "done"}

\* The camera has power when the controller thinks so.
PowerAgrees ==
    /\ pc \in OnSteps => power
    /\ pc \in OffSteps => ~power
    /\ power = (ak # "off")
    /\ NoLedWhileOff

\* On the way to halt the interrupts are on, or one has fired.
ListensOnTheWay ==
    ~power /\ pc \in {"done", "rest", "erase", "skip", "halting", "halt"} => armed \/ hit

\* ak_stm_uart runs for a command it has received.
Busy ==
    /\ pc \in {"dispatch", "answer", "cycle", "arm", "done"} => uartFlg
    /\ pc = "answer" => cmd.id = "wakeup_src"

\* An answer is filled in from a source that fired.
SourceFired ==
    /\ pc = "answer" => ans # NoAnswer
    /\ pc # "answer" => ans = NoAnswer
    /\ wakeup \in Sources => wakeup \in since
    /\ ans.src \in Sources => ans.src \in since

\* The camera waits for an answer as long as there can be one, and does
\* nothing meanwhile.
AskedOnce ==
    /\ Pending("wakeup_src") \/ pc = "answer" \/ reply # NoAnswer => ak = "ask"
    /\ reply # NoAnswer =>
          /\ uartFlg => pc = "done" /\ cmd.id = "wakeup_src"
          /\ ~backup

\* The word that the chip sleeps, from the command to the answer.
FastlinkChain ==
    \/ backup \/ ans.fastlink \/ reply.fastlink
    \/ uartFlg /\ cmd.id = "sleep"
    => wifiAsleep \/ gaveUp

\* The restart count, from the command to event_flag, the answer and the camera.
CountCarried ==
    /\ cycles <= RestartMax
    /\ cmd.status <= RestartMax /\ eventFlag <= RestartMax
    /\ ans.status <= RestartMax /\ reply.status <= RestartMax
    /\ Pending("restart") => cycles < cmd.status
    /\ pc \in {"disarm", "forget"} => cycles = 0
    /\ resetWifi /\ pc \notin {"cycle", "done"} => cycles = 0
    /\ ans.src = "clear" => ans.status = 0
    /\ reply.src = "clear" => reply.status = 0
    /\ ak \in {"off", "boot"} => cycles <= eventFlag
    /\ ak = "ask" /\ pc # "answer" /\ reply = NoAnswer => cycles <= eventFlag
    /\ pc = "answer" => cycles <= ans.status
    /\ reply # NoAnswer => cycles <= reply.status
    /\ Awake \/ ak = "config" => cycles <= wakeupCnt

\* Where things are; CountCarried needs it, and not the other way round.
Places == /\ PowerAgrees /\ ListensOnTheWay /\ Busy
          /\ SourceFired /\ AskedOnce /\ FastlinkChain

IInv == TypeOK /\ Places /\ CountCarried

-----------------------------------------------------------------------------
(* Types *)

USE DEF irqVars, boardVars, uartVars, memoryVars, answerVars, camVars, ghosts

\* A step of the controller.
LEMMA StmTyped ==
    ASSUME StmTypeOK,
           MainLoop \/ PirIsr \/ WifiIsr \/ KeyIsr \/ TimerIsr \/ WifiPin
    PROVE  StmTypeOK'
  <1>1. CASE Disarm
    BY <1>1 DEF StmTypeOK, Disarm
  <1>2. CASE ForgetAtStart
    BY <1>2 DEF StmTypeOK, ForgetAtStart
  <1>3. CASE Top
    BY <1>3 DEF StmTypeOK, Top, Light, IrCut
  <1>4. CASE TestUart
    BY <1>4 DEF StmTypeOK, TestUart
  <1>5. CASE LookUpSource
    <2>1. /\ pc' = "answer" /\ eventFlag' \in Status /\ reply' \in Answers \cup {NoAnswer}
      BY <1>5, StatusAssumption DEF StmTypeOK, LookUpSource, Status
    <2>2. ans' \in Answers
      <3>1. CASE resetWifi
        <4>1. 0 \in Status /\ "clear" \in Sources \cup {"init", "clear"}
          BY StatusAssumption DEF Status
        <4>2. ans' = [src |-> "clear", fastlink |-> FALSE, status |-> 0]
          BY <1>5, <3>1 DEF LookUpSource
        <4> QED  BY <4>1, <4>2, Zenon DEF Answers
      <3>2. CASE ~resetWifi
        BY <1>5, <3>2 DEF StmTypeOK, LookUpSource, Answers
      <3> QED  BY <3>1, <3>2
    <2> QED  BY <1>5, <2>1, <2>2 DEF StmTypeOK, LookUpSource
  <1>6. CASE SendAnswer
    BY <1>6 DEF StmTypeOK, SendAnswer, NoAnswer
  <1>7. CASE Sleep
    BY <1>7 DEF StmTypeOK, Sleep, Serving, PowerOff
  <1>8. CASE Arm
    BY <1>8 DEF StmTypeOK, Arm
  <1>9. CASE Restart
    BY <1>9 DEF StmTypeOK, Restart, Serving, PowerOff, Commands
  <1>10. CASE SwitchBackOn
    BY <1>10 DEF StmTypeOK, SwitchBackOn
  <1>11. CASE TellBattery
    BY <1>11 DEF StmTypeOK, TellBattery, Serving, Light, IrCut
  <1>12. CASE CommandDone
    BY <1>12 DEF StmTypeOK, CommandDone
  <1>13. CASE Rest
    BY <1>13 DEF StmTypeOK, Rest
  <1>14. CASE Erase
    BY <1>14 DEF StmTypeOK, Erase
  <1>15. CASE StopCpu
    BY <1>15 DEF StmTypeOK, StopCpu
  <1>16. CASE PirIsr
    BY <1>16 DEF StmTypeOK, PirIsr, WakeIsr, Recorded, Woken, Sources
  <1>17. CASE WifiIsr
    BY <1>17 DEF StmTypeOK, WifiIsr, WakeIsr, Recorded, Woken, Sources
  <1>18. CASE KeyIsr
    BY <1>18 DEF StmTypeOK, KeyIsr, Recorded, Woken, Sources
  <1>19. CASE TimerIsr
    BY <1>19 DEF StmTypeOK, TimerIsr, Woken
  <1>20. CASE WifiPin
    BY <1>20 DEF StmTypeOK, WifiPin
  <1> QED  BY <1>1, <1>2, <1>3, <1>4, <1>5, <1>6, <1>7, <1>8, <1>9, <1>10, <1>11,
              <1>12, <1>13, <1>14, <1>15, <1>16, <1>17, <1>18, <1>19, <1>20
           DEF MainLoop

\* A command received.
LEMMA ReceiveTyped ==
    ASSUME StmTypeOK, NEW c \in Commands, Receive(c)
    PROVE  StmTypeOK'
  BY DEF StmTypeOK, Receive, Woken

\* The controller stands still.
LEMMA StmStill == ASSUME StmTypeOK, UNCHANGED stmVars PROVE StmTypeOK'
  <1>1. /\ power' \in BOOLEAN /\ armed' \in BOOLEAN /\ wifiLow' \in BOOLEAN
        /\ uartFlg' \in BOOLEAN /\ backup' \in BOOLEAN /\ resetWifi' \in BOOLEAN
    BY Zenon DEF StmTypeOK, stmVars
  <1> QED  BY <1>1 DEF StmTypeOK, stmVars

LEMMA CommandTyped == ASSUME NEW id \in {"wakeup_src", "sleep", "battery"}
                      PROVE  Command(id) \in Commands
  <1>1. 0 \in Status
    BY StatusAssumption DEF Status
  <1> QED  BY <1>1 DEF Command, Commands

LEMMA RestartCommandTyped == ASSUME CamTypeOK PROVE RestartCommand \in Commands
  <1>1. Counted \in Nat
    BY RestartAssumption DEF CamTypeOK, Counted, CountBound
  <1>2. CASE GivesUp
    <2>1. 0 \in Status
      BY StatusAssumption DEF Status
    <2> QED  BY <1>2, <2>1 DEF RestartCommand, Commands
  <1>3. CASE ~GivesUp
    <2>1. Counted \in Status
      BY <1>1, <1>3, CountFits, StatusAssumption, RestartAssumption DEF GivesUp, Status
    <2> QED  BY <1>3, <2>1 DEF RestartCommand, Commands
  <1> QED  BY <1>2, <1>3

\* A camera that loses its power, or is reset.
LEMMA LostTyped ==
    ASSUME CamTypeOK, NEW next \in {"off", "boot"}, Lost(next)
    PROVE  CamTypeOK'
  <1>1. ak' \in {"off", "boot"} /\ wakeupCnt' \in 0 .. CountBound
    BY RestartAssumption DEF Lost, CountBound
  <1>2. netOk' \in BOOLEAN /\ battery' \in BOOLEAN /\ wifiAsleep' \in BOOLEAN
    BY Zenon DEF CamTypeOK, Lost
  <1> QED  BY <1>1, <1>2 DEF CamTypeOK

\* The other steps of the camera.
LEMMA CamTyped ==
    ASSUME CamTypeOK,
           Ask \/ Connect \/ Disconnect \/ AskRestart \/ GoToSleep \/ SleepFails
    PROVE  CamTypeOK'
  <1>1. Counted \in 0 .. CountBound
    BY RestartAssumption DEF CamTypeOK, Counted, CountBound
  <1>2. wakeupCnt' \in 0 .. CountBound
    BY <1>1 DEF CamTypeOK, Ask, Connect, Disconnect, AskRestart, GoToSleep, SleepFails
  <1>3. netOk' \in BOOLEAN /\ battery' \in BOOLEAN /\ wifiAsleep' \in BOOLEAN
    BY Zenon DEF CamTypeOK, Ask, Connect, Disconnect, AskRestart, GoToSleep, SleepFails
  <1>4. ak' \in {"off", "boot", "ask", "connect", "work", "slept", "hang", "config"}
    BY DEF CamTypeOK, Ask, Connect, Disconnect, AskRestart, GoToSleep, SleepFails
  <1> QED  BY <1>2, <1>3, <1>4 DEF CamTypeOK

\* An answer taken: its count is one that was sent.
LEMMA TakeTyped ==
    ASSUME TypeOK, CountCarried, TakeAnswer
    PROVE  StmTypeOK' /\ CamTypeOK'
  <1>1. StmTypeOK'
    BY DEF TypeOK, StmTypeOK, TakeAnswer
  <1>2. reply.status \in 0 .. CountBound
    <2>1. reply \in Answers
      BY DEF TypeOK, StmTypeOK, TakeAnswer
    <2>2. reply.status \in Nat
      BY <2>1, StatusAssumption DEF Answers, Status
    <2> QED  BY <2>2, RestartAssumption DEF CountCarried, CountBound
  <1>3. wakeupCnt' \in 0 .. CountBound
    BY <1>2 DEF TypeOK, CamTypeOK, TakeAnswer, Answered, Unconfigured, ClearFailed
  <1>4. netOk' \in BOOLEAN /\ battery' \in BOOLEAN /\ wifiAsleep' \in BOOLEAN
    BY Zenon DEF TypeOK, CamTypeOK, TakeAnswer, Answered, Unconfigured, ClearFailed
  <1>5. ak' \in {"connect", "work", "config"}
    BY DEF TakeAnswer, Answered, Unconfigured, ClearFailed
  <1> QED  BY <1>1, <1>3, <1>4, <1>5 DEF CamTypeOK

\* Every step keeps the types; taking an answer needs the bound on its count.
LEMMA TypeNext == ASSUME TypeOK, CountCarried, [Next]_vars PROVE TypeOK'
  <1> USE DEF TypeOK
  <1>1. CASE Inside
    <2>1. StmTypeOK'
      BY <1>1, StmTyped DEF Inside, MainLoop
    <2> QED  BY <1>1, <2>1, Zenon DEF Inside, CamTypeOK
  <1>2. CASE Forgetting
    <2>1. StmTypeOK'
      BY <1>2, StmTyped DEF Forgetting, MainLoop
    <2>2. CamTypeOK'
      BY <1>2, Zenon DEF Forgetting, CamTypeOK
    <2>3. since' \subseteq Sources /\ hit' \in BOOLEAN /\ gaveUp' \in BOOLEAN /\ cycles' \in Nat
      BY <1>2, Zenon DEF Forgetting
    <2> QED  BY <2>1, <2>2, <2>3
  <1>3. CASE Arming
    <2>1. StmTypeOK'
      BY <1>3, StmTyped DEF Arming, MainLoop
    <2> QED  BY <1>3, <2>1, Zenon DEF Arming, CamTypeOK
  <1>4. CASE SwitchOn
    <2>1. StmTypeOK'
      BY <1>4, StmTyped DEF SwitchOn, MainLoop
    <2>2. CamTypeOK'
      <3>1. CASE power
        BY <1>4, <3>1, Zenon DEF SwitchOn, CamTypeOK
      <3>2. CASE ~power
        BY <1>4, <3>2, LostTyped DEF SwitchOn, Boot
      <3> QED  BY <3>1, <3>2
    <2> QED  BY <1>4, <2>1, <2>2, Zenon DEF SwitchOn
  <1>5. CASE SwitchOff
    <2>1. StmTypeOK'
      BY <1>5, StmTyped DEF SwitchOff, MainLoop
    <2>2. CamTypeOK'
      BY <1>5, LostTyped DEF SwitchOff
    <2>3. cycles' \in Nat
      BY <1>5 DEF SwitchOff
    <2> QED  BY <1>5, <2>1, <2>2, <2>3, Zenon DEF SwitchOff
  <1>6. ASSUME NEW src \in Sources, Wakes(src) PROVE TypeOK'
    <2>1. StmTypeOK'
      BY <1>6, StmTyped DEF Wakes
    <2>2. CamTypeOK'
      BY <1>6, Zenon DEF Wakes, CamTypeOK
    <2>3. hit' \in BOOLEAN /\ gaveUp' \in BOOLEAN /\ cycles' \in Nat
      BY <1>6, Zenon DEF Wakes
    <2>4. since' \subseteq Sources
      BY <1>6 DEF Wakes
    <2> QED  BY <2>1, <2>2, <2>3, <2>4
  <1>7. CASE Outside
    <2>1. StmTypeOK'
      BY <1>7, StmTyped DEF Outside
    <2> QED  BY <1>7, <2>1, Zenon DEF Outside, CamTypeOK
  <1>8. CASE AskSource
    <2>1. StmTypeOK' /\ CamTypeOK'
      BY <1>8, ReceiveTyped, CommandTyped, CamTyped DEF AskSource
    <2> QED  BY <1>8, <2>1, Zenon DEF AskSource
  <1>9. CASE TakeAnswer
    <2>1. gaveUp' \in BOOLEAN /\ hit' \in BOOLEAN
      BY <1>9, Zenon DEF TakeAnswer
    <2> QED  BY <1>9, <2>1, TakeTyped DEF TakeAnswer
  <1>10. CASE Network
    <2>1. StmTypeOK'
      BY <1>10, StmStill DEF Network
    <2>2. CamTypeOK'
      BY <1>10, CamTyped DEF Network
    <2> QED  BY <1>10, <2>1, <2>2, Zenon DEF Network
  <1>11. CASE RequestRestart
    <2>1. StmTypeOK' /\ CamTypeOK'
      BY <1>11, ReceiveTyped, RestartCommandTyped, CamTyped DEF RequestRestart
    <2>2. gaveUp' \in BOOLEAN
      BY <1>11, Zenon DEF RequestRestart
    <2> QED  BY <1>11, <2>1, <2>2, Zenon DEF RequestRestart
  <1>12. CASE RequestSleep
    <2>1. StmTypeOK' /\ CamTypeOK'
      BY <1>12, ReceiveTyped, CommandTyped, CamTyped DEF RequestSleep
    <2> QED  BY <1>12, <2>1, Zenon DEF RequestSleep
  <1>13. CASE RequestBattery
    <2>1. StmTypeOK'
      BY <1>13, ReceiveTyped, CommandTyped DEF RequestBattery
    <2> QED  BY <1>13, <2>1, Zenon DEF RequestBattery, AskBattery, CamTypeOK
  <1>14. CASE WatchdogBites
    <2>1. StmTypeOK'
      BY <1>14, StmStill DEF WatchdogBites
    <2>2. CamTypeOK'
      BY <1>14, LostTyped DEF WatchdogBites, Watchdog
    <2> QED  BY <1>14, <2>1, <2>2, Zenon DEF WatchdogBites
  <1>15. CASE UNCHANGED vars
    <2>1. StmTypeOK'
      BY <1>15, StmStill DEF vars
    <2>2. CamTypeOK'
      BY <1>15, Zenon DEF vars, CamTypeOK
    <2> QED  BY <1>15, <2>1, <2>2, Zenon DEF vars
  <1> QED  BY <1>1, <1>2, <1>3, <1>4, <1>5, <1>6, <1>7, <1>8, <1>9, <1>10, <1>11, <1>12,
              <1>13, <1>14, <1>15
           DEF Next, Controller, Camera

-----------------------------------------------------------------------------
(* Places *)

\* Every step keeps commands, answers and the power where Places has them.
LEMMA PlacesNext ==
    ASSUME TypeOK, Places, [Next]_vars
    PROVE  Places'
  <1> USE DEF Places, PowerAgrees, OnSteps, OffSteps, NoLedWhileOff,
          ListensOnTheWay, Busy, SourceFired, AskedOnce, Pending, FastlinkChain,
          Awake, TypeOK, StmTypeOK, CamTypeOK, Sources, NoAnswer, Answers, Commands
  <1>1. CASE Inside
    <2>1. CASE Disarm
      BY <1>1, <2>1 DEF Inside, Disarm
    <2>2. CASE TestUart
      BY <1>1, <2>2 DEF Inside, TestUart
    <2>3. CASE LookUpSource
      BY <1>1, <2>3 DEF Inside, LookUpSource, Serving
    <2>4. CASE TellBattery
      BY <1>1, <2>4 DEF Inside, TellBattery, Serving, Light, IrCut
    <2>5. CASE CommandDone
      BY <1>1, <2>5 DEF Inside, CommandDone
    <2>6. CASE Rest
      BY <1>1, <2>6 DEF Inside, Rest
    <2>7. CASE StopCpu
      BY <1>1, <2>7 DEF Inside, StopCpu
    <2> QED  BY <1>1, <2>1, <2>2, <2>3, <2>4, <2>5, <2>6, <2>7 DEF Inside
  <1>2. CASE Forgetting
    BY <1>2 DEF Forgetting, ForgetAtStart, SendAnswer, Erase
  <1>3. CASE Arming
    BY <1>3 DEF Arming, Arm
  <1>4. CASE SwitchOn
    <2>1. CASE Top
      BY <1>4, <2>1 DEF SwitchOn, Top, Boot, Lost, Light, IrCut
    <2>2. CASE SwitchBackOn
      BY <1>4, <2>2 DEF SwitchOn, SwitchBackOn, Boot, Lost
    <2> QED  BY <1>4, <2>1, <2>2 DEF SwitchOn
  <1>5. CASE SwitchOff
    <2>1. CASE Sleep
      BY <1>5, <2>1 DEF SwitchOff, Sleep, Serving, PowerOff, Lost
    <2>2. CASE Restart
      BY <1>5, <2>2 DEF SwitchOff, Restart, Serving, PowerOff, Lost
    <2> QED  BY <1>5, <2>1, <2>2 DEF SwitchOff
  <1>6. ASSUME NEW src \in Sources, Wakes(src) PROVE Places'
    BY <1>6 DEF Wakes, PirIsr, WifiIsr, KeyIsr, WakeIsr, Recorded, Woken
  <1>7. CASE Outside
    BY <1>7 DEF Outside, TimerIsr, WifiPin, Woken
  <1>8. CASE AskSource
    BY <1>8 DEF AskSource, Ask, Receive, Command, Woken
  <1>9. CASE TakeAnswer
    BY <1>9 DEF TakeAnswer, Answered, Unconfigured, ClearFailed
  <1>10. CASE Network
    BY <1>10 DEF Network, Connect, Disconnect, Online, stmVars
  <1>11. CASE RequestRestart
    <2>1. CASE AskRestart
      BY <1>11, <2>1 DEF RequestRestart, AskRestart, Online, Receive, Woken,
          RestartCommand
    <2>2. CASE SleepFails
      BY <1>11, <2>2 DEF RequestRestart, SleepFails, Receive, Woken, RestartCommand
    <2> QED  BY <1>11, <2>1, <2>2 DEF RequestRestart
  <1>12. CASE RequestSleep
    BY <1>12 DEF RequestSleep, GoToSleep, Receive, Command, Woken
  <1>13. CASE RequestBattery
    BY <1>13 DEF RequestBattery, AskBattery, Receive, Command, Woken
  <1>14. CASE WatchdogBites
    BY <1>14 DEF WatchdogBites, Watchdog, Lost, stmVars
  <1>15. CASE UNCHANGED vars
    BY <1>15 DEF vars, stmVars
  <1> QED  BY <1>1, <1>2, <1>3, <1>4, <1>5, <1>6, <1>7, <1>8, <1>9, <1>10, <1>11,
          <1>12, <1>13, <1>14, <1>15 DEF Next, Controller, Camera

-----------------------------------------------------------------------------
(* Restarts *)

\* Every step passes the restart count on.
LEMMA CountNext ==
    ASSUME TypeOK, TypeOK', Places, CountCarried, [Next]_vars
    PROVE  CountCarried'
  <1> USE RestartAssumption, StatusAssumption, CountFits DEF CountCarried, Status,
          CountBound, Places, PowerAgrees, OnSteps, OffSteps, NoLedWhileOff,
          ListensOnTheWay, Busy, SourceFired, AskedOnce, Pending, FastlinkChain,
          Awake, TypeOK, StmTypeOK, CamTypeOK, Sources, NoAnswer, Answers, Commands
  <1>1. CASE Inside
    <2>1. CASE Disarm
      BY <1>1, <2>1 DEF Inside, Disarm
    <2>2. CASE TestUart
      BY <1>1, <2>2 DEF Inside, TestUart
    <2>3. CASE LookUpSource
      BY <1>1, <2>3 DEF Inside, LookUpSource, Serving
    <2>4. CASE TellBattery
      BY <1>1, <2>4 DEF Inside, TellBattery, Serving, Light, IrCut
    <2>5. CASE CommandDone
      BY <1>1, <2>5 DEF Inside, CommandDone
    <2>6. CASE Rest
      BY <1>1, <2>6 DEF Inside, Rest
    <2>7. CASE StopCpu
      BY <1>1, <2>7 DEF Inside, StopCpu
    <2> QED  BY <1>1, <2>1, <2>2, <2>3, <2>4, <2>5, <2>6, <2>7 DEF Inside
  <1>2. CASE Forgetting
    <2>1. CASE ForgetAtStart
      BY <1>2, <2>1 DEF Forgetting, ForgetAtStart
    <2>2. CASE SendAnswer
      BY <1>2, <2>2 DEF Forgetting, SendAnswer
    <2>3. CASE Erase
      BY <1>2, <2>3 DEF Forgetting, Erase
    <2> QED  BY <1>2, <2>1, <2>2, <2>3 DEF Forgetting
  <1>3. CASE Arming
    BY <1>3 DEF Arming, Arm
  <1>4. CASE SwitchOn
    BY <1>4 DEF SwitchOn, Top, SwitchBackOn, Boot, Lost, Light, IrCut
  <1>5. CASE SwitchOff
    BY <1>5 DEF SwitchOff, Sleep, Restart, PowerOff, Serving, Lost
  <1>6. ASSUME NEW src \in Sources, Wakes(src) PROVE CountCarried'
    BY <1>6 DEF Wakes, PirIsr, WifiIsr, KeyIsr, WakeIsr, Recorded, Woken
  <1>7. CASE Outside
    BY <1>7 DEF Outside, TimerIsr, WifiPin, Woken
  <1>8. CASE AskSource
    BY <1>8 DEF AskSource, Ask, Receive, Command, Woken
  <1>9. CASE TakeAnswer
    <2>1. CASE Answered(reply)
      BY <1>9, <2>1 DEF TakeAnswer, Answered
    <2>2. CASE Unconfigured(reply)
      BY <1>9, <2>2 DEF TakeAnswer, Unconfigured
    <2>3. CASE ClearFailed(reply)
      BY <1>9, <2>3 DEF TakeAnswer, ClearFailed
    <2> QED  BY <1>9, <2>1, <2>2, <2>3 DEF TakeAnswer
  <1>10. CASE Network
    BY <1>10 DEF Network, Connect, Disconnect, Online, stmVars
  <1>11. CASE RequestRestart
    BY <1>11 DEF RequestRestart, AskRestart, SleepFails, Online, Receive, Woken,
        RestartCommand, GivesUp, Counted
  <1>12. CASE RequestSleep
    BY <1>12 DEF RequestSleep, GoToSleep, Receive, Command, Woken
  <1>13. CASE RequestBattery
    BY <1>13 DEF RequestBattery, AskBattery, Receive, Command, Woken
  <1>14. CASE WatchdogBites
    BY <1>14 DEF WatchdogBites, Watchdog, Lost, stmVars
  <1>15. CASE UNCHANGED vars
    BY <1>15 DEF vars, stmVars
  <1> QED  BY <1>1, <1>2, <1>3, <1>4, <1>5, <1>6, <1>7, <1>8, <1>9, <1>10, <1>11,
          <1>12, <1>13, <1>14, <1>15 DEF Next, Controller, Camera

-----------------------------------------------------------------------------
(* The specification *)

LEMMA InitInv == ASSUME Init PROVE IInv
  <1> USE StatusAssumption, RestartAssumption DEF Init, StmInit, CamInit
  <1>1. TypeOK
    <2>1. NoCommand \in Commands /\ eventFlag \in Status
      BY DEF Commands, NoCommand, Status
    <2>2. StmTypeOK
      <3>1. /\ power \in BOOLEAN /\ armed \in BOOLEAN /\ wifiLow \in BOOLEAN
            /\ uartFlg \in BOOLEAN /\ backup \in BOOLEAN /\ resetWifi \in BOOLEAN
        BY Zenon
      <3> QED  BY <2>1, <3>1 DEF StmTypeOK, Sources
    <2>3. CamTypeOK
      <3>1. netOk \in BOOLEAN /\ battery \in BOOLEAN /\ wifiAsleep \in BOOLEAN
        BY Zenon
      <3> QED  BY <3>1 DEF CamTypeOK, CountBound
    <2>4. hit \in BOOLEAN /\ gaveUp \in BOOLEAN
      BY Zenon
    <2> QED  BY <2>2, <2>3, <2>4 DEF TypeOK
  <1>2. Places
    BY DEF Places, PowerAgrees, OnSteps, OffSteps, NoLedWhileOff, ListensOnTheWay, Busy,
           SourceFired, AskedOnce, Pending, FastlinkChain, NoAnswer, Sources
  <1>3. CountCarried
    BY DEF CountCarried, Pending, NoAnswer, NoCommand, Awake
  <1> QED  BY <1>1, <1>2, <1>3 DEF IInv

LEMMA IInvNext == ASSUME IInv, [Next]_vars PROVE IInv'
  BY TypeNext, PlacesNext, CountNext DEF IInv

LEMMA Inductive == Spec => []IInv
  BY InitInv, IInvNext, PTL DEF Spec

-----------------------------------------------------------------------------
(* Theorems *)

\* For every limit of restarts and every status that can count them, the state
\* of controller and camera is well-typed: no status a command or an answer
\* carries is beyond what the camera counts to.
THEOREM WakeCycleTyped == Spec => []TypeOK
  <1>1. IInv => TypeOK
    BY DEF IInv
  <1> QED  BY Inductive, <1>1, PTL

\* The controller listens to PIR and WiFi when it goes into halt, unless one of
\* them fired on the way: the loop of main reaches halt by CMD_SLEEP_REQ only.
THEOREM HaltListensAlways == Spec => []HaltListens
  <1>1. IInv => HaltListens
    BY DEF IInv, TypeOK, StmTypeOK, Places, PowerAgrees, OffSteps, ListensOnTheWay,
           HaltListens
  <1> QED  BY Inductive, <1>1, PTL

\* A board that is off has filter and infrared LED released.
THEOREM LedOffWithPower == Spec => []NoLedWhileOff
  <1>1. IInv => NoLedWhileOff
    BY DEF IInv, Places, PowerAgrees
  <1> QED  BY Inductive, <1>1, PTL

\* However often the network fails, no more than RestartMax restarts follow one
\* another: the count survives each of them in the controller's event_flag.
THEOREM RestartsAlwaysBounded == Spec => []RestartsBounded
  <1>1. IInv => RestartsBounded
    BY DEF IInv, CountCarried, RestartsBounded
  <1> QED  BY Inductive, <1>1, PTL

\* The camera is told to start the WiFi chip without a reset only when the chip
\* was put to sleep, or when the controller took a restart too many for sleep.
THEOREM FastlinkAlwaysTrue == Spec => []FastlinkIsTrue
  <1>1. IInv => FastlinkIsTrue
    BY DEF IInv, Places, FastlinkChain, FastlinkIsTrue
  <1> QED  BY Inductive, <1>1, PTL

\* An answer of which_wakeup names a source that fired since the controller last
\* answered or forgot.
THEOREM NeverPhantom == Spec => NoPhantomWake
  <1>1. ASSUME IInv, [Next]_vars, reply' # reply, reply'.src \in Sources
        PROVE  reply'.src \in since
    <2>1. reply' = ans \/ reply' = NoAnswer
      <3> USE DEF Next, Controller, Camera, Inside, Forgetting, Arming, SwitchOn, SwitchOff,
                  Wakes, Outside, AskSource, TakeAnswer, Network, RequestRestart,
                  RequestSleep, RequestBattery, WatchdogBites, vars, stmVars
      <3> QED  BY <1>1 DEF Disarm, TestUart, LookUpSource, TellBattery, CommandDone, Rest,
                  StopCpu, ForgetAtStart, SendAnswer, Erase, Arm, Top, SwitchBackOn, Sleep,
                  Restart, PowerOff, PirIsr, WifiIsr, KeyIsr, WakeIsr, TimerIsr, WifiPin,
                  Receive
    <2>2. NoAnswer.src \notin Sources
      BY DEF NoAnswer, Sources
    <2> QED  BY <1>1, <2>1, <2>2 DEF IInv, Places, SourceFired
  <1>2. IInv /\ [Next]_vars => [reply' # reply /\ reply'.src \in Sources => reply'.src \in since]_vars
    BY <1>1
  <1> QED  BY Inductive, <1>2, PTL DEF Spec, NoPhantomWake

=============================================================================
