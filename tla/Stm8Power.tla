----------------------------- MODULE Stm8Power -----------------------------
(***************************************************************************)
(* The power controller of the board, an STM8L: the main loop of           *)
(* ak_stm8/project/main.c, the commands of usart1.c and the interrupt      *)
(* handlers of stm8l15x_it.c.                                              *)
(*                                                                         *)
(* The controller switches the camera (the AK) on and off.  It switches it *)
(* on whenever it is awake, answers the camera's commands over a UART and  *)
(* goes into halt when a command has switched the camera off.  The motion  *)
(* sensor (PIR), the WiFi module and the key wake it.                      *)
(*                                                                         *)
(* Interrupts are enabled throughout: each action of the main loop is a    *)
(* stretch between two places where a handler can make a difference, and   *)
(* the handlers run in between.  Left out: status LEDs, the battery gauge, *)
(* the exposure told to the camera and the timing of the bell in key_even, *)
(* none of which bears on power.                                           *)
(***************************************************************************)
EXTENDS Naturals

CONSTANT MaxStatus      \* the largest restart count a command carries

ASSUME StatusAssumption == MaxStatus \in Nat

Status == 0 .. MaxStatus

\* EVENT_PIR_WAKEUP, EVENT_RING_CALL_WAKEUP, EVENT_VIDEO_PREVIEW_WAKEUP
Sources == {"pir", "ring", "preview"}

\* A command of the camera: only CMD_SYS_RESTART_REQ carries a status.
Commands == [id : {"wakeup_src", "sleep", "restart", "battery"}, status : Status]
NoCommand == [id |-> "battery", status |-> 0]

\* CMD_WAKEUP_SRC_RESP: the source, EVENT_SYS_INIT or the request to clear the
\* WiFi configuration; whether the WiFi chip was put to sleep; the restarts.
Answers == [src : Sources \cup {"init", "clear"}, fastlink : BOOLEAN, status : Status]
NoAnswer == [src |-> "none", fastlink |-> FALSE, status |-> 0]

VARIABLES
    pc,             \* where the main loop is
    power,          \* ak_power_flg, and the pin it stands for
    ircut,          \* ircut_status; at night the infrared LED is on as well
    wakeup,         \* wakeup_type; "none" is 0
    armed,          \* PB0 and PB1 interrupt
    wifiLow,        \* the level of PB1; the WiFi module pulls it low
    uartFlg,        \* ak_stm_uart_flg
    cmd,            \* ak_stm_cmd_buf
    eventFlag,      \* event_flag
    backup,         \* ak_wifi_backup_flg
    resetWifi,      \* reset_wifi_flg
    ans,            \* the answer which_wakeup is filling in
    reply           \* the answer on its way to the camera

stmVars == <<pc, power, ircut, wakeup, armed, wifiLow, uartFlg, cmd, eventFlag, backup,
             resetWifi, ans, reply>>

\* The interrupts, and the sources of a wake-up.
irqVars == <<wakeup, armed>>
boardVars == <<power, ircut>>
uartVars == <<uartFlg, cmd>>
memoryVars == <<eventFlag, backup, resetWifi>>
answerVars == <<ans, reply>>

StmTypeOK ==
    /\ pc \in {"disarm", "forget", "top", "test", "dispatch", "answer", "cycle", "arm",
               "done", "rest", "erase", "skip", "halting", "halt", "waiting", "wfi"}
    /\ power \in BOOLEAN /\ armed \in BOOLEAN /\ wifiLow \in BOOLEAN
    /\ uartFlg \in BOOLEAN /\ backup \in BOOLEAN /\ resetWifi \in BOOLEAN
    /\ wakeup \in Sources \cup {"none"}
    /\ ircut \in {"day", "night", "released"}
    /\ cmd \in Commands
    /\ eventFlag \in Status
    /\ ans \in Answers \cup {NoAnswer}
    /\ reply \in Answers \cup {NoAnswer}

\* port_Init arms PB0 and PB1, then main enables interrupts.
StmInit ==
    /\ pc = "disarm"
    /\ power = FALSE /\ ircut = "released" /\ armed = TRUE /\ wakeup = "none"
    /\ wifiLow \in BOOLEAN
    /\ uartFlg = FALSE /\ cmd = NoCommand
    /\ eventFlag = 0 /\ backup = FALSE /\ resetWifi = FALSE
    /\ ans = NoAnswer /\ reply = NoAnswer

-----------------------------------------------------------------------------
(* main, up to the loop *)

Disarm ==
    /\ pc = "disarm" /\ pc' = "forget"
    /\ armed' = FALSE
    /\ UNCHANGED <<boardVars, wakeup, wifiLow, uartVars, memoryVars, answerVars>>

\* wifi_info_reset asks for a clear if the key is held for long enough.
ForgetAtStart ==
    /\ pc = "forget" /\ pc' = "top"
    /\ wakeup' = "none"
    /\ resetWifi' \in BOOLEAN
    /\ UNCHANGED <<boardVars, armed, wifiLow, uartVars, eventFlag, backup, answerVars>>

\* What the photocell says: below IRCUT_CHARGE_NIGHT_VALUE, below
\* IRCUT_CHARGE_DAY_VALUE, just that, above it.
Light == {"dark", "dim", "edge", "bright"}

\* adc_ircut: in between, the filter stays where it is.
IrCut(light) ==
    CASE light = "dark" \/ (light = "dim" /\ ircut = "released") -> "night"
      [] light = "bright" \/ (light = "edge" /\ ircut = "released") -> "day"
      [] OTHER -> ircut

(* The loop.  Each pass switches the camera on if it is off. *)

Top ==
    /\ pc = "top" /\ pc' = "test"
    /\ power' = TRUE
    /\ IF power THEN UNCHANGED ircut ELSE \E light \in Light : ircut' = IrCut(light)
    /\ UNCHANGED <<irqVars, wifiLow, uartVars, memoryVars, answerVars>>

TestUart ==
    /\ pc = "test"
    /\ pc' = IF uartFlg THEN "dispatch" ELSE "rest"
    /\ UNCHANGED <<boardVars, irqVars, wifiLow, uartVars, memoryVars, answerVars>>

-----------------------------------------------------------------------------
(* ak_stm_uart *)

Serving(id) == pc = "dispatch" /\ cmd.id = id

\* which_wakeup reads the source here and clears it after it has sent the answer.
LookUpSource ==
    /\ Serving("wakeup_src")
    /\ pc' = "answer"
    /\ IF resetWifi
       THEN /\ ans' = [src |-> "clear", fastlink |-> FALSE, status |-> 0]
            /\ UNCHANGED eventFlag
       ELSE /\ ans' = [src |-> IF wakeup = "none" THEN "init" ELSE wakeup,
                       fastlink |-> backup, status |-> eventFlag]
            /\ eventFlag' = 0
    /\ UNCHANGED <<boardVars, irqVars, wifiLow, uartVars, backup, resetWifi, reply>>

\* Fault: set_wakeup_type is missing at the end of which_wakeup.
SendAnswerKeepsSource ==
    /\ pc = "answer" /\ pc' = "done"
    /\ reply' = ans /\ ans' = NoAnswer
    /\ backup' = FALSE
    /\ UNCHANGED <<boardVars, wakeup, armed, wifiLow, uartVars, eventFlag, resetWifi>>

\* Fault: ak_wifi_backup_flg is not cleared when it has been told.
SendAnswerKeepsBackup ==
    /\ pc = "answer" /\ pc' = "done"
    /\ reply' = ans /\ ans' = NoAnswer
    /\ wakeup' = "none"
    /\ UNCHANGED <<boardVars, armed, wifiLow, uartVars, eventFlag, backup, resetWifi>>

SendAnswer ==
    /\ pc = "answer" /\ pc' = "done"
    /\ reply' = ans /\ ans' = NoAnswer
    /\ backup' = FALSE
    /\ wakeup' = "none"
    /\ UNCHANGED <<boardVars, armed, wifiLow, uartVars, eventFlag, resetWifi>>

\* power_ak(0): what is on its way to the camera is lost.
PowerOff == power' = FALSE /\ ircut' = "released" /\ reply' = NoAnswer

\* Fault: the branch with the WiFi module quiet does not enable the interrupts.
SleepUnarmed ==
    /\ Serving("sleep")
    /\ backup' = TRUE
    /\ PowerOff
    /\ pc' = IF wifiLow THEN "cycle" ELSE "done"
    /\ UNCHANGED <<irqVars, wifiLow, uartVars, eventFlag, resetWifi, ans>>

\* CMD_SLEEP_REQ: with the WiFi module asking already, the camera is only
\* switched off and on.
Sleep ==
    /\ Serving("sleep")
    /\ backup' = TRUE
    /\ PowerOff
    /\ pc' = IF wifiLow THEN "cycle" ELSE "arm"
    /\ UNCHANGED <<irqVars, wifiLow, uartVars, eventFlag, resetWifi, ans>>

Arm ==
    /\ pc = "arm" /\ pc' = "done"
    /\ armed' = TRUE
    /\ UNCHANGED <<boardVars, wakeup, wifiLow, uartVars, memoryVars, answerVars>>

\* Fault: the restart count is not kept for the next answer.
RestartForgetsCount ==
    /\ Serving("restart")
    /\ PowerOff
    /\ pc' = "cycle"
    /\ UNCHANGED <<irqVars, wifiLow, uartVars, memoryVars, ans>>

\* CMD_SYS_RESTART_REQ
Restart ==
    /\ Serving("restart")
    /\ eventFlag' = cmd.status
    /\ PowerOff
    /\ pc' = "cycle"
    /\ UNCHANGED <<irqVars, wifiLow, uartVars, backup, resetWifi, ans>>

\* On again, 200 ms later: the light is not looked at until the next battery
\* request, filter and LED stay released.
SwitchBackOn ==
    /\ pc = "cycle" /\ pc' = "done"
    /\ power' = TRUE
    /\ backup' = (backup /\ cmd.id # "restart")
    /\ UNCHANGED <<ircut, irqVars, wifiLow, uartVars, eventFlag, resetWifi, answerVars>>

\* CMD_BATTERY_GET_VAL looks at the light again.  Its answer only sets the
\* charge and the mode the camera shows.
TellBattery ==
    /\ Serving("battery") /\ pc' = "done"
    /\ \E light \in Light : ircut' = IrCut(light)
    /\ UNCHANGED <<power, irqVars, wifiLow, uartVars, memoryVars, answerVars>>

\* Fault: set_uart_flg is missing: the command is served over and over.
CommandDoneKeepsFlag ==
    /\ pc = "done" /\ pc' = "rest"
    /\ resetWifi' = FALSE
    /\ UNCHANGED <<boardVars, irqVars, wifiLow, uartVars, eventFlag, backup, answerVars>>

CommandDone ==
    /\ pc = "done" /\ pc' = "rest"
    /\ resetWifi' = FALSE
    /\ uartFlg' = FALSE
    /\ UNCHANGED <<boardVars, irqVars, wifiLow, cmd, eventFlag, backup, answerVars>>

-----------------------------------------------------------------------------
(* The end of the loop: wait for the next interrupt. *)

\* The pin is read before wakeup_type is cleared: both decide about halt.
Rest ==
    /\ pc = "rest"
    /\ pc' = IF power THEN "waiting" ELSE IF wifiLow THEN "skip" ELSE "erase"
    /\ UNCHANGED <<boardVars, irqVars, wifiLow, uartVars, memoryVars, answerVars>>

\* set_wakeup_type, on the way to halt or past it.
Erase ==
    /\ pc \in {"erase", "skip"}
    /\ pc' = IF pc = "erase" THEN "halting" ELSE "top"
    /\ wakeup' = "none"
    /\ UNCHANGED <<boardVars, armed, wifiLow, uartVars, memoryVars, answerVars>>

\* halt() and wfi(): an interrupt served before does not wake.
StopCpu ==
    /\ pc \in {"halting", "waiting"}
    /\ pc' = IF pc = "halting" THEN "halt" ELSE "wfi"
    /\ UNCHANGED <<boardVars, irqVars, wifiLow, uartVars, memoryVars, answerVars>>

MainLoop == \/ Disarm \/ ForgetAtStart \/ Top \/ TestUart
            \/ LookUpSource \/ SendAnswer \/ Sleep \/ Arm \/ Restart \/ SwitchBackOn
            \/ TellBattery \/ CommandDone \/ Rest \/ Erase \/ StopCpu

-----------------------------------------------------------------------------
(* Interrupt handlers *)

\* The CPU goes on after halt or wfi, at the top of the loop.
Woken == IF pc \in {"halt", "wfi"} THEN "top" ELSE pc

\* The first source is kept; the others of the same stretch are not recorded.
Recorded(src) == IF wakeup = "none" THEN src ELSE wakeup

\* EXTI0 and EXTI1 switch each other off, too.
WakeIsr(src) ==
    /\ armed /\ armed' = FALSE
    /\ wakeup' = Recorded(src)
    /\ pc' = Woken
    /\ UNCHANGED <<boardVars, wifiLow, uartVars, memoryVars, answerVars>>

PirIsr == WakeIsr("pir")

\* The pin is sensitive to its level.
WifiIsr == wifiLow /\ WakeIsr("preview")

\* EXTI4 is never switched off.
KeyIsr ==
    /\ wakeup' = Recorded("ring")
    /\ pc' = Woken
    /\ UNCHANGED <<boardVars, armed, wifiLow, uartVars, memoryVars, answerVars>>

\* TIM2 runs for a while after the key; halt stops it.
TimerIsr ==
    /\ pc = "wfi" /\ pc' = Woken
    /\ UNCHANGED <<boardVars, irqVars, wifiLow, uartVars, memoryVars, answerVars>>

\* The bytes of one command: all are dropped while ak_stm_uart_flg is up, but
\* they wake the CPU all the same.  The UART is off while the camera is.
Receive(c) ==
    /\ power
    /\ uartFlg' = TRUE
    /\ cmd' = IF uartFlg THEN cmd ELSE c
    /\ pc' = Woken
    /\ UNCHANGED <<boardVars, irqVars, wifiLow, memoryVars, answerVars>>

\* The WiFi module moves its pin on its own.
WifiPin ==
    /\ wifiLow' = ~wifiLow
    /\ UNCHANGED <<pc, boardVars, irqVars, uartVars, memoryVars, answerVars>>

=============================================================================
