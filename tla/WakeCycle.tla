----------------------------- MODULE WakeCycle -----------------------------
(***************************************************************************)
(* The power controller (Stm8Power) and the camera application (Camview)   *)
(* together: the controller cuts the camera's power and gives it back, the *)
(* camera's commands arrive as interrupts, the controller's answers come   *)
(* back over the UART.                                                     *)
(*                                                                         *)
(* The variables below the line are kept for the properties only.          *)
(***************************************************************************)
EXTENDS Stm8Power, Camview

ASSUME CountFits == RestartMax <= MaxStatus

VARIABLES
    since,      \* sources that fired since wakeup_type was last cleared
    hit,        \* PIR or WiFi fired since they were last enabled
    cycles,     \* restarts in a row that the controller has carried out
    gaveUp      \* the last command to sleep stood for a restart too many

ghosts == <<since, hit, cycles, gaveUp>>
vars == <<stmVars, camVars, ghosts>>

TypeOK ==
    /\ StmTypeOK /\ CamTypeOK
    /\ since \subseteq Sources
    /\ hit \in BOOLEAN /\ gaveUp \in BOOLEAN
    /\ cycles \in Nat

Init ==
    /\ StmInit /\ CamInit
    /\ since = {} /\ hit = FALSE /\ cycles = 0 /\ gaveUp = FALSE

-----------------------------------------------------------------------------
(* The controller's main loop *)

\* Steps that do not touch the camera.
Inside ==
    /\ \/ Disarm \/ TestUart \/ LookUpSource \/ TellBattery \/ CommandDone
       \/ Rest \/ StopCpu
    /\ UNCHANGED <<camVars, ghosts>>

Forgetting ==
    /\ ForgetAtStart \/ SendAnswer \/ Erase
    /\ since' = {}
    /\ UNCHANGED <<camVars, hit, cycles, gaveUp>>

Arming ==
    /\ Arm /\ hit' = FALSE
    /\ UNCHANGED <<camVars, since, cycles, gaveUp>>

SwitchOn ==
    /\ Top \/ SwitchBackOn
    /\ IF power THEN UNCHANGED camVars ELSE Boot
    /\ UNCHANGED ghosts

SwitchOff ==
    /\ \/ Sleep /\ cycles' = 0
       \/ Restart /\ cycles' = cycles + 1
    /\ Lost("off")
    /\ UNCHANGED <<since, hit, gaveUp>>

Controller == Inside \/ Forgetting \/ Arming \/ SwitchOn \/ SwitchOff

-----------------------------------------------------------------------------
(* Interrupts from outside *)

Wakes(src) ==
    /\ \/ src = "pir" /\ PirIsr /\ hit' = TRUE
       \/ src = "preview" /\ WifiIsr /\ hit' = TRUE
       \/ src = "ring" /\ KeyIsr /\ UNCHANGED hit
    /\ since' = since \cup {src}
    /\ UNCHANGED <<camVars, cycles, gaveUp>>

Outside == (TimerIsr \/ WifiPin) /\ UNCHANGED <<camVars, ghosts>>

-----------------------------------------------------------------------------
(* The camera *)

Command(id) == [id |-> id, status |-> 0]

AskSource ==
    /\ Ask /\ Receive(Command("wakeup_src"))
    /\ UNCHANGED ghosts

TakeAnswer ==
    /\ reply # NoAnswer
    /\ Answered(reply) \/ Unconfigured(reply) \/ ClearFailed(reply)
    /\ reply' = NoAnswer
    /\ gaveUp' = FALSE
    /\ UNCHANGED <<pc, boardVars, irqVars, wifiLow, uartVars, memoryVars, ans>>
    /\ UNCHANGED <<since, hit, cycles>>

Network == (Connect \/ Disconnect) /\ UNCHANGED <<stmVars, ghosts>>

RequestRestart ==
    /\ AskRestart \/ SleepFails
    /\ Receive(RestartCommand)
    /\ gaveUp' = (gaveUp \/ GivesUp)
    /\ UNCHANGED <<since, hit, cycles>>

RequestSleep ==
    /\ GoToSleep /\ Receive(Command("sleep"))
    /\ UNCHANGED ghosts

RequestBattery ==
    /\ AskBattery /\ Receive(Command("battery"))
    /\ UNCHANGED ghosts

WatchdogBites ==
    /\ Watchdog /\ cycles' = 0
    /\ UNCHANGED <<stmVars, since, hit, gaveUp>>

Camera == \/ AskSource \/ TakeAnswer \/ Network \/ RequestRestart \/ RequestSleep
          \/ RequestBattery \/ WatchdogBites

Next == Controller \/ (\E src \in Sources : Wakes(src)) \/ Outside \/ Camera

\* The controller runs; battery_thread comes round every 3 s; the watchdog is
\* hardware.  Nobody need press the key, walk by, or have a network.
Spec == /\ Init /\ [][Next]_vars
        /\ WF_vars(Controller)
        /\ WF_vars(RequestBattery)
        /\ WF_vars(WatchdogBites)

-----------------------------------------------------------------------------
(* Properties *)

\* main enables the PIR and WiFi interrupts for the halt: a controller in halt
\* listens to both, unless one of them fired after they were enabled (and was
\* lost on the way to halt).
HaltListens == pc = "halt" => armed \/ hit

\* The comment at halt (main.c:460) has it wait for an external interrupt that
\* wakes the CPU: with the camera off, every source can wake it.
HaltIsWoken == pc = "halt" => armed

\* which_wakeup tells a source that has fired since the controller last
\* answered or forgot: never one it has told before, or of an earlier sleep.
NoPhantomWake ==
    [][reply' # reply /\ reply'.src \in Sources => reply'.src \in since]_vars

\* send_cmd_restart_req gives up after APP_RESTART_CNT_MAX restarts in a row.
\* The camera forgets the count each time; the controller carries it over.
RestartsBounded == cycles <= RestartMax

\* The photocell is only looked at with the camera on: a board that is off has
\* the infrared LED off, whatever was being served when the power went.
NoLedWhileOff == ~power => ircut = "released"

\* ak_wifi_backup_flg tells the camera to start the WiFi chip without a reset:
\* only when the chip was put to sleep, or nobody knows, after the last restart.
FastlinkIsTrue == reply.fastlink => wifiAsleep \/ gaveUp

\* The request to sleep, or to restart when the WiFi chip refuses to, is sent
\* once, and dropped if the controller is busy with the battery.  The camera
\* still does not stay in between for good: the watchdog resets it, unless
\* socket_connect_task has written NET_STA_NORMAL over NET_STA_WIFI_SLEEP
\* (camview_main.c:920 over 475), for which battery_thread feeds the watchdog.
Stopping == ak \in {"slept", "hang"}

SleepEnds == Stopping ~> (~Stopping \/ netOk)

\* A command that arrives between the test of ak_stm_uart_flg and wfi waits for
\* the next interrupt: once battery_thread runs it is served all the same.
CommandTaken == (uartFlg /\ Awake /\ battery) ~> (~uartFlg \/ ~Awake)

=============================================================================
