------------------------------ MODULE Camview ------------------------------
(***************************************************************************)
(* The camera application that talks to the power controller:              *)
(* ring_ipc/camview_main.c, as far as being switched on and off goes.      *)
(*                                                                         *)
(* It asks once why it was woken, connects, works until its threads are    *)
(* done, puts the WiFi chip to sleep and asks to be switched off.  When    *)
(* the network fails it asks to be restarted instead, a few times; a       *)
(* watchdog that is fed only while the network is up resets it in the end. *)
(* What it does with video and audio is left out: it may be done with it   *)
(* at any time.                                                            *)
(***************************************************************************)
EXTENDS Naturals

CONSTANT RestartMax     \* APP_RESTART_CNT_MAX

ASSUME RestartAssumption == RestartMax \in Nat

\* wakeup_cnt is a byte; requests nobody answers are counted up to here.
CountBound == RestartMax + 1

VARIABLES
    ak,             \* where camview_main is
    netOk,          \* g_net_conn_sta = NET_STA_NORMAL
    battery,        \* battery_thread runs
    wakeupCnt,      \* ring_dev.wakeup_cnt
    wifiAsleep      \* the WiFi chip is in its sleep mode: it outlives the camera

camVars == <<ak, netOk, battery, wakeupCnt, wifiAsleep>>

CamTypeOK ==
    /\ ak \in {"off", "boot", "ask", "connect", "work", "slept", "hang", "config"}
    /\ netOk \in BOOLEAN /\ battery \in BOOLEAN /\ wifiAsleep \in BOOLEAN
    /\ wakeupCnt \in 0 .. CountBound

CamInit ==
    /\ ak = "off"
    /\ netOk = FALSE /\ battery = FALSE /\ wakeupCnt = 0 /\ wifiAsleep = FALSE

\* Past the answer and the configuration: the watchdog is open.
Awake == ak \in {"connect", "work", "slept", "hang"}

\* The threads that keep the network up are at work.  Nothing stops them when
\* app_wifi_sleep begins: they share g_net_conn_sta with it, without a lock.
Online == Awake /\ battery

-----------------------------------------------------------------------------

\* What is left of the camera when its power goes, or the watchdog bites.
Lost(next) ==
    /\ ak' = next
    /\ netOk' = FALSE /\ battery' = FALSE /\ wakeupCnt' = 0
    /\ UNCHANGED wifiAsleep

Boot == ak = "off" /\ Lost("boot")

\* Nothing repeats the question, and the wait for the answer has no limit.
Ask ==
    /\ ak = "boot" /\ ak' = "ask"
    /\ UNCHANGED <<netOk, battery, wakeupCnt, wifiAsleep>>

\* wakeup_process, and the threads camview_main starts.  wifi_init takes the
\* chip out of its sleep.
Answered(a) ==
    /\ ak = "ask" /\ ak' = "connect"
    /\ a.src # "clear"
    /\ battery' = TRUE
    /\ wakeupCnt' = a.status
    /\ wifiAsleep' = FALSE
    /\ UNCHANGED netOk

\* The WiFi configuration has been cleared, or there is none: the camera waits
\* to be configured and never sleeps.
Unconfigured(a) ==
    /\ ak = "ask" /\ ak' = "config"
    /\ wakeupCnt' = IF a.src = "clear" THEN wakeupCnt ELSE a.status
    /\ UNCHANGED <<netOk, battery, wifiAsleep>>

\* The configuration could not be cleared: EVENT_NULL_WAKEUP starts no thread
\* and goes straight to the loop that ends in sleep.
ClearFailed(a) ==
    /\ ak = "ask" /\ ak' = "work"
    /\ a.src = "clear"
    /\ UNCHANGED <<netOk, battery, wakeupCnt, wifiAsleep>>

\* camview_main waits for the first connection only.  socket_connect_task writes
\* NET_STA_NORMAL over whatever is there, NET_STA_WIFI_SLEEP too.
Connect ==
    /\ Online /\ ~netOk
    /\ ak' = IF ak = "connect" THEN "work" ELSE ak
    /\ netOk' = TRUE
    /\ UNCHANGED <<battery, wakeupCnt, wifiAsleep>>

Disconnect ==
    /\ Online /\ netOk
    /\ netOk' = FALSE
    /\ UNCHANGED <<ak, battery, wakeupCnt, wifiAsleep>>

-----------------------------------------------------------------------------
(* send_cmd_restart_req: a restart, or sleep after too many. *)

Counted == IF wakeupCnt < CountBound THEN wakeupCnt + 1 ELSE wakeupCnt

GivesUp == Counted > RestartMax

RestartCommand == IF GivesUp THEN [id |-> "sleep", status |-> 0]
                  ELSE [id |-> "restart", status |-> Counted]

\* No WiFi, no address, no socket, no server.  The threads go on meanwhile.
AskRestart ==
    /\ Online /\ ~netOk
    /\ wakeupCnt' = Counted
    /\ UNCHANGED <<ak, netOk, battery, wifiAsleep>>

-----------------------------------------------------------------------------
(* The loop of camview_main, once app_delay is over and app_num is 0 *)

\* app_wifi_sleep, then send_cmd_sleep: once only.
GoToSleep ==
    /\ ak = "work" /\ ak' = "slept"
    /\ wifiAsleep' = TRUE
    /\ netOk' = FALSE
    /\ UNCHANGED <<battery, wakeupCnt>>

\* wifi_sleep fails: a restart is asked for, and waited for.
SleepFails ==
    /\ ak = "work" /\ ak' = "hang"
    /\ netOk' = FALSE
    /\ wakeupCnt' = Counted
    /\ UNCHANGED <<battery, wifiAsleep>>

\* battery_thread, every 3 s
AskBattery == Awake /\ battery /\ UNCHANGED camVars

\* Fault: battery_thread feeds the watchdog whatever the state of the network.
WatchdogAlwaysFed == Awake /\ ~battery /\ Lost("boot")

\* The watchdog, fed by battery_thread while the network is up.
Watchdog == Awake /\ ~(battery /\ netOk) /\ Lost("boot")

=============================================================================
