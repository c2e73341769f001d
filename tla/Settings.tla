------------------------------ MODULE Settings ------------------------------
(***************************************************************************)
(* The flips of the picture as a setting of the camera:                    *)
(* spi_cmd/doorbell_config.c, the commands of spi_cmd/spi_cmd.c that set   *)
(* them, and the video task's loop (video/ak_video.c) that puts them into  *)
(* effect.                                                                 *)
(*                                                                         *)
(* A setting lives in the flash, in the table the flash was read into at   *)
(* power-on, in a global flag that tells the video task of a change, and   *)
(* in the sensor.  Two tasks read and write them without a lock.           *)
(*                                                                         *)
(* The commands for one number (bit rate, frame rate, ...) do the same     *)
(* with the flash and the table, and tell nobody.                          *)
(***************************************************************************)
EXTENDS Integers

CONSTANTS
    Loaded,         \* g_doorbell_load_config: every item could be read at power-on
    Asked           \* what commands ask for

Flips == {0, 1}
FlipItems == {"ud", "tb"}
Setting == [ud : Flips, tb : Flips]
None == -1

\* A byte of a command is a flip, or what the range check refuses.
Invalid == 2
Requests == [ud : Flips \cup {Invalid}, tb : Flips \cup {Invalid}]

ASSUME LoadedAssumption == Loaded \in BOOLEAN
ASSUME AskedAssumption == Asked \subseteq Requests

VARIABLES
    flash,          \* the file APPINI
    table,          \* tableCfg, as atoi reads it
    \* the command task
    cmd,            \* the command
    at, item,       \* where it is in it, and at which flip
    arg,            \* what is to be set
    seen,           \* itemp
    ok,             \* iRet = 0
    \* what tells the video task of a change
    flag,           \* flip_update_ud, flip_update_bt: None, or a value
    \* the video task
    video, why,     \* where it is, and the flip whose flag it has seen
    entry,          \* the flip it is reading
    got,            \* iGetCfgFlip, iGetCfgMirror: None if not read
    sensor,         \* the flips in effect
    \* history
    sure,           \* what was compared is what the flash holds of this item
    doubt,          \* where the table may be wrong
    missed          \* the flag is gone and the change not in effect

store == <<flash, table>>
cmdVars == <<cmd, at, item, arg, seen, ok, sure>>
videoVars == <<video, why, entry, got, sensor, missed>>
vars == <<store, doubt, cmdVars, flag, videoVars>>

Nothing == [i \in FlipItems |-> None]
NotSet == [i \in FlipItems |-> 0]

\* After power-on the video task sets flip and mirror before its loop begins.  If an
\* item cannot be read at power-on the table is not used.
Init ==
    /\ flash \in Setting
    /\ table = flash /\ doubt = {}
    /\ cmd = "none" /\ at = "idle" /\ item = "ud" /\ arg = NotSet
    /\ seen = None /\ ok = TRUE /\ sure = FALSE
    /\ flag = Nothing
    /\ video = "read" /\ why = "start" /\ entry = "ud" /\ got = Nothing
    /\ sensor = NotSet /\ missed = {}

CommandOver ==
    /\ cmd' = "none" /\ at' = "idle" /\ item' = "ud" /\ arg' = NotSet
    /\ seen' = None /\ ok' = TRUE /\ sure' = FALSE

\* The power goes, or the program crashes: the flash is what is left.
Restart ==
    /\ UNCHANGED flash /\ table' = flash /\ doubt' = {}
    /\ CommandOver
    /\ flag' = Nothing
    /\ video' = "read" /\ why' = "start" /\ entry' = "ud" /\ got' = Nothing
    /\ sensor' = NotSet /\ missed' = {}

-----------------------------------------------------------------------------
(* doorbell_config.c *)

\* Fault: the table takes the value before it is known whether it was written.
SetItemTableFirst(i, v) ==
    IF Loaded /\ table[i] = v
    THEN UNCHANGED store /\ ok' = TRUE
    ELSE /\ table' = [table EXCEPT ![i] = v]
         /\ \/ flash' = [flash EXCEPT ![i] = v] /\ ok' = TRUE
            \/ UNCHANGED flash /\ ok' = FALSE

\* doorbell_cfg_set_item: nothing to do if the table has the value already.  Only the
\* command task writes, so nobody sees the flash written and the table not.
SetItem(i, v) ==
    IF Loaded /\ table[i] = v
    THEN UNCHANGED store /\ ok' = TRUE
    ELSE \/ /\ flash' = [flash EXCEPT ![i] = v]
            /\ table' = [table EXCEPT ![i] = v]
            /\ ok' = TRUE
         \/ UNCHANGED store /\ ok' = FALSE

\* doorbell_cfg_set_flipupdown, doorbell_cfg_set_fliptopbottom
SetInRange(i, v) ==
    IF v \in Flips THEN SetItem(i, v) ELSE UNCHANGED store /\ ok' = FALSE

\* What memset and sprintf of doorbell_cfg_get_item leave in the table.
Enter(i, v) ==
    /\ table' = [table EXCEPT ![i] = v]
    /\ doubt' = IF v = flash[i] THEN doubt \ {i} ELSE doubt \cup {i}

\* doorbell_cfg_get_item into a local, by the task that writes: nobody else compares,
\* and the table is true again.
Refresh(i) == Enter(i, flash[i]) /\ UNCHANGED flash

ReadingFails == UNCHANGED <<store, doubt>>

-----------------------------------------------------------------------------
(* spi_command_task *)

GetCommand ==
    /\ at = "idle"
    /\ \E i \in FlipItems : Refresh(i)
    /\ UNCHANGED <<cmdVars, flag, videoVars>>

FlipCommand ==
    /\ at = "idle" /\ at' = "get"
    /\ cmd' = "flip"
    /\ arg' \in Asked
    /\ UNCHANGED <<store, doubt, item, seen, ok, sure, flag, videoVars>>

FlickerCommand ==
    /\ at = "idle" /\ at' = "get"
    /\ cmd' = "flicker"
    /\ arg' \in Asked
    /\ UNCHANGED <<store, doubt, item, seen, ok, sure, flag, videoVars>>

\* spicmd_process_flicker reads the flip it is going to set; itemp is left as it is, or
\* as it was found on the stack, if the reading fails.
GetFlip ==
    /\ at = "get" /\ cmd = "flicker" /\ at' = "set"
    /\ ok' = TRUE
    /\ \/ Refresh(item) /\ seen' = flash[item] /\ sure' = TRUE
       \/ ReadingFails /\ seen' \in Flips \cup {None, Invalid} /\ sure' = FALSE
    /\ UNCHANGED <<cmd, item, arg, flag, videoVars>>

\* spicmd_process_flip reads it into the flag itself, and reads top-bottom for both.
GetFlipIntoFlag ==
    /\ at = "get" /\ cmd = "flip"
    /\ \/ at' = "print" /\ flag' = [flag EXCEPT ![item] = flash.tb] /\ sure' = (item = "tb")
       \/ at' = "set" /\ UNCHANGED flag /\ sure' = FALSE
    /\ UNCHANGED <<store, doubt, cmd, item, arg, seen, ok, videoVars>>

\* The flag is read once more, for the table: the video task may have taken it back.
PrintFlag ==
    /\ at = "print" /\ at' = "set"
    /\ Enter("tb", flag[item])
    /\ UNCHANGED <<flash, cmd, item, arg, seen, ok, sure, flag, videoVars>>

NextFlip == IF item = "ud" THEN item' = "tb" /\ at' = "get"
                           ELSE UNCHANGED item /\ at' = "answer"

Forget == seen' = None /\ sure' = FALSE

Compared == IF cmd = "flip" THEN flag[item] ELSE seen

\* iRet of the first flip is not reset in spicmd_process_flip.
FlipUnchanged ==
    /\ at = "set" /\ Compared = arg[item]
    /\ NextFlip /\ Forget
    /\ UNCHANGED <<store, doubt, cmd, arg, ok, flag, videoVars>>

SetFlip ==
    /\ at = "set" /\ Compared # arg[item] /\ at' = "flag"
    /\ SetInRange(item, arg[item])
    /\ doubt' = IF flash' = flash THEN doubt ELSE doubt \ {item}
    /\ Forget
    /\ UNCHANGED <<cmd, item, arg, flag, videoVars>>

\* Whether it was stored or not.  The video task passes over what is no flip: a flag it
\* has not seen yet is lost under it.
RaiseFlag ==
    /\ at = "flag"
    /\ flag' = [flag EXCEPT ![item] = arg[item]]
    /\ missed' = IF arg[item] \in Flips THEN missed \ {item}
                 ELSE IF flag[item] \in Flips THEN missed \cup {item} ELSE missed
    /\ NextFlip
    /\ UNCHANGED <<store, doubt, cmd, arg, seen, ok, sure, video, why, entry, got, sensor>>

Answer ==
    /\ at = "answer" /\ CommandOver
    /\ UNCHANGED <<store, doubt, flag, videoVars>>

-----------------------------------------------------------------------------
(* ak_video_encode_task *)

videoFrame == <<flash, cmdVars>>

SeeFlag(i) ==
    /\ video = i
    /\ IF flag[i] \in Flips THEN video' = "read" /\ why' = i
       ELSE video' = (IF i = "ud" THEN "tb" ELSE "ud") /\ UNCHANGED why
    /\ UNCHANGED <<videoFrame, table, doubt, flag, entry, got, sensor, missed>>

\* video_set_flip_mirror; a failing ak_vi_get_flip_mirror ends it at once.
SensorSilent ==
    /\ video = "read" /\ entry = "ud" /\ video' = "done"
    /\ UNCHANGED <<videoFrame, table, doubt, flag, why, entry, got, sensor, missed>>

NextEntry == IF entry = "ud" THEN entry' = "tb" /\ video' = "read"
                             ELSE UNCHANGED entry /\ video' = "apply"

\* doorbell_get_item for one of them, which may fail.
ReadEntry ==
    /\ video = "read"
    /\ \/ got' = [got EXCEPT ![entry] = flash[entry]] /\ video' = "clear" /\ UNCHANGED entry
       \/ UNCHANGED got /\ NextEntry
    /\ UNCHANGED <<videoFrame, table, doubt, flag, why, sensor, missed>>

\* The rest of doorbell_cfg_get_item, by a task that does not write: meanwhile the
\* command task may store another value, or compare with what memset leaves, which
\* atoi takes for 0.
ClearEntry ==
    /\ video = "clear" /\ video' = "print"
    /\ Enter(entry, 0)
    /\ UNCHANGED <<videoFrame, flag, why, entry, got, sensor, missed>>

PrintEntry ==
    /\ video = "print" /\ NextEntry
    /\ Enter(entry, got[entry])
    /\ UNCHANGED <<videoFrame, flag, why, got, sensor, missed>>

\* The sensor may refuse.
Apply ==
    /\ video = "apply" /\ video' = "done"
    /\ \/ (\A i \in FlipItems : got[i] # None) /\ sensor' = got
       \/ UNCHANGED sensor
    /\ missed' = {i \in missed : sensor'[i] # flash[i]}
    /\ entry' = "ud" /\ got' = Nothing
    /\ UNCHANGED <<videoFrame, table, doubt, flag, why>>

Untrue(items) == {i \in items : sensor[i] # flash[i]}

\* Fault: both flags are taken back after either of them.
FlagDoneBoth(i) ==
    /\ flag' = [j \in FlipItems |-> None]
    /\ missed' = (missed \ {i}) \cup Untrue({i})

FlagDone(i) ==
    /\ flag' = [flag EXCEPT ![i] = None]
    /\ missed' = (missed \ {i}) \cup Untrue({i})

FlipDone ==
    /\ video = "done"
    /\ IF why = "start" THEN UNCHANGED flag /\ missed' = Untrue(FlipItems)
                        ELSE FlagDone(why)
    /\ video' = CASE why = "start" -> "ud" [] why = "ud" -> "tb" [] OTHER -> "ud"
    /\ why' = "start"
    /\ UNCHANGED <<videoFrame, table, doubt, entry, got, sensor>>

-----------------------------------------------------------------------------
Handle == \/ GetFlip \/ GetFlipIntoFlag \/ PrintFlag
          \/ FlipUnchanged \/ SetFlip \/ RaiseFlag \/ Answer

Video == \/ \E i \in FlipItems : SeeFlag(i)
         \/ SensorSilent \/ ReadEntry \/ ClearEntry \/ PrintEntry \/ Apply \/ FlipDone

NewCommand == FlipCommand \/ FlickerCommand

Next == NewCommand \/ GetCommand \/ Handle \/ Video \/ Restart

\* A command is worked off without waiting, and the video task's loop goes on with every
\* frame.  Nobody has to send commands.
Fairness == WF_vars(Handle) /\ WF_vars(Video)

Spec == Init /\ [][Next]_vars /\ Fairness

-----------------------------------------------------------------------------
(* Properties *)

\* The flash, the sensor and what is read hold settings; the table also holds -1, when
\* the flag printed into it is gone, and the flags what the range check refused.
TypeOK ==
    /\ flash \in Setting
    /\ table \in [FlipItems -> Flips \cup {None}]
    /\ cmd \in {"none", "flip", "flicker"}
    /\ at \in {"idle", "get", "print", "set", "flag", "answer"}
    /\ item \in FlipItems
    /\ arg \in Requests
    /\ seen \in Flips \cup {None, Invalid} /\ ok \in BOOLEAN /\ sure \in BOOLEAN
    /\ {doubt, missed} \subseteq SUBSET FlipItems
    /\ flag \in [FlipItems -> Flips \cup {None, Invalid}]
    /\ video \in {"read", "clear", "print", "apply", "done", "ud", "tb"}
    /\ why \in FlipItems \cup {"start"}
    /\ entry \in FlipItems
    /\ got \in [FlipItems -> Flips \cup {None}]
    /\ sensor \in Setting

\* A flip that is answered as done is what the flash holds, through failing writes, the
\* table and the comparison with what is set already.  The excuses: the reading failed,
\* or read the other flip; the table is wrong because the video task has put an old value
\* into it or is just about to print one, or has taken the flag back that is printed.
Excused == IF Compared = arg[item] THEN ~sure ELSE item \in doubt

AnswerIsTrue ==
    [][(FlipUnchanged \/ SetFlip) /\ ok' /\ ~Excused => flash'[item] = arg[item]]_vars

InEffect == \A i \in FlipItems \ missed : sensor[i] = flash[i]

\* Once commands and restarts have ceased, what is in effect is what was set, unless the
\* video task took a flag back that had been raised again, or could not read or apply
\* what it stood for, or a value the range check refused has covered a flag that it had
\* not seen.
SettingsTakeEffect == <>[][~NewCommand /\ ~Restart]_vars => <>[]InEffect
=============================================================================
