---------------------------- MODULE EventPipeline ---------------------------
(***************************************************************************)
(* From a ring of the doorbell to the upload: the four tasks that hand an  *)
(* event on through global flags, with no lock among them.                 *)
(*                                                                         *)
(*   spi_cmd     spicmd_play_dingdong: notes the event, asks for a picture *)
(*   snapshot    ak_video_take_snapshot_task_2: takes the picture, then    *)
(*               starts the recorder                                       *)
(*   recorder    StreamMgrRecordingHdl: records one clip into memory       *)
(*   uploader    uploader_task_new_push: sends picture and clip            *)
(*                                                                         *)
(* One step reads or writes one shared variable at a time, save where a    *)
(* second one cannot change in between.  Times are abstracted: a wait with *)
(* a limit may run out at any moment.  The snapshot task runs with no SD   *)
(* card streaming (g_iP2pSdStreamStart = 0), as built for model 003.       *)
(***************************************************************************)
EXTENDS Naturals

CONSTANTS Pictures,     \* what the camera may see
          NoPicture     \* the picture buffer before the first snapshot

VARIABLES
    \* shared variables of the C program
    eventInfo,      \* g_event_info holds an event
    snapFlag,       \* g_SpiCmdSnapshot
    snapshot,       \* g_iDoneSnapshot
    upload,         \* g_isDoneUpload
    record,         \* g_RecordDone
    buffer,         \* g_sDataSnapshot4Uploader
    recFile,        \* gStreamMgrRec.pFile # NULL
    starts,         \* count of the semaphore gStreamMgrRec.cond
    clip,           \* the file in memory, see ClipStates
    sysMode,        \* eSysModeGet() is FTEST or FWUPGRADE
    \* the tasks: where each is, and its locals
    spiTask, coolingDown,
    snapTask, snapMode,
    recTask,
    upTask, firstTime, upMode,
    sent            \* history: the picture the uploader sent last

shared == <<eventInfo, snapFlag, snapshot, upload, record, buffer, recFile,
            starts, clip, sysMode>>
spiVars  == <<spiTask, coolingDown>>
snapVars == <<snapTask, snapMode>>
upVars   == <<upTask, firstTime, upMode, sent>>
vars == <<shared, spiVars, snapVars, recTask, upVars>>

\* No file, one being recorded, one opened for reading before it was finished
\* (further writes go over its start), a finished one.
ClipStates == {"none", "growing", "sealed", "complete"}

Init ==
    /\ eventInfo = FALSE
    /\ snapFlag = FALSE
    /\ snapshot = "INIT"
    /\ upload = "INIT"
    /\ record = "INIT"
    /\ buffer = NoPicture
    /\ recFile = FALSE
    /\ starts = 0
    /\ clip = "none"
    /\ sysMode = FALSE
    /\ spiTask = "idle" /\ coolingDown = FALSE
    \* sys_get_mode is uninitialised in both tasks; the snapshot task never sets it.
    /\ snapTask = "wait" /\ snapMode \in BOOLEAN
    /\ recTask = "idle"
    /\ upTask = "waitInfo" /\ firstTime = TRUE /\ upMode \in BOOLEAN
    /\ sent = NoPicture

-----------------------------------------------------------------------------
(* spi_cmd: spicmd_play_dingdong                                           *)

\* SPICMD_DINGDONG_OPTION_DINGDONG brings no event; OPTION_SNAPSHOT does, and the
\* memset and the memcpy of g_event_info are two steps.
ReceiveDingdong ==
    /\ spiTask = "idle"
    /\ spiTask' = "flag"
    /\ UNCHANGED <<shared, coolingDown, snapVars, recTask, upVars>>

ReceiveEvent ==
    /\ spiTask = "idle"
    /\ eventInfo' = FALSE
    /\ spiTask' = "fill"
    /\ UNCHANGED <<snapFlag, snapshot, upload, record, buffer, recFile, starts,
                   clip, sysMode, coolingDown, snapVars, recTask, upVars>>

FillEventInfo ==
    /\ spiTask = "fill"
    /\ eventInfo' = TRUE
    /\ spiTask' = "flag"
    /\ UNCHANGED <<snapFlag, snapshot, upload, record, buffer, recFile, starts,
                   clip, sysMode, coolingDown, snapVars, recTask, upVars>>

\* No second picture within SYS_COOLDOWN_PUSH ms.
RaiseFlag ==
    /\ spiTask = "flag"
    /\ snapFlag' = (snapFlag \/ ~coolingDown)
    /\ coolingDown' = TRUE
    /\ spiTask' = "idle"
    /\ UNCHANGED <<eventInfo, snapshot, upload, record, buffer, recFile, starts,
                   clip, sysMode, snapVars, recTask, upVars>>

CooldownOver ==
    /\ coolingDown
    /\ coolingDown' = FALSE
    /\ UNCHANGED <<shared, spiTask, snapVars, recTask, upVars>>

\* vSysModeSet, called by the factory test and the firmware upgrade.
LeaveNormalMode ==
    /\ sysMode' = TRUE
    /\ UNCHANGED <<eventInfo, snapFlag, snapshot, upload, record, buffer, recFile,
                   starts, clip, spiVars, snapVars, recTask, upVars>>

-----------------------------------------------------------------------------
(* snapshot: ak_video_take_snapshot_task_2                                 *)

\* Past the wait for the recording, or its 160 rounds.
SeeFlag ==
    /\ snapTask = "wait"
    /\ snapFlag
    /\ snapTask' = "check"
    /\ UNCHANGED <<shared, spiVars, snapMode, recTask, upVars>>

\* Fault: only the snapshot's own state is asked.
AllowedWhileUploading == snapshot \in {"INIT", "WAIT"}

\* iSnapshotAllow.  snapshot cannot change while it is INIT or WAIT, so reading
\* the two variables is one step.
SnapshotAllowed ==
    \/ snapshot = "INIT" /\ upload = "INIT"
    \/ snapshot = "WAIT" /\ upload = "DONE"

\* Fault: a refused request stays raised.
CheckStatesKeepRefused ==
    /\ snapTask = "check"
    /\ IF SnapshotAllowed
         THEN snapFlag' = FALSE /\ snapshot' = "RUNNING" /\ snapTask' = "encode"
         ELSE snapTask' = "wait" /\ UNCHANGED <<snapFlag, snapshot>>
    /\ UNCHANGED <<eventInfo, upload, record, buffer, recFile, starts, clip, sysMode,
                   spiVars, snapMode, recTask, upVars>>

CheckStates ==
    /\ snapTask = "check"
    /\ snapFlag' = FALSE
    /\ IF SnapshotAllowed
         THEN snapshot' = "RUNNING" /\ snapTask' = "encode"
         ELSE snapTask' = "wait" /\ UNCHANGED snapshot
    /\ UNCHANGED <<eventInfo, upload, record, buffer, recFile, starts, clip, sysMode,
                   spiVars, snapMode, recTask, upVars>>

\* A frame that cannot be encoded is tried again (while (1) 2).
Encode ==
    /\ snapTask = "encode"
    /\ buffer' \in Pictures
    /\ snapTask' = "publish"
    /\ UNCHANGED <<eventInfo, snapFlag, snapshot, upload, record, recFile, starts,
                   clip, sysMode, spiVars, snapMode, recTask, upVars>>

Publish ==
    /\ snapTask = "publish"
    /\ snapshot' = "DONE"
    /\ snapTask' = "start"
    /\ UNCHANGED <<eventInfo, snapFlag, upload, record, buffer, recFile, starts,
                   clip, sysMode, spiVars, snapMode, recTask, upVars>>

\* Fault: StreamMgrRecordingStart trusts the recorder's status alone.
OpenUnlessRecording ==
    IF clip = "none"
      THEN recFile' = TRUE /\ clip' = "growing" /\ starts' = starts + 1
      ELSE UNCHANGED <<recFile, clip, starts>>

\* StreamMgrRecordingStart, once the recorder is idle: -2 if it has a file already,
\* -3 if f_mem_open finds one in memory that nobody has erased.
StreamMgrRecordingStart ==
    IF ~recFile /\ clip = "none"
      THEN recFile' = TRUE /\ clip' = "growing" /\ starts' = starts + 1
      ELSE UNCHANGED <<recFile, clip, starts>>

\* system_start_recording: waits for the recorder, starts it, ignores the result.
StartRecording ==
    /\ snapTask = "start"
    /\ recTask = "idle"
    /\ StreamMgrRecordingStart
    /\ snapTask' = "running"
    /\ UNCHANGED <<eventInfo, snapFlag, snapshot, upload, record, buffer, sysMode,
                   spiVars, snapMode, recTask, upVars>>

SetRecordRunning ==
    /\ snapTask = "running"
    /\ record' = "RUNNING"
    /\ snapTask' = IF snapMode THEN "exited" ELSE "wait"
    /\ UNCHANGED <<eventInfo, snapFlag, snapshot, upload, buffer, recFile, starts,
                   clip, sysMode, spiVars, snapMode, recTask, upVars>>

-----------------------------------------------------------------------------
(* recorder: StreamMgrRecordingHdl                                         *)

\* WAIT_COND, then stat leaves eRecStatIdle.
WakeRecorder ==
    /\ recTask = "idle"
    /\ starts > 0
    /\ starts' = starts - 1
    /\ recTask' = "recording"
    /\ UNCHANGED <<eventInfo, snapFlag, snapshot, upload, record, buffer, recFile,
                   clip, sysMode, spiVars, snapVars, upVars>>

\* The clip is full, the time is up or a write fails.  Without a file the loop
\* never ends.
CloseClip ==
    /\ recTask = "recording"
    /\ recFile
    /\ clip' = IF clip = "growing" THEN "complete" ELSE clip
    /\ recFile' = FALSE
    /\ recTask' = "closed"
    /\ UNCHANGED <<eventInfo, snapFlag, snapshot, upload, record, buffer, starts,
                   sysMode, spiVars, snapVars, upVars>>

\* thirdparty_record_done
RecordDone ==
    /\ recTask = "closed"
    /\ record' = "DONE"
    /\ recTask' = "recorded"
    /\ UNCHANGED <<eventInfo, snapFlag, snapshot, upload, buffer, recFile, starts,
                   clip, sysMode, spiVars, snapVars, upVars>>

RecorderIdle ==
    /\ recTask = "recorded"
    /\ recTask' = "idle"
    /\ UNCHANGED <<shared, spiVars, snapVars, upVars>>

-----------------------------------------------------------------------------
(* uploader: uploader_task_new_push, main_upload_new_flow_demo             *)

\* The first time the event is added before the picture is there, later after.
SeeEventInfo ==
    /\ upTask = "waitInfo"
    /\ eventInfo
    /\ upTask' = "addEvent"
    /\ UNCHANGED <<shared, spiVars, snapVars, recTask, firstTime, upMode, sent>>

\* http_post_add_event_api: the event's id and date are in g_event_info.
AddEvent ==
    /\ upTask = "addEvent"
    /\ eventInfo
    /\ upTask' = IF firstTime THEN "waitPicture" ELSE "picture"
    /\ UNCHANGED <<shared, spiVars, snapVars, recTask, firstTime, upMode, sent>>

\* Fault: an event that cannot be added is not finished.
AddEventFailsUnfinished ==
    /\ upTask = "addEvent"
    /\ upTask' = "waitPicture"
    /\ firstTime' = FALSE
    /\ UNCHANGED <<shared, spiVars, snapVars, recTask, upMode, sent>>

\* The event is gone again, or not well formed.
AddEventFails ==
    /\ upTask = "addEvent"
    /\ upTask' = IF firstTime THEN "waitPicture" ELSE "done"
    /\ firstTime' = FALSE
    /\ UNCHANGED <<shared, spiVars, snapVars, recTask, upMode, sent>>

\* One round of the wait: sys_get_mode is read only here.
AwaitPicture ==
    /\ upTask = "waitPicture"
    /\ snapshot # "DONE"
    /\ upMode' = sysMode
    /\ upTask' = IF sysMode THEN "exited" ELSE "waitPicture"
    /\ UNCHANGED <<shared, spiVars, snapVars, recTask, firstTime, sent>>

\* Fault: the upload is not marked as running.
ClaimUnmarked ==
    /\ upTask = "waitPicture"
    /\ snapshot = "DONE"
    /\ ~upMode
    /\ upTask' = "claim"
    /\ UNCHANGED <<shared, spiVars, snapVars, recTask, firstTime, upMode, sent>>

SetUploadRunning ==
    /\ upTask = "waitPicture"
    /\ snapshot = "DONE"
    /\ ~upMode
    /\ upload' = "RUNNING"
    /\ upTask' = "claim"
    /\ UNCHANGED <<eventInfo, snapFlag, snapshot, record, buffer, recFile, starts,
                   clip, sysMode, spiVars, snapVars, recTask, firstTime, upMode, sent>>

\* The picture is there at once and sys_get_mode still holds what was on the stack.
ExitOnMode ==
    /\ upTask = "waitPicture"
    /\ snapshot = "DONE"
    /\ upMode
    /\ upTask' = "exited"
    /\ UNCHANGED <<shared, spiVars, snapVars, recTask, firstTime, upMode, sent>>

SetSnapshotWait ==
    /\ upTask = "claim"
    /\ snapshot' = "WAIT"
    /\ upTask' = IF firstTime THEN "picture" ELSE "addEvent"
    /\ UNCHANGED <<eventInfo, snapFlag, upload, record, buffer, recFile, starts,
                   clip, sysMode, spiVars, snapVars, recTask, firstTime, upMode, sent>>

\* upload_all_in_one_add_eventid("jpg"); its result is only logged.  The upload may
\* fail before anything of the picture is sent.
UploadPicture ==
    /\ upTask = "picture"
    /\ sent' \in {buffer, sent}
    /\ upTask' = "waitClip"
    /\ UNCHANGED <<shared, spiVars, snapVars, recTask, firstTime, upMode>>

ClipReady ==
    /\ upTask = "waitClip"
    /\ record = "DONE"
    /\ upTask' = "openClip"
    /\ UNCHANGED <<shared, spiVars, snapVars, recTask, firstTime, upMode, sent>>

\* Fault: what there is of the clip is sent when the time is up.
ClipTimeoutGoesOn ==
    /\ upTask = "waitClip"
    /\ record # "DONE"
    /\ upTask' = "openClip"
    /\ UNCHANGED <<shared, spiVars, snapVars, recTask, firstTime, upMode, sent>>

\* The first time, return -10 ends the task itself; later only the upload.
ClipTimeout ==
    /\ upTask = "waitClip"
    /\ record # "DONE"
    /\ upTask' = IF firstTime THEN "exited" ELSE "done"
    /\ UNCHANGED <<shared, spiVars, snapVars, recTask, firstTime, upMode, sent>>

\* fsize_api: f_mem_open for reading fixes the length of the file.
OpenClip ==
    /\ upTask = "openClip"
    /\ clip' = IF clip = "growing" THEN "sealed" ELSE clip
    /\ upTask' = "clip"
    /\ UNCHANGED <<eventInfo, snapFlag, snapshot, upload, record, buffer, recFile,
                   starts, sysMode, spiVars, snapVars, recTask, firstTime, upMode, sent>>

\* upload_all_in_one_add_eventid("flv"), then g_event_info[0] = 0.
UploadClip ==
    /\ upTask = "clip"
    /\ eventInfo' = FALSE
    /\ upTask' = "erase"
    /\ UNCHANGED <<snapFlag, snapshot, upload, record, buffer, recFile, starts, clip,
                   sysMode, spiVars, snapVars, recTask, firstTime, upMode, sent>>

EraseClip ==
    /\ upTask = "erase"
    /\ clip' = "none"
    /\ upTask' = "done"
    /\ UNCHANGED <<eventInfo, snapFlag, snapshot, upload, record, buffer, recFile,
                   starts, sysMode, spiVars, snapVars, recTask, firstTime, upMode, sent>>

SetUploadDone ==
    /\ upTask = "done"
    /\ upload' = "DONE"
    /\ upTask' = "waitPicture"
    /\ firstTime' = FALSE
    /\ UNCHANGED <<eventInfo, snapFlag, snapshot, record, buffer, recFile, starts,
                   clip, sysMode, spiVars, snapVars, recTask, upMode, sent>>

-----------------------------------------------------------------------------
SpiCmdTask ==
    \/ ReceiveDingdong
    \/ ReceiveEvent
    \/ FillEventInfo
    \/ RaiseFlag

SnapshotTask ==
    \/ SeeFlag
    \/ CheckStates
    \/ Encode
    \/ Publish
    \/ StartRecording
    \/ SetRecordRunning

RecorderTask ==
    \/ WakeRecorder
    \/ CloseClip
    \/ RecordDone
    \/ RecorderIdle

UploaderTask ==
    \/ SeeEventInfo
    \/ AddEvent
    \/ AddEventFails
    \/ AwaitPicture
    \/ SetUploadRunning
    \/ ExitOnMode
    \/ SetSnapshotWait
    \/ UploadPicture
    \/ ClipReady
    \/ ClipTimeout
    \/ OpenClip
    \/ UploadClip
    \/ EraseClip
    \/ SetUploadDone

Next ==
    \/ SpiCmdTask
    \/ SnapshotTask
    \/ RecorderTask
    \/ UploaderTask
    \/ CooldownOver
    \/ LeaveNormalMode

\* The three tasks are threads of their own; each wait of theirs polls with a sleep for
\* something another task does, or has a limit; a recording ends when its time is up,
\* an upload on its timeouts.  Nobody has to ring.
Fairness ==
    /\ WF_vars(SnapshotTask)
    /\ WF_vars(RecorderTask)
    /\ WF_vars(UploaderTask)

Spec == Init /\ [][Next]_vars /\ Fairness

-----------------------------------------------------------------------------
(* Properties                                                              *)

TypeOK ==
    /\ eventInfo \in BOOLEAN /\ snapFlag \in BOOLEAN
    /\ snapshot \in {"INIT", "RUNNING", "DONE", "WAIT"}
    /\ upload \in {"INIT", "RUNNING", "DONE"}
    /\ record \in {"INIT", "RUNNING", "DONE"}
    /\ buffer \in Pictures \cup {NoPicture}
    /\ recFile \in BOOLEAN /\ starts \in Nat
    /\ clip \in ClipStates
    /\ sysMode \in BOOLEAN
    /\ spiTask \in {"idle", "fill", "flag"} /\ coolingDown \in BOOLEAN
    /\ snapTask \in {"wait", "check", "encode", "publish", "start", "running", "exited"}
    /\ snapMode \in BOOLEAN
    /\ recTask \in {"idle", "recording", "closed", "recorded"}
    /\ upTask \in {"waitInfo", "addEvent", "waitPicture", "claim", "picture",
                   "waitClip", "openClip", "clip", "erase", "done", "exited"}
    /\ firstTime \in BOOLEAN /\ upMode \in BOOLEAN
    /\ sent \in Pictures \cup {NoPicture}

\* Where the picture buffer is between the two tasks.  The first event is added
\* before there is a picture.
Sending == upTask \in {"claim", "picture"} \/ (upTask = "addEvent" /\ ~firstTime)

Slot ==
    IF snapTask \in {"encode", "publish"} THEN "filling"
    ELSE IF Sending THEN "sending"
    ELSE IF snapshot = "DONE" THEN "full" ELSE "empty"

PictureBuffer == INSTANCE PictureSlot WITH slot <- Slot, picture <- buffer

\* The uploader sends only whole pictures, each at most once, and the snapshot task
\* never writes over one that is still to be sent, however the tasks interleave
\* (the comments above ak_video_take_snapshot_task_2).
ImplementsPictureSlot == PictureBuffer!Spec

\* The recorder is never woken for a recording that has no file: it would spin in
\* its loop for ever and the snapshot task would wait for it for ever
\* (StreamMgrRecordingStart: "We are in middle of recording").
RecorderHasFile ==
    /\ starts > 0 => recFile /\ recTask = "idle"
    /\ starts <= 1
    /\ recTask = "recording" => recFile

\* Where the uploader is from its claim of a picture to the end of that upload.
Uploading ==
    \/ upTask \in {"picture", "waitClip", "openClip", "clip", "erase", "done"}
    \/ upTask = "addEvent" /\ ~firstTime

\* What the two flags say of the two tasks, at every moment: a task that reads them
\* learns where the other one is, which is why they do without a lock.  RUNNING
\* means encoding; an upload is RUNNING for as long as it needs picture and clip.
FlagsTellTasks ==
    /\ snapshot = "RUNNING" <=> snapTask \in {"encode", "publish"}
    /\ upTask = "claim" => snapshot = "DONE" /\ upload = "RUNNING"
    /\ Uploading => snapshot = "WAIT" /\ upload = "RUNNING"
    /\ upload = "RUNNING" => upTask = "claim" \/ Uploading \/ upTask = "exited"
    /\ snapshot = "WAIT" => upload # "INIT"
    /\ upTask = "waitInfo" => firstTime

IInv ==
    /\ TypeOK
    /\ FlagsTellTasks
    /\ RecorderHasFile

\* A request for a picture is answered or turned down, never left standing, and so
\* never mistaken for a later one.
RequestConsumed == snapFlag ~> (~snapFlag \/ snapTask = "exited")

\* Whatever fails, the handshake of snapshot task and uploader returns to where a
\* new ring is accepted, unless one of the two has exited or the uploader still
\* waits for its first event.
AcceptsAgain ==
    []<>(\/ snapTask \in {"wait", "check"} /\ SnapshotAllowed
         \/ snapTask = "exited"
         \/ upTask \in {"exited", "waitInfo"})

\* "Wait max 20s to record clip to complete" (upload_main.c:622 and 754): what the
\* uploader then sends is a finished recording.
ClipIsComplete == upTask = "clip" => clip = "complete"

\* It is so for the first event after the start: only a DONE that an earlier clip has
\* left behind can mislead the uploader.
FirstClipIsComplete == firstTime /\ upTask = "clip" => clip = "complete"
=============================================================================
