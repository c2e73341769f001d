------------------------ MODULE EventPipelineProofs -------------------------
(***************************************************************************)
(* The handshake of snapshot task and uploader, and of snapshot task and   *)
(* recorder, proved for every set of pictures.                             *)
(***************************************************************************)
EXTENDS EventPipeline, TLAPS

-----------------------------------------------------------------------------
(* Type correctness                                                        *)

\* Every flag, state and place of a task stays one of those named in the code.
THEOREM TypeCorrect == Spec => []TypeOK
<1>1. Init => TypeOK
  <2> SUFFICES ASSUME Init PROVE TypeOK
    OBVIOUS
  <2>1. /\ eventInfo \in BOOLEAN /\ snapFlag \in BOOLEAN /\ recFile \in BOOLEAN
        /\ sysMode \in BOOLEAN /\ coolingDown \in BOOLEAN /\ snapMode \in BOOLEAN
        /\ firstTime \in BOOLEAN /\ upMode \in BOOLEAN
    BY Zenon DEF Init
  <2>2. QED
    BY <2>1 DEF Init, TypeOK, ClipStates
<1>2. TypeOK /\ [Next]_vars => TypeOK'
  <2> SUFFICES ASSUME TypeOK, [Next]_vars
               PROVE  TypeOK'
    OBVIOUS
  <2> USE DEF TypeOK, ClipStates, shared, spiVars, snapVars, upVars
  <2>1. CASE SpiCmdTask
    <3>1. CASE ReceiveDingdong
      BY <3>1 DEF ReceiveDingdong
    <3>2. CASE ReceiveEvent \/ FillEventInfo
      BY <3>2 DEF ReceiveEvent, FillEventInfo
    <3>3. CASE RaiseFlag
      <4>1. snapFlag' \in BOOLEAN /\ coolingDown' \in BOOLEAN
        BY <3>3, Zenon DEF RaiseFlag
      <4>2. QED
        BY <3>3, <4>1 DEF RaiseFlag
    <3>4. QED
      BY <2>1, <3>1, <3>2, <3>3 DEF SpiCmdTask
  <2>2. CASE SnapshotTask
    <3>1. CASE SeeFlag
      BY <3>1 DEF SeeFlag
    <3>2. CASE CheckStates
      <4>1. snapFlag' \in BOOLEAN
        BY <3>2, Zenon DEF CheckStates
      <4>2. /\ snapshot' \in {"INIT", "RUNNING", "DONE", "WAIT"}
            /\ snapTask' \in {"wait", "encode"}
        BY <3>2 DEF CheckStates
      <4>3. QED
        BY <3>2, <4>1, <4>2 DEF CheckStates
    <3>3. CASE Encode
      BY <3>3 DEF Encode
    <3>4. CASE Publish
      BY <3>4 DEF Publish
    <3>5. CASE StartRecording
      <4>1. recFile' \in BOOLEAN
        BY <3>5, Zenon DEF StartRecording, StreamMgrRecordingStart
      <4>2. clip' \in ClipStates /\ starts' \in Nat
        BY <3>5 DEF StartRecording, StreamMgrRecordingStart
      <4>3. QED
        BY <3>5, <4>1, <4>2 DEF StartRecording
    <3>6. CASE SetRecordRunning
      BY <3>6 DEF SetRecordRunning
    <3>7. QED
      BY <2>2, <3>1, <3>2, <3>3, <3>4, <3>5, <3>6 DEF SnapshotTask
  <2>3. CASE RecorderTask
    <3>1. CASE WakeRecorder
      BY <3>1 DEF WakeRecorder
    <3>2. CASE CloseClip
      <4>1. recFile' \in BOOLEAN
        BY <3>2, Zenon DEF CloseClip
      <4>2. clip' \in ClipStates
        BY <3>2 DEF CloseClip
      <4>3. QED
        BY <3>2, <4>1, <4>2 DEF CloseClip
    <3>3. CASE RecordDone \/ RecorderIdle
      BY <3>3 DEF RecordDone, RecorderIdle
    <3>4. QED
      BY <2>3, <3>1, <3>2, <3>3 DEF RecorderTask
  <2>4. CASE UploaderTask
    <3>1. CASE SeeEventInfo \/ AddEvent
      BY <3>1 DEF SeeEventInfo, AddEvent
    <3>2. CASE AddEventFails \/ AwaitPicture
      BY <3>2 DEF AddEventFails, AwaitPicture
    <3>3. CASE SetUploadRunning \/ ExitOnMode \/ SetSnapshotWait \/ UploadPicture
      BY <3>3 DEF SetUploadRunning, ExitOnMode, SetSnapshotWait, UploadPicture
    <3>4. CASE ClipReady \/ ClipTimeout \/ OpenClip
      BY <3>4 DEF ClipReady, ClipTimeout, OpenClip
    <3>5. CASE UploadClip \/ EraseClip \/ SetUploadDone
      BY <3>5 DEF UploadClip, EraseClip, SetUploadDone
    <3>6. QED
      BY <2>4, <3>1, <3>2, <3>3, <3>4, <3>5 DEF UploaderTask
  <2>5. CASE CooldownOver \/ LeaveNormalMode
    BY <2>5 DEF CooldownOver, LeaveNormalMode
  <2>6. CASE UNCHANGED vars
    BY <2>6 DEF vars
  <2>7. QED
    BY <2>1, <2>2, <2>3, <2>4, <2>5, <2>6 DEF Next
<1>3. QED
  BY <1>1, <1>2, PTL DEF Spec

-----------------------------------------------------------------------------
(* The handshakes                                                          *)

\* No step of any task makes a flag lie about the task it stands for.
LEMMA FlagsStep ==
  ASSUME TypeOK, FlagsTellTasks, [Next]_vars
  PROVE  FlagsTellTasks'
<1> USE DEF TypeOK, FlagsTellTasks, Uploading, shared, spiVars, snapVars, upVars
<1>1. CASE SpiCmdTask
  BY <1>1 DEF SpiCmdTask, ReceiveDingdong, ReceiveEvent, FillEventInfo, RaiseFlag
<1>2. CASE SnapshotTask
  <2>1. CASE SeeFlag
    BY <2>1 DEF SeeFlag
  <2>2. CASE CheckStates
    BY <2>2 DEF CheckStates, SnapshotAllowed
  <2>3. CASE Encode
    BY <2>3 DEF Encode
  <2>4. CASE Publish
    BY <2>4 DEF Publish
  <2>5. CASE StartRecording
    BY <2>5 DEF StartRecording
  <2>6. CASE SetRecordRunning
    BY <2>6 DEF SetRecordRunning
  <2>7. QED
    BY <1>2, <2>1, <2>2, <2>3, <2>4, <2>5, <2>6 DEF SnapshotTask
<1>3. CASE RecorderTask
  BY <1>3 DEF RecorderTask, WakeRecorder, CloseClip, RecordDone, RecorderIdle
<1>4. CASE UploaderTask
  <2>1. CASE SeeEventInfo
    BY <2>1 DEF SeeEventInfo
  <2>2. CASE AddEvent
    BY <2>2 DEF AddEvent
  <2>3. CASE AddEventFails
    BY <2>3 DEF AddEventFails
  <2>4. CASE AwaitPicture
    BY <2>4 DEF AwaitPicture
  <2>5. CASE SetUploadRunning
    BY <2>5 DEF SetUploadRunning
  <2>6. CASE ExitOnMode
    BY <2>6 DEF ExitOnMode
  <2>7. CASE SetSnapshotWait
    BY <2>7 DEF SetSnapshotWait
  <2>8. CASE UploadPicture
    BY <2>8 DEF UploadPicture
  <2>9. CASE ClipReady \/ ClipTimeout
    BY <2>9 DEF ClipReady, ClipTimeout
  <2>10. CASE OpenClip \/ UploadClip \/ EraseClip
    BY <2>10 DEF OpenClip, UploadClip, EraseClip
  <2>11. CASE SetUploadDone
    BY <2>11 DEF SetUploadDone
  <2>12. QED
    BY <1>4, <2>1, <2>2, <2>3, <2>4, <2>5, <2>6, <2>7, <2>8, <2>9, <2>10, <2>11
    DEF UploaderTask
<1>5. CASE CooldownOver \/ LeaveNormalMode
  BY <1>5 DEF CooldownOver, LeaveNormalMode
<1>6. CASE UNCHANGED vars
  BY <1>6 DEF vars
<1>7. QED
  BY <1>1, <1>2, <1>3, <1>4, <1>5, <1>6 DEF Next

\* StreamMgrRecordingStart is the one step that wakes the recorder, and it does so
\* only with a file that the recorder alone gives back.
LEMMA RecorderStep ==
  ASSUME TypeOK, RecorderHasFile, [Next]_vars
  PROVE  RecorderHasFile'
<1> USE DEF TypeOK, RecorderHasFile, shared, spiVars, snapVars, upVars
<1>1. CASE StartRecording
  <2>1. CASE ~recFile /\ clip = "none"
    <3>1. starts = 0
      BY <2>1
    <3>2. recFile' = TRUE /\ starts' = 1 /\ recTask' = "idle"
      BY <1>1, <2>1, <3>1 DEF StartRecording, StreamMgrRecordingStart
    <3>3. QED
      BY <3>2
  <2>2. CASE ~(~recFile /\ clip = "none")
    BY <1>1, <2>2 DEF StartRecording, StreamMgrRecordingStart
  <2>3. QED
    BY <2>1, <2>2
<1>2. CASE WakeRecorder
  BY <1>2 DEF WakeRecorder
<1>3. CASE CloseClip
  BY <1>3 DEF CloseClip
<1>4. CASE RecordDone
  BY <1>4 DEF RecordDone
<1>5. CASE RecorderIdle
  BY <1>5 DEF RecorderIdle
<1>6. CASE UNCHANGED <<recFile, starts, recTask>>
  BY <1>6
<1>7. CASE SpiCmdTask \/ UploaderTask \/ CooldownOver \/ LeaveNormalMode \/ UNCHANGED vars
  <2>1. UNCHANGED <<recFile, starts, recTask>>
    BY <1>7 DEF SpiCmdTask, ReceiveDingdong, ReceiveEvent, FillEventInfo, RaiseFlag,
      UploaderTask, SeeEventInfo, AddEvent, AddEventFails, AwaitPicture,
      SetUploadRunning, ExitOnMode, SetSnapshotWait, UploadPicture, ClipReady,
      ClipTimeout, OpenClip, UploadClip, EraseClip, SetUploadDone,
      CooldownOver, LeaveNormalMode, vars
  <2>2. QED
    BY <2>1, <1>6
<1>8. CASE SeeFlag \/ CheckStates \/ Encode \/ Publish \/ SetRecordRunning
  <2>1. UNCHANGED <<recFile, starts, recTask>>
    BY <1>8 DEF SeeFlag, CheckStates, Encode, Publish, SetRecordRunning
  <2>2. QED
    BY <2>1, <1>6
<1>9. QED
  BY <1>1, <1>2, <1>3, <1>4, <1>5, <1>7, <1>8 DEF Next, SnapshotTask, RecorderTask

\* The inductive invariant holds in every reachable state.
THEOREM Invariant == Spec => []IInv
<1>1. Init => FlagsTellTasks /\ RecorderHasFile
  BY DEF Init, FlagsTellTasks, Uploading, RecorderHasFile
<1>2. TypeOK /\ FlagsTellTasks /\ [Next]_vars => FlagsTellTasks'
  BY FlagsStep
<1>3. TypeOK /\ RecorderHasFile /\ [Next]_vars => RecorderHasFile'
  BY RecorderStep
<1>4. QED
  BY <1>1, <1>2, <1>3, TypeCorrect, PTL DEF Spec, IInv

\* The flags always tell where the two tasks are.
THEOREM FlagsAreTruthful == Spec => []FlagsTellTasks
BY Invariant, PTL DEF IInv

\* The recorder never runs without a file.
THEOREM RecorderNeverSpins == Spec => []RecorderHasFile
BY Invariant, PTL DEF IInv

-----------------------------------------------------------------------------
(* The first clip                                                          *)

\* Before the recording of the first event, and from then on.
NotRecorded == snapshot = "INIT" \/ snapTask \in {"encode", "publish", "start"}

\* The first recording is the only one until the first upload is done: a second picture
\* needs upload to be DONE.  So a record that is DONE tells of that one.
FirstClipInv ==
    /\ snapshot = "INIT" => snapTask \in {"wait", "check"}
    /\ firstTime =>
           /\ upload # "DONE"
           /\ NotRecorded => /\ clip = "none" /\ ~recFile /\ record = "INIT"
                             /\ starts = 0 /\ recTask = "idle"
           /\ ~NotRecorded /\ upTask # "done" =>
                  \/ /\ clip = "growing" /\ recFile /\ record # "DONE"
                     /\ recTask \in {"idle", "recording"}
                  \/ clip = "complete" /\ ~recFile
           /\ upTask \in {"openClip", "clip", "erase"} => clip = "complete"

LEMMA FirstClipStep ==
  ASSUME IInv, FirstClipInv, [Next]_vars
  PROVE  FirstClipInv'
<1> USE DEF IInv, TypeOK, ClipStates, FirstClipInv, NotRecorded, shared, spiVars, snapVars, upVars
<1>1. CASE SpiCmdTask \/ CooldownOver \/ LeaveNormalMode \/ UNCHANGED vars
  BY <1>1 DEF SpiCmdTask, ReceiveDingdong, ReceiveEvent, FillEventInfo, RaiseFlag,
              CooldownOver, LeaveNormalMode, vars
<1>2. CASE SnapshotTask
  <2>1. CASE SeeFlag
    BY <2>1 DEF SeeFlag
  <2>2. CASE CheckStates
    BY <2>2 DEF CheckStates, SnapshotAllowed
  <2>3. CASE Encode
    BY <2>3 DEF Encode
  <2>4. CASE Publish
    BY <2>4 DEF Publish
  <2>5. CASE StartRecording
    <3>1. CASE firstTime
      <4>1. clip' = "growing" /\ recFile' = TRUE /\ record' = "INIT" /\ recTask' = "idle"
        BY <2>5, <3>1 DEF StartRecording, StreamMgrRecordingStart
      <4>2. upTask \notin {"openClip", "clip", "erase"}
        BY <2>5, <3>1 DEF StartRecording
      <4>3. QED
        BY <2>5, <4>1, <4>2 DEF StartRecording
    <3>2. CASE ~firstTime
      BY <2>5, <3>2 DEF StartRecording
    <3>3. QED
      BY <3>1, <3>2
  <2>6. CASE SetRecordRunning
    BY <2>6 DEF SetRecordRunning
  <2>7. QED
    BY <1>2, <2>1, <2>2, <2>3, <2>4, <2>5, <2>6 DEF SnapshotTask
<1>3. CASE RecorderTask
  <2>1. CASE WakeRecorder
    BY <2>1 DEF WakeRecorder, RecorderHasFile
  <2>2. CASE CloseClip
    BY <2>2 DEF CloseClip
  <2>3. CASE RecordDone
    BY <2>3 DEF RecordDone
  <2>4. CASE RecorderIdle
    BY <2>4 DEF RecorderIdle
  <2>5. QED
    BY <1>3, <2>1, <2>2, <2>3, <2>4 DEF RecorderTask
<1>4. CASE UploaderTask
  <2>1. CASE SeeEventInfo \/ AddEvent \/ AwaitPicture
    BY <2>1 DEF SeeEventInfo, AddEvent, AwaitPicture
  <2>2. CASE AddEventFails \/ SetUploadDone
    BY <2>2 DEF AddEventFails, SetUploadDone
  <2>3. CASE SetUploadRunning \/ ExitOnMode
    BY <2>3 DEF SetUploadRunning, ExitOnMode
  <2>4. CASE SetSnapshotWait
    BY <2>4 DEF SetSnapshotWait, FlagsTellTasks
  <2>5. CASE UploadPicture \/ ClipTimeout
    BY <2>5 DEF UploadPicture, ClipTimeout
  <2>6. CASE ClipReady
    BY <2>6 DEF ClipReady
  <2>7. CASE OpenClip
    BY <2>7 DEF OpenClip
  <2>8. CASE UploadClip
    BY <2>8 DEF UploadClip
  <2>9. CASE EraseClip
    BY <2>9 DEF EraseClip, FlagsTellTasks, Uploading
  <2>10. QED
    BY <1>4, <2>1, <2>2, <2>3, <2>4, <2>5, <2>6, <2>7, <2>8, <2>9 DEF UploaderTask
<1>5. QED
  BY <1>1, <1>2, <1>3, <1>4 DEF Next

\* The clip of the first event after the start is finished when it is sent: what the
\* uploader can take for finished too early is a later one.
THEOREM FirstClipAlwaysComplete == Spec => []FirstClipIsComplete
<1>1. Init => FirstClipInv
  BY DEF Init, FirstClipInv, NotRecorded
<1>2. IInv /\ FirstClipInv /\ [Next]_vars => FirstClipInv'
  BY FirstClipStep
<1>3. FirstClipInv => FirstClipIsComplete
  BY DEF FirstClipInv, FirstClipIsComplete
<1>4. QED
  BY <1>1, <1>2, <1>3, Invariant, PTL DEF Spec

-----------------------------------------------------------------------------
(* The picture buffer                                                      *)

\* What a step that leaves the tasks and the buffer alone means for the slot.
LEMMA SlotUnchanged ==
  ASSUME UNCHANGED <<snapTask, upTask, firstTime, snapshot, buffer, sent>>
  PROVE  UNCHANGED PictureBuffer!vars
BY DEF Slot, Sending, PictureBuffer!vars

\* Every step of the snapshot task is a step of the slot or none.
LEMMA SnapshotSlot ==
  ASSUME TypeOK, FlagsTellTasks, SnapshotTask
  PROVE  [PictureBuffer!Next]_(PictureBuffer!vars)
<1> USE DEF TypeOK, FlagsTellTasks, Uploading, Slot, Sending, PictureBuffer!vars,
            shared, spiVars, snapVars, upVars
<1>1. CASE SeeFlag
  BY <1>1 DEF SeeFlag
<1>2. CASE CheckStates
  <2>1. CASE SnapshotAllowed
    <3>1. Slot = "empty"
      BY <1>2, <2>1 DEF CheckStates, SnapshotAllowed
    <3>2. Slot' = "filling" /\ UNCHANGED <<buffer, sent>>
      BY <1>2, <2>1 DEF CheckStates
    <3>3. PictureBuffer!BeginFill
      BY <3>1, <3>2 DEF PictureBuffer!BeginFill
    <3>4. QED
      BY <3>3 DEF PictureBuffer!Next
  <2>2. CASE ~SnapshotAllowed
    BY <1>2, <2>2 DEF CheckStates
  <2>3. QED
    BY <2>1, <2>2
<1>3. CASE Encode
  <2>1. PictureBuffer!Fill
    BY <1>3 DEF Encode, PictureBuffer!Fill
  <2>2. QED
    BY <2>1 DEF PictureBuffer!Next
<1>4. CASE Publish
  <2>1. Slot = "filling" /\ ~Sending
    BY <1>4 DEF Publish
  <2>2. Slot' = "full" /\ UNCHANGED <<buffer, sent>>
    BY <1>4, <2>1 DEF Publish
  <2>3. PictureBuffer!Publish
    BY <2>1, <2>2 DEF PictureBuffer!Publish
  <2>4. QED
    BY <2>3 DEF PictureBuffer!Next
<1>5. CASE StartRecording
  BY <1>5 DEF StartRecording
<1>6. CASE SetRecordRunning
  BY <1>6 DEF SetRecordRunning
<1>7. QED
  BY <1>1, <1>2, <1>3, <1>4, <1>5, <1>6 DEF SnapshotTask

\* Every step of the uploader is a step of the slot or none.
LEMMA UploaderSlot ==
  ASSUME TypeOK, FlagsTellTasks, UploaderTask
  PROVE  [PictureBuffer!Next]_(PictureBuffer!vars)
<1> USE DEF TypeOK, FlagsTellTasks, Uploading, Slot, Sending, PictureBuffer!vars,
            shared, spiVars, snapVars, upVars
<1>1. CASE SeeEventInfo \/ AddEvent \/ AwaitPicture \/ ExitOnMode
  BY <1>1 DEF SeeEventInfo, AddEvent, AwaitPicture, ExitOnMode
<1>2. CASE AddEventFails
  <2>1. CASE firstTime
    BY <1>2, <2>1 DEF AddEventFails
  <2>2. CASE ~firstTime
    <3>1. Slot = "sending" /\ Slot' = "empty" /\ UNCHANGED <<buffer, sent>>
      BY <1>2, <2>2 DEF AddEventFails
    <3>2. PictureBuffer!Discard
      BY <3>1 DEF PictureBuffer!Discard
    <3>3. QED
      BY <3>2 DEF PictureBuffer!Next
  <2>3. QED
    BY <2>1, <2>2
<1>3. CASE SetUploadRunning
  <2>1. Slot = "full" /\ Slot' = "sending" /\ UNCHANGED <<buffer, sent>>
    BY <1>3 DEF SetUploadRunning
  <2>2. PictureBuffer!Claim
    BY <2>1 DEF PictureBuffer!Claim
  <2>3. QED
    BY <2>2 DEF PictureBuffer!Next
<1>4. CASE SetSnapshotWait
  <2>1. Slot = "sending" /\ Slot' = "sending" /\ UNCHANGED <<buffer, sent>>
    BY <1>4 DEF SetSnapshotWait
  <2>2. QED
    BY <2>1
<1>5. CASE UploadPicture
  <2>1. Slot = "sending" /\ Slot' = "empty" /\ UNCHANGED buffer
    BY <1>5 DEF UploadPicture
  <2>2. sent' \in {buffer, sent}
    BY <1>5 DEF UploadPicture
  <2>3. PictureBuffer!Send \/ PictureBuffer!Discard
    BY <2>1, <2>2 DEF PictureBuffer!Send, PictureBuffer!Discard
  <2>4. QED
    BY <2>3 DEF PictureBuffer!Next
<1>6. CASE ClipReady \/ ClipTimeout \/ OpenClip
  BY <1>6 DEF ClipReady, ClipTimeout, OpenClip
<1>7. CASE UploadClip \/ EraseClip \/ SetUploadDone
  BY <1>7 DEF UploadClip, EraseClip, SetUploadDone
<1>8. QED
  BY <1>1, <1>2, <1>3, <1>4, <1>5, <1>6, <1>7 DEF UploaderTask

\* The picture buffer is handed from task to task whole and once, for every set of
\* pictures and every interleaving.
THEOREM ImplementsSlot == Spec => ImplementsPictureSlot
<1>1. Init => PictureBuffer!Init
  BY DEF Init, PictureBuffer!Init, Slot, Sending
<1>2. ASSUME TypeOK, FlagsTellTasks, [Next]_vars
      PROVE  [PictureBuffer!Next]_(PictureBuffer!vars)
  <2>1. CASE SnapshotTask
    BY <1>2, <2>1, SnapshotSlot
  <2>2. CASE UploaderTask
    BY <1>2, <2>2, UploaderSlot
  <2>3. CASE SpiCmdTask \/ RecorderTask \/ CooldownOver \/ LeaveNormalMode \/ UNCHANGED vars
    <3>1. UNCHANGED <<snapTask, upTask, firstTime, snapshot, buffer, sent>>
      BY <2>3 DEF SpiCmdTask, ReceiveDingdong, ReceiveEvent, FillEventInfo, RaiseFlag,
        RecorderTask, WakeRecorder, CloseClip, RecordDone, RecorderIdle,
        CooldownOver, LeaveNormalMode, vars, shared, spiVars, snapVars, upVars
    <3>2. QED
      BY <3>1, SlotUnchanged
  <2>4. QED
    BY <1>2, <2>1, <2>2, <2>3 DEF Next
<1>3. QED
  BY <1>1, <1>2, Invariant, PTL DEF Spec, IInv, ImplementsPictureSlot, PictureBuffer!Spec
=============================================================================
