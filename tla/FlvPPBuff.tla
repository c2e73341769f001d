------------------------------ MODULE FlvPPBuff -----------------------------
(***************************************************************************)
(* The path of the encoded frames into the clip: flv_engine.c,             *)
(* flv_pp_buff.c and the recording loop of rec.c.                          *)
(*                                                                         *)
(* Video and audio tasks mux each frame into a packet and push it into one *)
(* half of a ping-pong buffer, all day long.  When the half has no room or *)
(* spans three seconds the halves are switched.  The recorder copies the   *)
(* half that was filled last into a third buffer and writes that to the    *)
(* file, beginning with a key frame.                                       *)
(*                                                                         *)
(* gFLVEngine.lock keeps the producers apart, the lock of the ping-pong    *)
(* buffer makes a switch, a copy and a reset one step each.  The recorder  *)
(* does everything else outside both locks.                                *)
(***************************************************************************)
EXTENDS FlvMuxer, Integers, Sequences

CONSTANTS Producers,    \* the tasks that push frames: video and audio
          Video,        \* the one whose frames may be key frames
          HalfRoom,     \* maxSize of each buffer
          KeySize,      \* size of a key frame; every other packet has size 1
          ClipRoom,     \* max_length of the file in memory
          NoPacket,
          MaxPackets,   \* bounds on the packets muxed and the clips recorded
          MaxClips

ASSUME ProducersAssumption == Video \in Producers /\ "none" \notin Producers

\* FLVMuxerFillVideo bounds a packet by a buffer as large as a half.
ASSUME SizeAssumption ==
    /\ {HalfRoom, KeySize, ClipRoom, MaxPackets, MaxClips} \subseteq Nat
    /\ 0 < KeySize /\ KeySize <= HalfRoom

Halves == {"ping", "pong"}

Packet == [no : Nat \ {0}, key : BOOLEAN]

AvcHeader == [no |-> 0, key |-> FALSE]      \* the tag of FLVMuxerFillVideoHeader

Size(p) == IF p.key THEN KeySize ELSE 1

ASSUME NoPacketAssumption == NoPacket \notin Packet

VARIABLES
    engine,     \* the holder of gFLVEngine.lock, "none" if free
    at,         \* at[p]: where producer p is in FLVEnginePush*Data
    packet,     \* packet[p]: what it pushes
    half,       \* half[h]: tags (the packets) and curSize
    wPos, rPos, rFlag, ready,
    temp,       \* the third buffer, between curSize and reset
    \* the recorder
    rec,        \* where it is in its loop
    clip,       \* the file
    header,     \* tags in mux->header
    seekKey,    \* ctx->curDur == 0
    out,        \* pWritePtr and writeSize
    timeOver,   \* the clip has lasted maxDur + 500 ms
    \* history
    pushed,     \* packets muxed so far
    dropped     \* the numbers of those the buffer, or the search, gave up

producerVars == <<engine, at, packet, pushed>>
recorderVars == <<rec, clip, header, seekKey, out, timeOver>>
vars == <<producerVars, half, wPos, rPos, rFlag, ready, temp, recorderVars, dropped>>

EmptyHalf == [tags |-> <<>>, curSize |-> 0]

Other(h) == IF h = "ping" THEN "pong" ELSE "ping"

Numbers(s) == {s[i].no : i \in DOMAIN s}

\* FLVBufferDurationGet, from the first time stamp to the last, may be more than zero.
HasDuration(s) == Len(s) > 1

SizeOf(s) ==
    LET upTo[i \in 0..Len(s)] == IF i = 0 THEN 0 ELSE upTo[i - 1] + Size(s[i])
    IN  upTo[Len(s)]

Init ==
    /\ engine = "none"
    /\ at = [p \in Producers |-> "idle"]
    /\ packet = [p \in Producers |-> NoPacket]
    /\ half = [h \in Halves |-> EmptyHalf]
    /\ wPos = "ping" /\ rPos = "pong"
    /\ rFlag = FALSE /\ ready = FALSE
    /\ temp = <<>>
    /\ rec = "idle"
    /\ clip = <<>>
    /\ header = 0
    /\ seekKey = FALSE
    /\ out = <<>>
    /\ timeOver = FALSE
    /\ pushed = 0
    /\ dropped = {}

-----------------------------------------------------------------------------
(* The producers: FLVEnginePushVideoData, FLVEnginePushAudioData           *)

\* Fault: the engine's lock is not waited for.
MuxUnlocked(p, key, tsReset) ==
    /\ at[p] = "idle"
    /\ pushed < MaxPackets
    /\ key => p = Video
    /\ engine' = p
    /\ pushed' = pushed + 1
    /\ packet' = [packet EXCEPT ![p] = [no |-> pushed + 1, key |-> key]]
    /\ at' = [at EXCEPT ![p] = IF tsReset THEN "reset" ELSE "prepare"]
    /\ UNCHANGED <<half, wPos, rPos, rFlag, ready, temp, recorderVars, dropped>>

\* Takes the engine's lock and muxes the frame; tsReset: the muxer's time stamp
\* has run over (frames with time stamp 0 only).
Mux(p, key, tsReset) ==
    /\ at[p] = "idle"
    /\ engine = "none"
    /\ pushed < MaxPackets
    /\ key => p = Video
    /\ engine' = p
    /\ pushed' = pushed + 1
    /\ packet' = [packet EXCEPT ![p] = [no |-> pushed + 1, key |-> key]]
    /\ at' = [at EXCEPT ![p] = IF tsReset THEN "reset" ELSE "prepare"]
    /\ UNCHANGED <<half, wPos, rPos, rFlag, ready, temp, recorderVars, dropped>>

\* FLVPPBuffResetAll.  The half to read counts as filled, and is empty.
ResetAll(p) ==
    /\ at[p] = "reset"
    /\ rFlag' = TRUE
    /\ half' = [h \in Halves |-> EmptyHalf]
    /\ temp' = <<>>
    /\ dropped' = dropped \cup Numbers(temp) \cup (UNION {Numbers(half[h].tags) : h \in Halves})
    /\ at' = [at EXCEPT ![p] = "prepare"]
    /\ UNCHANGED <<engine, packet, pushed, wPos, rPos, ready, recorderVars>>

\* The half being written has no room for pkt.
NoRoomFor(pkt) == HalfRoom - half[wPos].curSize < Size(pkt)

\* FLVBufferPrepareSize; longEnough: the half spans FLV_REC_PREREC_TIME_MS.
\* A half the recorder has not copied by now is overwritten.
PrepareSize(p, longEnough) ==
    /\ at[p] = "prepare"
    /\ longEnough => HasDuration(half[wPos].tags)
    /\ IF NoRoomFor(packet[p]) \/ longEnough
         THEN /\ rFlag' = TRUE
              /\ rPos' = wPos
              /\ wPos' = Other(wPos)
              /\ half' = [half EXCEPT ![Other(wPos)] = EmptyHalf]
              /\ ready' = TRUE
              /\ dropped' = IF rFlag THEN dropped \cup Numbers(half[Other(wPos)].tags)
                                     ELSE dropped
         ELSE UNCHANGED <<rFlag, rPos, wPos, half, ready, dropped>>
    /\ at' = [at EXCEPT ![p] = "append"]
    /\ UNCHANGED <<engine, packet, pushed, temp, recorderVars>>

\* The rest of FLVPPBuffPushData, and the engine's lock is released.
PushData(p) ==
    /\ at[p] = "append"
    /\ half' = [half EXCEPT ![wPos] =
                  [tags |-> Append(@.tags, packet[p]),
                   curSize |-> @.curSize + Size(packet[p])]]
    /\ at' = [at EXCEPT ![p] = "idle"]
    /\ packet' = [packet EXCEPT ![p] = NoPacket]
    /\ engine' = "none"
    /\ UNCHANGED <<pushed, wPos, rPos, rFlag, ready, temp, recorderVars, dropped>>

-----------------------------------------------------------------------------
(* The recorder: StreamMgrRecordingHdl, FLVPPBuffFlushToFilePointer        *)

\* A new file; curDur = -1 until it has a header.
StartRecording ==
    /\ rec = "idle"
    /\ header < MaxClips
    /\ clip' = <<>>
    /\ seekKey' = FALSE
    /\ timeOver' = FALSE
    /\ rec' = "header"
    /\ UNCHANGED <<producerVars, half, wPos, rPos, rFlag, ready, temp, header, out, dropped>>

\* FLVEngineWriteHeader: FLVMuxerHeaderGet adds a tag to mux->header each time.  Before
\* the engine is initialised the recorder tries again every half second, and looks at no
\* clock; a new file has room for any header.
WriteHeader ==
    /\ rec = "header"
    /\ header' = header + 1
    /\ clip' = [i \in 1..(header + 1) |-> AvcHeader]
    /\ seekKey' = TRUE
    /\ rec' = "flush"
    /\ UNCHANGED <<producerVars, half, wPos, rPos, rFlag, ready, temp, out, timeOver, dropped>>

\* Past the wait for ready: copies the half to read, if there is a new one.
CopyHalf ==
    /\ rec = "flush"
    /\ ready
    /\ IF rFlag THEN /\ temp' = half[rPos].tags
                     /\ rFlag' = FALSE
                ELSE UNCHANGED <<temp, rFlag>>
    /\ rec' = IF seekKey THEN "search" ELSE "size"
    /\ out' = <<>>
    /\ UNCHANGED <<producerVars, half, wPos, rPos, ready, clip, header, seekKey,
                   timeOver, dropped>>

\* FLVBufferIFramSearch: out is what pWritePtr points at.  Without a key frame the
\* third buffer is left as it is.
SearchIFrame ==
    /\ rec = "search"
    /\ \/ /\ \A i \in DOMAIN temp : ~temp[i].key
          /\ rec' = "check"
          /\ dropped' = dropped \cup Numbers(temp)
          /\ UNCHANGED out
       \/ \E i \in DOMAIN temp :
            /\ temp[i].key
            /\ \A j \in 1..(i - 1) : ~temp[j].key
            /\ rec' = "size"
            /\ out' = SubSeq(temp, i, Len(temp))
            /\ dropped' = dropped \cup Numbers(SubSeq(temp, 1, i - 1))
    /\ UNCHANGED <<producerVars, half, wPos, rPos, rFlag, ready, temp, clip, header,
                   seekKey, timeOver>>

\* Fault: writes from the start of the buffer, not from pWritePtr.
TakeSizeFromStart ==
    /\ rec = "size"
    /\ out' = temp
    /\ rec' = IF temp = <<>> THEN "check" ELSE "write"
    /\ UNCHANGED <<producerVars, half, wPos, rPos, rFlag, ready, temp, clip, header,
                   seekKey, timeOver, dropped>>

\* writeSize, from a second look at curSize: zero or less if a reset came between.
TakeSize ==
    /\ rec = "size"
    /\ out' = IF temp = <<>> THEN <<>> ELSE IF seekKey THEN out ELSE temp
    /\ rec' = IF temp = <<>> THEN "check" ELSE "write"
    /\ UNCHANGED <<producerVars, half, wPos, rPos, rFlag, ready, temp, clip, header,
                   seekKey, timeOver, dropped>>

\* Fault: the third buffer is not cleared.
WriteClipOnly(someDuration) ==
    /\ rec = "write"
    /\ someDuration => HasDuration(out)
    /\ IF SizeOf(clip) + SizeOf(out) <= ClipRoom
         THEN /\ clip' = clip \o out
              /\ seekKey' = (seekKey /\ ~someDuration)
              /\ rec' = "check"
         ELSE /\ rec' = "close"
              /\ UNCHANGED <<clip, seekKey>>
    /\ UNCHANGED <<producerVars, half, wPos, rPos, rFlag, ready, temp, header, out,
                   timeOver, dropped>>

\* Fault: rFlag is cleared after the write, when the halves may have been switched.
WriteClipLowersFlag(someDuration) ==
    /\ rec = "write"
    /\ someDuration => HasDuration(out)
    /\ temp' = <<>>
    /\ rFlag' = FALSE
    /\ IF SizeOf(clip) + SizeOf(out) <= ClipRoom
         THEN /\ clip' = clip \o out
              /\ seekKey' = (seekKey /\ ~someDuration)
              /\ rec' = "check"
         ELSE /\ rec' = "close"
              /\ UNCHANGED <<clip, seekKey>>
    /\ UNCHANGED <<producerVars, half, wPos, rPos, ready, header, out,
                   timeOver, dropped>>

\* f_mem_write, and the third buffer is cleared.  curDur grows by what was written,
\* which is nothing if all of it has one time stamp.
WriteClip(someDuration) ==
    /\ rec = "write"
    /\ someDuration => HasDuration(out)
    /\ temp' = <<>>
    /\ IF SizeOf(clip) + SizeOf(out) <= ClipRoom
         THEN /\ clip' = clip \o out
              /\ seekKey' = (seekKey /\ ~someDuration)
              /\ rec' = "check"
         ELSE /\ rec' = "close"
              /\ UNCHANGED <<clip, seekKey>>
    /\ UNCHANGED <<producerVars, half, wPos, rPos, rFlag, ready, header, out,
                   timeOver, dropped>>

\* The clock passes startRecTs + maxDur + 500.
TimeRunsOver ==
    /\ rec # "idle"
    /\ timeOver' = TRUE
    /\ UNCHANGED <<producerVars, half, wPos, rPos, rFlag, ready, temp, rec, clip,
                   header, seekKey, out, dropped>>

\* Fault: looks at the clock only after a flush that wrote something.
NextRoundIfWritten ==
    /\ rec = "check"
    /\ rec' = IF timeOver /\ out # <<>> THEN "close" ELSE "flush"
    /\ UNCHANGED <<producerVars, half, wPos, rPos, rFlag, ready, temp, clip, header,
                   seekKey, out, timeOver, dropped>>

NextRound ==
    /\ rec = "check"
    /\ rec' = IF timeOver THEN "close" ELSE "flush"
    /\ UNCHANGED <<producerVars, half, wPos, rPos, rFlag, ready, temp, clip, header,
                   seekKey, out, timeOver, dropped>>

\* curDur has reached maxDur.
EnoughRecorded ==
    /\ rec = "check"
    /\ ~seekKey
    /\ rec' = "close"
    /\ UNCHANGED <<producerVars, half, wPos, rPos, rFlag, ready, temp, clip, header,
                   seekKey, out, timeOver, dropped>>

\* f_mem_close, and the task waits for the next command.
CloseClip ==
    /\ rec = "close"
    /\ rec' = "idle"
    /\ UNCHANGED <<producerVars, half, wPos, rPos, rFlag, ready, temp, clip, header,
                   seekKey, out, timeOver, dropped>>

-----------------------------------------------------------------------------
Produce(p) ==
    \/ \E key, tsReset \in BOOLEAN : Mux(p, key, tsReset)
    \/ ResetAll(p)
    \/ \E longEnough \in BOOLEAN : PrepareSize(p, longEnough)
    \/ PushData(p)

Flush ==
    \/ CopyHalf
    \/ SearchIFrame
    \/ TakeSize
    \/ \E someDuration \in BOOLEAN : WriteClip(someDuration)
    \/ NextRound
    \/ EnoughRecorded
    \/ CloseClip

Record == WriteHeader \/ Flush

Next == (\E p \in Producers : Produce(p)) \/ StartRecording \/ Record \/ TimeRunsOver

\* Every task is scheduled, frames keep coming and the clock keeps going; nobody has
\* to start a recording.  That the header gets written is certain only with the engine
\* initialised, which it is when the buffer is ready.
Fairness ==
    /\ \A p \in Producers : WF_vars(Produce(p))
    /\ WF_vars(ready /\ WriteHeader)
    /\ WF_vars(Flush)
    /\ WF_vars(TimeRunsOver)

Spec == Init /\ [][Next]_vars
LiveSpec == Spec /\ Fairness

-----------------------------------------------------------------------------
(* Properties                                                              *)

Recorded == {i \in DOMAIN clip : clip[i] # AvcHeader}

TypeOK ==
    /\ engine \in Producers \cup {"none"}
    /\ at \in [Producers -> {"idle", "reset", "prepare", "append"}]
    /\ packet \in [Producers -> Packet \cup {NoPacket}]
    /\ half \in [Halves -> [tags : Seq(Packet), curSize : Nat]]
    /\ wPos \in Halves /\ rPos \in Halves
    /\ rFlag \in BOOLEAN /\ ready \in BOOLEAN
    /\ temp \in Seq(Packet)
    /\ rec \in {"idle", "header", "flush", "search", "size", "write", "check", "close"}
    /\ clip \in Seq(Packet \cup {AvcHeader})
    /\ header \in Nat
    /\ seekKey \in BOOLEAN /\ timeOver \in BOOLEAN
    /\ out \in Seq(Packet)
    /\ pushed \in Nat
    /\ dropped \subseteq Nat
    /\ rec = "write" => out # <<>>

\* No half is filled beyond its room: the room PrepareSize has made is still there when
\* PushData copies the packet into it.
NothingOverrun == \A h \in Halves : half[h].curSize <= HalfRoom

\* The packets of a clip are in the order they were muxed in, each at most once:
\* however often the recorder polls, it never writes the same half twice.
ClipInOrder ==
    \A i, j \in Recorded : i < j => clip[i].no < clip[j].no

\* "Need to write header and first I-Frame" (rec.c): the first packet after the header
\* is a key frame.
ClipOpensWithKey ==
    \A i \in Recorded : (i - 1) \notin Recorded => clip[i].key

\* A packet missing in the middle of a clip was in a half that was overwritten unread
\* or reset, or was passed over in the search for a key frame: switching the halves
\* while the recorder copies, searches or writes loses nothing else.
OnlyDroppedMissing ==
    \A i, j \in Recorded :
        \A n \in clip[i].no..clip[j].no : n \in dropped \/ n \in Numbers(clip)

\* What the muxer keeps of an earlier frame.
KeptBefore == [offset |-> 0, size |-> 9]

\* Whatever frame of the encoder a video packet was made from, the muxer has kept exactly
\* its last SPS and its last PPS unit, or those of an earlier frame when it has none or one
\* as large as the room for it, so that the header of the next clip is made of whole
\* units; and it has marked as key the frames with slices of an I frame, wherever they
\* begin.  What the muxer keeps is all it remembers, so the first packet stands for all.
ParametersKept ==
    (pushed = 1 /\ packet[Video] # NoPacket) =>
        \A frame \in {f \in Frames : KeyFrame(f) = packet[Video].key} :
            ReadsWell([SPS |-> KeptBefore, PPS |-> KeptBefore], frame)

\* Once the buffer has been ready, a recording ends, whether or not there is a key
\* frame, or anything, to record.  One that finds no initialised engine does not: it
\* tries for ever to write the header.
RecordingEnds == (ready /\ rec # "idle") ~> (rec = "idle")
=============================================================================
