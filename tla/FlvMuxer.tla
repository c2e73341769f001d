------------------------------ MODULE FlvMuxer ------------------------------
(***************************************************************************)
(* How the muxer (mux.c) reads a video frame: the units that open with the *)
(* sync word 00 00 00 01, the parameter sets (SPS, PPS) it keeps for the   *)
(* sequence header of the next clip, and whether the packet is a key one.  *)
(*                                                                         *)
(* A frame is the sequence of its units; an offset into its bytes is the   *)
(* sum of the sizes before it.  No unit holds a sync word of its own, so   *)
(* the search byte by byte finds the units one after the other.            *)
(***************************************************************************)
EXTENDS Integers, Sequences

SyncWord == 4           \* bytes; the type of the unit is in the one after it
ParameterRoom == 1024   \* maxSize of mux->sps and mux->pps
VideoTag == 5           \* bytes before the frame in the packet's data
PacketRoom == 150 * 1024

ParameterSets == {"SPS", "PPS"}
Slices == {"I", "P"}
UnitType == ParameterSets \cup Slices \cup {"other"}

Unit == [type : UnitType, size : Nat \ 0 .. SyncWord]

\* Where each unit of the frame ends.
Ends(frame) ==
    LET end[i \in 0 .. Len(frame)] == IF i = 0 THEN 0 ELSE end[i - 1] + frame[i].size
    IN  end

Offset(frame, i) == Ends(frame)[i - 1]
FrameSize(frame) == Offset(frame, Len(frame) + 1)

-----------------------------------------------------------------------------
(* ParseFrame                                                              *)

\* FrameInfo of the units so far: cur is eCurFrameType, at u32NextSyncWordAdr.
NoInfo == [types |-> {}, at |-> 0, cur |-> "none", done |-> FALSE,
           offset |-> [t \in ParameterSets |-> 0],
           len |-> [t \in ParameterSets |-> 0]]

\* The unit before, if it was the start of a parameter set, ends where u begins.
LenAt(info) ==
    IF info.cur = "none" THEN info.len
    ELSE [info.len EXCEPT ![info.cur] = info.at - info.offset[info.cur]]

\* Fault: the search goes on after the first slice.
TakeUnitOn(info, u) ==
    [info EXCEPT
        !.types = IF u.type = "other" THEN @ ELSE @ \cup {u.type},
        !.at = @ + u.size,
        !.len = LenAt(info),
        !.cur = IF u.type \in ParameterSets THEN u.type ELSE @,
        !.offset = IF u.type \in ParameterSets THEN [@ EXCEPT ![u.type] = info.at] ELSE @]

\* One turn of the loop at a sync word; the first slice ends the search.
TakeUnit(info, u) ==
    IF info.done THEN info
    ELSE [info EXCEPT
            !.types = IF u.type = "other" THEN @ ELSE @ \cup {u.type},
            !.at = @ + u.size,
            !.len = LenAt(info),
            !.cur = IF u.type \in ParameterSets THEN u.type ELSE @,
            !.offset = IF u.type \in ParameterSets THEN [@ EXCEPT ![u.type] = info.at]
                                                   ELSE @,
            !.done = u.type \in Slices]

\* The search, after each of the units.
Search(frame) ==
    LET info[i \in 0 .. Len(frame)] ==
            IF i = 0 THEN NoInfo ELSE TakeUnit(info[i - 1], frame[i])
    IN  info

ParseFrame(frame) ==
    IF frame[1].type \in Slices
      THEN [NoInfo EXCEPT !.types = {frame[1].type}]
      ELSE Search(frame)[Len(frame)]

-----------------------------------------------------------------------------
(* FLVMuxerFillVideo                                                       *)

\* What the muxer keeps of a parameter set of type t: the bytes of the frame, as
\* their place, or what it kept before if there is none or no room for it.
Keep(info, t, before) ==
    IF t \in info.types /\ info.len[t] \in 1..(ParameterRoom - 1)
      THEN [offset |-> info.offset[t], size |-> info.len[t]]
      ELSE before

\* The parameter sets kept, whether the packet has room for the frame (the parameter
\* sets of one it has no room for are kept too), and whether it is a key one.
FillVideo(mux, frame) ==
    LET info == ParseFrame(frame)
    IN  [SPS |-> Keep(info, "SPS", mux.SPS),
         PPS |-> Keep(info, "PPS", mux.PPS),
         packet |-> FrameSize(frame) + VideoTag <= PacketRoom,
         key |-> "I" \in info.types]

\* The sequence header of the next clip (FLVMuxerFillVideoHeader): size of its data.
HeaderSize(mux) == mux.SPS.size + mux.PPS.size + VideoTag

-----------------------------------------------------------------------------
(* The frames of the encoder, and what the muxer should make of them       *)

\* There is a slice, the slices are of one kind and no parameter set comes after one;
\* what follows a parameter set is another one or a slice.
EncoderFrame(frame) ==
    /\ frame \in Seq(Unit)
    /\ \E i \in DOMAIN frame : frame[i].type \in Slices
    /\ \A i, j \in DOMAIN frame :
          (frame[i].type \in Slices /\ i < j) => frame[j].type \in {frame[i].type, "other"}
    /\ \A i \in DOMAIN frame :
          frame[i].type \in ParameterSets => frame[i + 1].type \in ParameterSets \cup Slices

\* Frames to check with: sizes on both sides of the room there is for a parameter set.
UnitsOf(t) == [type : {t},
               size : IF t \in ParameterSets THEN {SyncWord + 1, ParameterRoom - 1, ParameterRoom}
                      ELSE {SyncWord + 2}]

Units(T) == UNION {UnitsOf(t) : t \in T}

UpTo(n, S) == UNION {[1..m -> S] : m \in 0..n}

SliceRuns == (UNION {UpTo(2, Units({t})) : t \in Slices}) \ {<<>>}

\* Other units (a delimiter, SEI) first, then parameter sets, then one or two slices.
Frames ==
    {others \o sets \o slices :
        others \in UpTo(2, Units({"other"})),
        sets   \in UpTo(3, Units(ParameterSets)),
        slices \in SliceRuns}

\* The last unit of type t, if it is short enough to be kept.
LastOf(frame, t, before) ==
    LET last == {i \in DOMAIN frame :
                    frame[i].type = t /\ \A j \in DOMAIN frame : frame[j].type = t => j <= i}
        kept == {i \in last : frame[i].size < ParameterRoom}
    IN  IF kept = {} THEN before
        ELSE LET i == CHOOSE k \in kept : TRUE
             IN  [offset |-> Offset(frame, i), size |-> frame[i].size]

KeyFrame(frame) == \E i \in DOMAIN frame : frame[i].type = "I"

\* The muxer, holding mux, keeps the last SPS and the last PPS unit of the frame, whole
\* and with nothing after them, and knows a key frame.
ReadsWell(mux, frame) ==
    LET filled == FillVideo(mux, frame)
        wanted == [t \in ParameterSets |-> LastOf(frame, t, mux[t])]
    IN  /\ filled.SPS = wanted["SPS"]
        /\ filled.PPS = wanted["PPS"]
        /\ HeaderSize(filled) = wanted["SPS"].size + wanted["PPS"].size + VideoTag
        /\ filled.key <=> KeyFrame(frame)
=============================================================================
