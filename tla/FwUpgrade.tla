----------------------------- MODULE FwUpgrade ------------------------------
(***************************************************************************)
(* Firmware upgrade over SPI: fwupgrade_task of fwupgrade/fwupgrade.c.     *)
(*                                                                         *)
(* The CC3200 sends the image packet by packet, each with its position,    *)
(* then its MD5 digest; the task collects the image in memory, compares    *)
(* the digest and writes the KERNEL partition between erasing and setting  *)
(* the UPFLAG partition.  Any error resets the board; power may go at any  *)
(* moment.  Flash survives, memory does not.                               *)
(*                                                                         *)
(* A partition write may also answer -1, its failure (ak_partition.h:19),  *)
(* which fwupgrade_write_partition takes for success (iRet < -1).          *)
(*                                                                         *)
(* A packet carries one chunk and the length of its image.  The digest of  *)
(* an image is the image.  The heap has room for the image of the first    *)
(* packet, and the UPFLAG partition exists (fwupgrade_check_model), or     *)
(* there would be no task.                                                 *)
(***************************************************************************)
EXTENDS Naturals, Sequences

CONSTANTS Chunk,            \* what a data packet may carry
          Images,           \* the firmware images the CC3200 may send
          OldKernel,        \* what KERNEL holds at first
          Torn,             \* a partition after an interrupted write
          Junk,             \* what somebody else wrote into memory
          InboxSize         \* capacity of the rx ring, in packets

\* An image of a single packet would never leave RECV_BIN.
ASSUME ImagesAssumption ==
    /\ Images \subseteq Seq(Chunk)
    /\ \A img \in Images : Len(img) > 1

ASSUME KernelAssumption ==
    /\ OldKernel \notin Seq(Chunk \cup {Junk}) /\ Torn \notin Seq(Chunk \cup {Junk})
    /\ OldKernel # Torn /\ Junk \notin Chunk

ASSUME InboxAssumption == InboxSize \in Nat \ {0}

VARIABLES
    state,          \* e_current_state
    binary,         \* g_pcFirmwareBinary up to current_length
    room,           \* the size it was allocated with, in packets
    inbox,          \* the rx ring of g_fwupgrade
    ota,            \* where action_verify_recv is, "idle" outside of it
    otaOk,          \* iRet of fwupgrade_kernel_ota is 0
    watchdog,       \* armed by fwupg_reboot_wdt
    told,           \* history: the control byte sent last since power came on
    kernel, upflag, \* the partitions
    unreported      \* history: what they hold is owed to a write that answered -1, or
                    \* to an image read from beyond its buffer

ram == <<state, binary, room, inbox, ota, otaOk, watchdog>>
flash == <<kernel, upflag, unreported>>
vars == <<ram, told, flash>>

Packet ==
    (UNION {[kind : {"data"}, img : {img}, pos : 0..(Len(img) - 1)] : img \in Images})
    \cup [kind : {"digest"}, img : Images]

IsData(p) == p.kind = "data"

Init ==
    /\ state = "INIT"
    /\ binary = << >> /\ room = 0
    /\ inbox = << >>
    /\ ota = "idle" /\ otaOk = FALSE
    /\ watchdog = FALSE
    /\ told = "nothing"
    /\ kernel = OldKernel
    /\ upflag = "finished"
    /\ unreported = FALSE

-----------------------------------------------------------------------------
(* The CC3200 and the power supply                                         *)

\* Any packet at any time: late, early, twice, of another image.  What finds the
\* ring full is lost, as if it had not been sent.
Send(p) ==
    /\ Len(inbox) < InboxSize
    /\ inbox' = Append(inbox, p)
    /\ UNCHANGED <<state, binary, room, ota, otaOk, watchdog, told, flash>>

Reset ==
    /\ state' = "INIT"
    /\ binary' = << >> /\ room' = 0
    /\ inbox' = << >>
    /\ ota' = "idle" /\ otaOk' = FALSE
    /\ watchdog' = FALSE

PowerCut ==
    /\ Reset
    /\ told' = "nothing"
    /\ UNCHANGED flash

WatchdogFires ==
    /\ watchdog
    /\ PowerCut

-----------------------------------------------------------------------------
(* Receiving the image                                                     *)

Received == Head(inbox)

\* Fault: the packet is taken to be the next one.
AnyPosition == IsData(Received)

\* fwupg_save_data: current_length must be the packet's position.
RightPosition == IsData(Received) /\ Received.pos = Len(binary)

Saved == Append(binary, Received.img[Received.pos + 1])

\* action_init_recv: the buffer is as long as the first packet's image.  Whether the
\* image is complete is not asked here.
ReceiveFirst ==
    /\ state = "INIT" /\ ota = "idle" /\ inbox # << >>
    /\ RightPosition
    /\ binary' = Saved
    /\ room' = Len(Received.img)
    /\ state' = "RECV_BIN"
    /\ inbox' = Tail(inbox)
    /\ told' = "position"
    /\ UNCHANGED <<ota, otaOk, watchdog, flash>>

\* Fault: one packet is still missing.
AlmostComplete == Len(Saved) + 1 = Len(Received.img)

\* length_bin is that of the packet just saved.
Complete == Len(Saved) = Len(Received.img)

\* action_recvbin_recv.  Nothing keeps a longer image's packets within the buffer.
ReceiveNext ==
    /\ state = "RECV_BIN" /\ ota = "idle" /\ inbox # << >>
    /\ RightPosition
    /\ binary' = Saved
    /\ state' = IF Complete THEN "VERIFY" ELSE "RECV_BIN"
    /\ inbox' = Tail(inbox)
    /\ told' = "position"
    /\ UNCHANGED <<room, ota, otaOk, watchdog, flash>>

\* What was written past the buffer is not the task's: its owner may write over it at
\* any moment.  (What the task destroyed there is not modelled.)
Overwrite ==
    /\ \E i \in (room + 1)..Len(binary) :
          /\ binary[i] # Junk
          /\ binary' = [binary EXCEPT ![i] = Junk]
    /\ UNCHANGED <<state, room, inbox, ota, otaOk, watchdog, told, flash>>

\* Fault: the digest is computed and not compared.
NotCompared == ~IsData(Received)

\* fwupg_validate_bin and the comparison; a data packet is no digest of anything.
DigestMatches == ~IsData(Received) /\ Received.img = binary

\* action_verify_recv, up to the call of fwupgrade_kernel_ota.  The state is left
\* as it is, so another digest starts another upgrade until the watchdog fires.
ReceiveDigest ==
    /\ state = "VERIFY" /\ ota = "idle" /\ inbox # << >>
    /\ DigestMatches
    /\ inbox' = Tail(inbox)
    /\ ota' = "erase"
    /\ UNCHANGED <<state, binary, room, otaOk, watchdog, told, flash>>

\* The notification is written into pResponse, the position over it, and that goes
\* to the CC3200; then sys_reset.
StopNotification == [type |-> "recv", control |-> "stop"]
PositionOver(resp) == [resp EXCEPT !.type = "cmd", !.control = "position"]

StopAndReset ==
    /\ told' = PositionOver(StopNotification).control
    /\ Reset
    /\ UNCHANGED flash

ReceiveWrong ==
    /\ ota = "idle" /\ inbox # << >>
    /\ IF state = "VERIFY" THEN ~DigestMatches ELSE ~RightPosition
    /\ StopAndReset

-----------------------------------------------------------------------------
(* fwupgrade_kernel_ota                                                    *)

task == <<state, binary, room, inbox, watchdog, told>>

\* ak_partition_open fails: nothing is written and the error is seen.
Refused ==
    /\ otaOk' = FALSE
    /\ ota' = "notify"
    /\ UNCHANGED <<task, flash>>

EraseUpflag ==
    /\ ota = "erase"
    /\ \/ /\ ota' = "burn"
          /\ upflag' = "erased"
          /\ unreported' = FALSE
          /\ UNCHANGED <<task, otaOk, kernel>>
       \/ Refused

BeginBurn ==
    /\ ota = "burn"
    /\ \/ /\ ota' = "burning"
          /\ kernel' = Torn
          /\ UNCHANGED <<task, otaOk, upflag, unreported>>
       \/ Refused

\* Fault: the flag is set first.
FlagThenImage ==
    /\ ota = "burning"
    /\ ota' = "finish"
    /\ upflag' = "finished"
    /\ UNCHANGED <<task, otaOk, kernel, unreported>>

EndBurn ==
    /\ ota = "burning"
    /\ ota' = "finish"
    /\ kernel' = binary
    /\ unreported' = (Len(binary) > room)
    /\ UNCHANGED <<task, otaOk, upflag>>

FinishUpflag ==
    /\ ota = "finish"
    /\ \/ /\ ota' = "notify"
          /\ otaOk' = TRUE
          /\ upflag' = "finished"
          /\ UNCHANGED <<task, kernel, unreported>>
       \/ Refused

\* ak_partition_write answers -1 and fwupgrade_write_partition reports success: UPFLAG
\* stays as it was, KERNEL stays torn, and the upgrade goes on.
EraseUnseen ==
    /\ ota = "erase"
    /\ ota' = "burn"
    /\ unreported' = TRUE
    /\ UNCHANGED <<task, otaOk, kernel, upflag>>

BurnUnseen ==
    /\ ota = "burning"
    /\ ota' = "finish"
    /\ unreported' = TRUE
    /\ UNCHANGED <<task, otaOk, kernel, upflag>>

FinishUnseen ==
    /\ ota = "finish"
    /\ ota' = "notify"
    /\ otaOk' = TRUE
    /\ UNCHANGED <<task, flash>>

\* DONE_UPGRADING goes out whatever fwupgrade_kernel_ota returned.
NotifyDone ==
    /\ ota = "notify"
    /\ told' = "done"
    /\ watchdog' = TRUE
    /\ ota' = "return"
    /\ UNCHANGED <<state, binary, room, inbox, otaOk, flash>>

\* Back in fwupgrade_task with action_verify_recv's result.
ReturnFromVerify ==
    /\ ota = "return"
    /\ IF otaOk
         THEN /\ told' = "position"
              /\ ota' = "idle"
              /\ UNCHANGED <<state, binary, room, inbox, otaOk, watchdog, flash>>
         ELSE StopAndReset

-----------------------------------------------------------------------------
\* With nothing received the task sends its position every 10 ms: told says so
\* already.
FwupgradeTask ==
    \/ ReceiveFirst
    \/ ReceiveNext
    \/ ReceiveDigest
    \/ ReceiveWrong
    \/ EraseUpflag
    \/ BeginBurn
    \/ EndBurn
    \/ FinishUpflag
    \/ EraseUnseen
    \/ BurnUnseen
    \/ FinishUnseen
    \/ NotifyDone
    \/ ReturnFromVerify

Next ==
    \/ \E p \in Packet : Send(p)
    \/ FwupgradeTask
    \/ Overwrite
    \/ PowerCut
    \/ WatchdogFires

\* The task polls its ring with a sleep; flash writes end.
Spec == Init /\ [][Next]_vars /\ WF_vars(FwupgradeTask)

-----------------------------------------------------------------------------
(* Properties                                                              *)

TypeOK ==
    /\ state \in {"INIT", "RECV_BIN", "VERIFY"}
    /\ binary \in Seq(Chunk \cup {Junk}) /\ room \in Nat
    /\ binary # << >> => \E img \in Images : Len(binary) <= Len(img)
    /\ inbox \in Seq(Packet) /\ Len(inbox) <= InboxSize
    /\ ota \in {"idle", "erase", "burn", "burning", "finish", "notify", "return"}
    /\ otaOk \in BOOLEAN /\ watchdog \in BOOLEAN
    /\ told \in {"nothing", "position", "stop", "done"}
    /\ kernel \in Seq(Chunk \cup {Junk}) \cup {OldKernel, Torn}
    /\ upflag \in {"finished", "erased"}
    /\ unreported \in BOOLEAN

Whole == Images \cup {OldKernel}

\* What ak_partition.h promises to a caller that looks at its answers, and what erasing
\* UPFLAG first and setting it last is for (fwupgrade_kernel_ota): whenever the power
\* goes, UPFLAG says finished only over a KERNEL that is whole.  It does not hold: a
\* write that answered -1 is taken for a good one.
KernelIntact == upflag = "finished" => kernel \in Whole

\* Whenever the power goes, UPFLAG says finished over a KERNEL that is not whole only if
\* a write of the last upgrade that got past the opening of UPFLAG answered -1 or read
\* beyond the image's buffer, and no later write has put it right.
TornIsUnreported == KernelIntact \/ unreported

\* No packet is skipped, taken twice or taken out of place, whatever the CC3200
\* repeats or restarts, and with images of different lengths: every chunk within the
\* buffer is some image's chunk of that place.
InPlace ==
    \A i \in 1..Len(binary) :
        i <= room => \E img \in Images : i \in DOMAIN img /\ binary[i] = img[i]

\* The upgrade replaces the kernel at one instant and in full: UPFLAG withdraws the old
\* one before KERNEL is touched, and says finished again only over a whole image,
\* except from a write that failed unseen to the next that does not.
Kernel == INSTANCE Installation WITH
    installed <- IF upflag = "finished" THEN {kernel} ELSE {},
    failed <- unreported

ImplementsInstallation == Kernel!Spec

\* A CC3200 that answers the last position with the packet of that place, and the
\* last one with the digest.
Answer(img) ==
    /\ inbox = << >>
    /\ ota = "idle"
    /\ \/ /\ Len(binary) < Len(img)
          /\ Send([kind |-> "data", img |-> img, pos |-> Len(binary)])
       \/ /\ Len(binary) >= Len(img)
          /\ Send([kind |-> "digest", img |-> img])

\* However an earlier transfer was cut off or mixed up, and whatever earlier writes left
\* in the partitions, an image that is sent like this from some time on is installed, if
\* from then on the partitions can be opened, no write answers -1 and the power stays
\* on.
Installs ==
    \A img \in Images :
        /\ <>[][ /\ PowerCut => watchdog
                 /\ ~(Refused \/ EraseUnseen \/ BurnUnseen \/ FinishUnseen)
                 /\ \A p \in Packet : Send(p) => Answer(img) ]_vars
        /\ WF_vars(Answer(img))
        => []<>(kernel = img /\ upflag = "finished")
=============================================================================
