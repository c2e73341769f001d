----------------------------- MODULE UploadRecv -----------------------------
(***************************************************************************)
(* Receiving the answer to an HTTP request over SPI: upload_recv_api and   *)
(* upload_close_api of uploader/upload_over_spi.c and the loops that call  *)
(* them.                                                                   *)
(*                                                                         *)
(* The camera asks for the answer by position and the CC3200 sends what    *)
(* begins there.  A call returns one packet, since both callers ask for    *)
(* less than a packet holds, and repeats the position while it waits.      *)
(* Packets and positions may be lost, and a position told twice is         *)
(* answered twice.  Bytes are not modelled: a packet says which ones it    *)
(* carries.                                                                *)
(***************************************************************************)
EXTENDS UploadLink, Integers, Sequences

CONSTANTS AnswerLen,    \* length of the answer
          Retries,      \* iRetry: packets out of place that a call puts up with
          Tries         \* calls without data before the caller gives up

ASSUME RecvAssumption == {RawMaxLen, AnswerLen, Retries, Tries} \subseteq Nat \ {0}

VARIABLES
    \* the caller
    tries,          \* i, or l_sleep_count
    got,            \* l_total_byte: what of the answer it has
    result,         \* what it makes of it
    \* upload_recv_api
    first,          \* g_first_recv_call is 0: no position told yet
    retry,          \* iRetry
    ret             \* iLengthCpy

fetchVars == <<caller, tries, got, result>>
recvVars == <<app, position, first, retry, ret>>
answerVars == <<fetchVars, recvVars, toCC, fromCC>>

\* To the CC3200: a position, the end of the connection, and what is left of the
\* request.
Position(p) == [kind |-> "position", pos |-> p]
Close == [kind |-> "close", pos |-> 0]
Leftover == [kind |-> "request", pos |-> 0]

\* UPLOAD_CTRL_RESPONSE with data, without, and anything else.
AnswerData(p, n) == [kind |-> "data", pos |-> p, length |-> n]
AnswerEnd == [kind |-> "end", pos |-> AnswerLen, length |-> 0]
Other == [kind |-> "other", pos |-> 0, length |-> 0]

-----------------------------------------------------------------------------
(* upload_recv_api *)

RecvCall ==
    /\ app = "caller"
    /\ app' = "recv" /\ retry' = Retries /\ ret' = 0
    /\ first' = FALSE
    /\ toCC' = IF first THEN Put(toCC, Position(position)) ELSE toCC
    /\ UNCHANGED <<fetchVars, position, fromCC>>

Receiving(kind) == app = "recv" /\ fromCC # <<>> /\ Head(fromCC).kind = kind

\* Fault: any packet will do.
InPlaceNotChecked == TRUE

InPlace == Head(fromCC).pos = position

\* Fault: a packet that comes late is confirmed and not returned.
TakeDataLate ==
    /\ Receiving("data") /\ InPlace
    /\ position' = position + Head(fromCC).length
    /\ ret' \in {0, Head(fromCC).length}
    /\ app' = "recv_return"
    /\ fromCC' = Tail(fromCC)
    /\ toCC' = Put(toCC, Position(position'))
    /\ UNCHANGED <<fetchVars, first, retry>>

\* Copied, and confirmed by the next position.
TakeData ==
    /\ Receiving("data") /\ InPlace
    /\ position' = position + Head(fromCC).length
    /\ ret' = Head(fromCC).length
    /\ app' = "recv_return"
    /\ fromCC' = Tail(fromCC)
    /\ toCC' = Put(toCC, Position(position'))
    /\ UNCHANGED <<fetchVars, first, retry>>

\* Out of place: the position is told again, but not by a call that gives up.
PassOver ==
    /\ Receiving("data") /\ ~InPlace
    /\ retry' = retry - 1
    /\ IF retry' = 0 THEN ret' = -1 /\ app' = "recv_return" /\ UNCHANGED toCC
       ELSE toCC' = Put(toCC, Position(position)) /\ UNCHANGED <<ret, app>>
    /\ fromCC' = Tail(fromCC)
    /\ UNCHANGED <<fetchVars, position, first>>

SeeEnd ==
    /\ Receiving("end")
    /\ position' = 0 /\ first' = TRUE
    /\ ret' = 0 /\ app' = "recv_return"
    /\ fromCC' = Tail(fromCC)
    /\ UNCHANGED <<fetchVars, retry, toCC>>

\* Nothing to take: the position is told again.
Wait ==
    /\ app = "recv"
    /\ \/ fromCC = <<>> /\ UNCHANGED fromCC
       \/ Receiving("other") /\ fromCC' = Tail(fromCC)
    /\ toCC' = Put(toCC, Position(position))
    /\ UNCHANGED <<fetchVars, position, first, retry, ret>>

WaitOn == Wait /\ UNCHANGED app

\* Fault: the 3 s are not looked at.
TimesOutNever == WaitOn

\* The 3 s are over.
TimesOut == Wait /\ app' = "recv_return"

-----------------------------------------------------------------------------
(* The callers: upload_all_in_one_add_eventid is content with the first    *)
(* packet, fetch_response appends packets until a call brings none.        *)

\* upload_close_api, whose flush empties the rx ring.
CloseSocket(r) ==
    /\ app' = "closed" /\ result' = r
    /\ position' = 0
    /\ toCC' = Put(toCC, Close)
    /\ fromCC' = <<>>

TryAgain == app' = "caller" /\ UNCHANGED <<result, position, toCC, fromCC>>

\* upload_all_in_one_add_eventid
UseFirstPacket ==
    /\ got' = IF ret > 0 THEN ret ELSE got
    /\ tries' = IF ret > 0 THEN tries ELSE tries + 1
    /\ IF ret > 0 THEN CloseSocket("answer")
       ELSE IF tries' = Tries THEN CloseSocket("failed")
       ELSE TryAgain

\* fetch_response; http_post_add_event_api closes.
AppendPacket ==
    IF ret > 0
    THEN /\ got' = got + ret
         /\ tries' = IF tries < Tries THEN tries + 1 ELSE tries
         /\ TryAgain
    ELSE /\ UNCHANGED got
         /\ IF got > 0 THEN CloseSocket("answer") /\ UNCHANGED tries
            ELSE IF tries >= Tries THEN CloseSocket("failed") /\ UNCHANGED tries
            ELSE TryAgain /\ tries' = tries + 1

RecvReturn ==
    /\ app = "recv_return"
    /\ IF caller = "all_in_one" THEN UseFirstPacket ELSE AppendPacket
    /\ UNCHANGED <<caller, first, retry, ret>>

-----------------------------------------------------------------------------
(* The CC3200 and the bus *)

\* What begins at the position, as far as the CC3200 has it; what is left of the
\* request is still answered with the position of the request.
Answers(q) ==
    IF q.kind = "request" THEN {Other}
    ELSE IF q.pos >= AnswerLen THEN {AnswerEnd}
    ELSE {AnswerData(q.pos, n) :
             n \in 1 .. (IF AnswerLen - q.pos < RawMaxLen THEN AnswerLen - q.pos
                         ELSE RawMaxLen)}

CCAnswer ==
    /\ toCC # <<>> /\ toCC' = Tail(toCC)
    /\ Head(toCC).kind # "close"
    /\ \E a \in Answers(Head(toCC)) : fromCC' = Put(fromCC, a)
    /\ UNCHANGED <<fetchVars, recvVars>>

\* A position lost on the bus, its answer lost, or not there yet; or the socket
\* is closed.
CCSilent ==
    /\ toCC # <<>> /\ toCC' = Tail(toCC)
    /\ UNCHANGED <<fetchVars, recvVars, fromCC>>

-----------------------------------------------------------------------------
Take == TakeData \/ PassOver \/ SeeEnd

RecvNext == RecvCall \/ Take \/ WaitOn \/ TimesOut \/ RecvReturn \/ CCAnswer \/ CCSilent

-----------------------------------------------------------------------------
(* Properties *)

Asked == [kind : {"position", "close", "request"}, pos : 0 .. AnswerLen]

Packets == [kind : {"data", "end", "other"}, pos : 0 .. AnswerLen, length : 0 .. RawMaxLen]

RecvTypeOK ==
    /\ caller \in Callers /\ tries \in 0 .. Tries /\ got \in 0 .. AnswerLen
    /\ result \in {"none", "answer", "failed"}
    /\ app \in {"caller", "recv", "recv_return", "closed"}
    /\ position \in 0 .. AnswerLen /\ first \in BOOLEAN
    /\ retry \in 0 .. Retries /\ ret \in -1 .. RawMaxLen
    /\ toCC \in Seq(Asked) /\ Len(toCC) <= RingSize
    /\ fromCC \in Seq(Packets) /\ Len(fromCC) <= RingSize

\* A packet goes behind what the caller has of the answer, whatever was lost,
\* repeated or timed out before: no gap, and no byte twice.
AnswerInPlace == [][TakeData => Head(fromCC).pos = got]_answerVars

\* When the CC3200 says that there is no more data, the caller has all of it:
\* a confirmation is never ahead of what the caller was given.
AnswerIsWhole == [][SeeEnd => got = AnswerLen]_answerVars
=============================================================================
