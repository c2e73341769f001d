--------------------------- MODULE UploadSession ----------------------------
(***************************************************************************)
(* One HTTP request over SPI and its answer: UploadSend and UploadRecv,    *)
(* one after the other over the same rings and the same g_iPosition, as in *)
(* upload_all_in_one_add_eventid and, with FIRST_EVENT_REST,               *)
(* http_post_add_event_api.                                                *)
(***************************************************************************)
EXTENDS UploadSend, UploadRecv

sendOnly == <<sent, len, acked, k, next, wanted>>
recvOnly == <<tries, got, result, first, retry, ret>>
sessionVars == <<caller, app, position, toCC, fromCC, sendOnly, recvOnly>>

\* An earlier answer that was not read to its end leaves g_first_recv_call set.
SessionInit ==
    /\ Init
    /\ tries = 0 /\ got = 0 /\ result = "none"
    /\ first \in BOOLEAN /\ retry = 0 /\ ret = 0

-----------------------------------------------------------------------------
(* From the one to the other                                               *)

\* In the tx ring there are packets of the request still, in the rx ring positions;
\* neither is an answer.
RingOf(packet, ring) == [i \in DOMAIN ring |-> packet]

BeginAnswer ==
    /\ app = "finished"
    /\ app' = "caller"
    /\ toCC' = RingOf(Leftover, toCC)
    /\ fromCC' = RingOf(Other, fromCC)
    /\ UNCHANGED <<caller, position, sendOnly, recvOnly>>

\* A short call: upload_all_in_one_add_eventid closes at once.
CloseUnsent ==
    /\ app = "given_up"
    /\ app' = "closed"
    /\ position' = 0
    /\ toCC' = Put(RingOf(Leftover, toCC), Close)
    /\ fromCC' = <<>>
    /\ UNCHANGED <<caller, sendOnly, recvOnly>>

-----------------------------------------------------------------------------
SendStep(A) == Sending /\ A /\ UNCHANGED recvOnly
RecvStep(A) == ~Sending /\ A /\ UNCHANGED sendOnly

SessionNext ==
    \/ SendStep(Next)
    \/ BeginAnswer
    \/ CloseUnsent
    \/ RecvStep(RecvNext)

\* The uploader task runs, and its clocks go on.  A poll of upload_send_api lasts
\* 140 ms, so what waits in the rx ring is read before windows without end are sent;
\* while the request is sent the SPI task keeps exchanging and the CC3200 takes what it
\* gets.  Of an answer nothing is asked.
Fairness ==
    /\ WF_sessionVars(SendStep(App))
    /\ SF_sessionVars(SendStep(ReadAck))
    /\ WF_sessionVars(SendStep(CCReceive))
    /\ WF_sessionVars(BeginAnswer \/ CloseUnsent)
    /\ WF_sessionVars(RecvStep(RecvCall \/ Take \/ RecvReturn))
    /\ WF_sessionVars(RecvStep(TimesOut))

SessionSpec == SessionInit /\ [][SessionNext]_sessionVars /\ Fairness

-----------------------------------------------------------------------------
(* Properties                                                              *)

SessionTypeOK == IF Sending THEN TypeOK ELSE RecvTypeOK

\* The request has been ended by upload_send_api with length 0.
Ended ==
    \/ app \in {"finished", "caller", "recv", "recv_return"}
    \/ app = "closed" /\ result # "none"

\* The request is a transfer of its bytes: what has arrived stays, what is counted as
\* sent is never taken back nor sooner than it arrives, and the request is ended only
\* when every byte of it is counted.
Request == INSTANCE Delivery WITH
    Pieces <- Nat,
    items <- 0 .. Total - 1,
    arrived <- 0 .. wanted - 1,
    confirmed <- 0 .. acked - 1,
    done <- Ended

ImplementsDelivery == Request!Spec

\* No position comes back for a packet.
Unanswered == toCC # <<>> /\ toCC' = Tail(toCC) /\ fromCC' = fromCC

\* Whatever was lost on the way, once every packet is answered and the ring keeps up
\* the request is ended, or an all-in-one upload has been given up.
Finishes ==
    <>[][Sending => ~Unanswered /\ ~GiveUp /\ ~PacketRefused]_sessionVars
        => <>(app \in {"finished", "given_up"})

\* Once the request is sent or given up, each call ends, and so do the callers' loops,
\* even if the CC3200 is silent: the socket is closed in the end.
Closes == app \in {"finished", "given_up"} ~> app = "closed"
=============================================================================
