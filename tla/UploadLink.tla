----------------------------- MODULE UploadLink -----------------------------
(***************************************************************************)
(* What sending an HTTP request over SPI and receiving its answer share:   *)
(* g_iPosition, the two rings of g_spi_uploader and who calls.  UploadSend *)
(* and UploadRecv extend this module, UploadSession puts them together.    *)
(***************************************************************************)
EXTENDS Integers, Sequences

CONSTANTS RingSize,     \* packets in each ring of g_spi_uploader
          RawMaxLen     \* SPI_UPLOAD_RAW_MAXLEN, what a packet may carry

ASSUME RingAssumption == RingSize \in Nat \ {0}

\* upload_all_in_one_add_eventid, for an event with picture or clip, and
\* http_post_add_event_api, for an event by itself.  The build has the second only with
\* FIRST_EVENT_REST.
Callers == {"all_in_one", "event_add"}

VARIABLES
    caller,         \* which of the two
    app,            \* where it is in upload_send_api or upload_recv_api
    position,       \* g_iPosition
    toCC, fromCC    \* the way to the CC3200 and back

\* Between the first call of upload_send_api and the first of upload_recv_api.
Sending == app \in {"idle", "send", "poll", "round", "return", "given_up", "finished"}

\* spi_uploader_send: a full ring loses the packet.
Put(ring, e) == IF Len(ring) < RingSize THEN Append(ring, e) ELSE ring
=============================================================================
