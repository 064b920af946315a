---------------------------- MODULE WsgiExchange ----------------------------
(***************************************************************************)
(* One captured request inside wrapper/wsgi.py: the application runs with  *)
(* the tee for input and a wrapped start_response, the server iterates     *)
(* CapturingIterable and closes it, and ExchangeCapture.finalize turns what*)
(* was observed into the stored record.  All of it is one thread; what     *)
(* varies is the order the application and the server do things in, and    *)
(* where one of them raises.  Application and server follow PEP 3333: no   *)
(* data before start_response, an exception of start_response or of write  *)
(* is passed on (an application that swallows one of write could go on and *)
(* complete a record with bytes the server never took), an iterable that   *)
(* was returned is closed (perhaps more than once).                        *)
(***************************************************************************)
EXTENDS CapturingInput

CONSTANTS
    Statuses,       \* statuses the application may choose
    MaxResponse,    \* bound: bytes of response
    MaxCloses       \* bound: how often the server calls close

ASSUME ExchangeAssumption == {MaxResponse, MaxCloses} \subseteq Nat

VARIABLES
    recording,          \* did create_exchange give a record?
    phase,              \* "app", "serve" or "over"
    response_status,    \* what ExchangeCapture.start last noted
    response_size,      \* what observe_response counted
    finished,           \* CapturingIterable.finished
    closed,             \* CapturingIterable.closed
    finalized,          \* ExchangeCapture.finalized
    record,             \* the row that finalize stored, or Unknown
    stores,             \* history: calls of update_exchange
    sent_status,        \* the status the server holds
    sent,               \* response bytes the server took
    ended,              \* has the iteration stopped or raised?
    app_closes,         \* calls of the application's close
    close_calls         \* calls of close by the server

captureVars == <<recording, finalized, record, stores>>
iterVars    == <<finished, closed, app_closes, close_calls>>
serverVars  == <<sent_status, sent, ended>>
noteVars    == <<response_status, response_size>>
vars == <<inputVars, captureVars, iterVars, serverVars, noteVars, phase>>

Record ==
    [state           : {"complete", "application_error"},
     whole           : BOOLEAN,
     response_status : Statuses \cup {Unknown},
     response_size   : Nat,
     incomplete      : BOOLEAN]

TypeOK ==
    /\ InputTypeOK
    /\ phase \in {"app", "serve", "over"}
    /\ response_status \in Statuses \cup {Unknown}
    /\ response_size \in Nat
    /\ {recording, finished, closed, finalized, ended} \subseteq BOOLEAN
    /\ record \in Record \cup {Unknown}
    /\ stores \in Nat
    /\ sent_status \in Statuses \cup {Unknown}
    /\ sent \in Nat
    /\ app_closes \in Nat
    /\ close_calls \in 0..MaxCloses

Init ==
    /\ InputInit
    /\ recording \in BOOLEAN
    /\ phase = "app"
    /\ response_status = Unknown
    /\ response_size = 0
    /\ finished = FALSE
    /\ closed = FALSE
    /\ finalized = FALSE
    /\ record = Unknown
    /\ stores = 0
    /\ sent_status = Unknown
    /\ sent = 0
    /\ ended = FALSE
    /\ app_closes = 0
    /\ close_calls = 0

-----------------------------------------------------------------------------
(* ExchangeCapture. *)
\* Mutated form: every call stores.
FinalizeAgain(state, partial) ==
    /\ IF recording
       THEN /\ finalized' = TRUE
            /\ stores' = stores + 1
            /\ record' = [state |-> state,
                          whole |-> ~truncated /\ ~incomplete,
                          response_status |-> response_status',
                          response_size |-> response_size',
                          incomplete |-> partial]
       ELSE UNCHANGED <<finalized, stores, record>>
    /\ UNCHANGED recording

\* The first call stores the record, later ones change nothing.
Finalize(state, partial) ==
    /\ IF recording /\ ~finalized
       THEN /\ finalized' = TRUE
            /\ stores' = stores + 1
            /\ record' = [state |-> state,
                          whole |-> ~truncated /\ ~incomplete,
                          response_status |-> response_status',
                          response_size |-> response_size',
                          incomplete |-> partial]
       ELSE UNCHANGED <<finalized, stores, record>>
    /\ UNCHANGED recording

\* An Exception leaves the application, in its call or in next().
Fails ==
    /\ Finalize("application_error", TRUE)
    /\ IF phase = "app"
       THEN phase' = "over" /\ UNCHANGED ended
       ELSE ended' = TRUE /\ UNCHANGED phase

GoesOn == UNCHANGED <<captureVars, phase, ended>>

-----------------------------------------------------------------------------
(* The application, while it has the control. *)

AppRuns ==
    \/ phase = "app"
    \/ phase = "serve" /\ ~ended

ReadsInput ==
    /\ AppRuns
    /\ InputStep
    /\ UNCHANGED <<captureVars, iterVars, serverVars, noteVars, phase>>

\* capturing_start_response notes the status before the server accepts it.
\* The server refuses a second call without exc_info, or after the headers
\* have left.
StartResponse ==
    /\ AppRuns /\ ~lines.busy
    /\ UNCHANGED response_size
    /\ \E status \in Statuses, exc_info \in BOOLEAN :
        /\ response_status' = status
        /\ IF sent_status = Unknown \/ (exc_info /\ sent = 0)
           THEN sent_status' = status /\ GoesOn
           ELSE UNCHANGED sent_status /\ Fails
    /\ UNCHANGED <<inputVars, iterVars, sent>>

\* capturing_write observes the data before it is written, and writing may
\* raise because the client is gone, which ends the application.
Writes ==
    /\ AppRuns /\ ~lines.busy
    /\ sent_status # Unknown
    /\ UNCHANGED response_status
    /\ \E size \in 0..(MaxResponse - response_size) :
        /\ response_size' = response_size + size
        /\ \/ sent' = sent + size /\ GoesOn
           \/ UNCHANGED sent /\ Fails
    /\ UNCHANGED <<inputVars, iterVars, sent_status>>

Raises ==
    /\ AppRuns /\ ~lines.busy
    /\ UNCHANGED noteVars
    /\ Fails
    /\ UNCHANGED <<inputVars, iterVars, sent_status, sent>>

\* What is not an Exception (SystemExit from a worker timeout) is not caught,
\* and neither is the TypeError of iter() on what was returned.
Aborts ==
    /\ AppRuns /\ ~lines.busy
    /\ IF phase = "app"
       THEN phase' = "over" /\ UNCHANGED ended
       ELSE ended' = TRUE /\ UNCHANGED phase
    /\ UNCHANGED <<inputVars, captureVars, iterVars, noteVars, sent_status, sent>>

Returns ==
    /\ phase = "app" /\ ~lines.busy
    /\ phase' = "serve"
    /\ UNCHANGED <<inputVars, captureVars, iterVars, serverVars, noteVars>>

-----------------------------------------------------------------------------
(* CapturingIterable, as the server drives it. *)
\* Mutated form: the data is passed on unobserved.
NextDataUnobserved ==
    /\ phase = "serve" /\ ~ended /\ ~lines.busy
    /\ sent_status # Unknown
    /\ \E size \in 0..(MaxResponse - sent) : sent' = sent + size
    /\ UNCHANGED <<inputVars, captureVars, iterVars, noteVars, phase,
                   sent_status, ended>>

NextData ==
    /\ phase = "serve" /\ ~ended /\ ~lines.busy
    /\ sent_status # Unknown
    /\ \E size \in 0..(MaxResponse - response_size) :
        /\ response_size' = response_size + size
        /\ sent' = sent + size
    /\ UNCHANGED <<inputVars, captureVars, iterVars, phase, response_status,
                   sent_status, ended>>

NextStop ==
    /\ phase = "serve" /\ ~ended /\ ~lines.busy
    /\ sent_status # Unknown
    /\ ended' = TRUE
    /\ finished' = TRUE
    /\ UNCHANGED noteVars
    /\ Finalize("complete", FALSE)
    /\ UNCHANGED <<inputVars, closed, app_closes, close_calls, phase,
                   sent_status, sent>>
\* Mutated form: a response closed early counts as complete.
CloseAsComplete ==
    /\ phase = "serve" /\ ~lines.busy
    /\ ~closed
    /\ close_calls < MaxCloses
    /\ close_calls' = close_calls + 1
    /\ closed' = TRUE
    /\ phase' = "over"
    /\ app_closes' = app_closes + 1
    /\ UNCHANGED noteVars
    /\ Finalize("complete", FALSE)
    /\ UNCHANGED <<inputVars, finished, sent_status, sent, ended>>

\* Mutated form: close only forwards.
CloseWithoutFinalize ==
    /\ phase = "serve" /\ ~lines.busy
    /\ close_calls < MaxCloses
    /\ close_calls' = close_calls + 1
    /\ ended' = TRUE
    /\ closed' = TRUE
    /\ app_closes' = IF closed THEN app_closes ELSE app_closes + 1
    /\ UNCHANGED <<inputVars, captureVars, noteVars, finished, sent_status, sent,
                   phase>>

\* close, after the last item or before (the client went away).  The close of
\* the application may raise; the record then says so if it is still open.
Close ==
    /\ phase = "serve" /\ ~lines.busy
    /\ close_calls < MaxCloses
    /\ close_calls' = close_calls + 1
    /\ ended' = TRUE
    /\ closed' = TRUE
    /\ UNCHANGED noteVars
    /\ IF closed
       THEN UNCHANGED <<app_closes, captureVars>>
       ELSE /\ app_closes' = app_closes + 1
            /\ \/ Finalize("application_error", TRUE)
               \/ IF finished THEN UNCHANGED captureVars
                              ELSE Finalize("complete", TRUE)
    /\ \/ UNCHANGED phase
       \/ phase' = "over"
    /\ UNCHANGED <<inputVars, finished, sent_status, sent>>

Next ==
    \/ ReadsInput \/ StartResponse \/ Writes \/ Raises \/ Aborts \/ Returns
    \/ NextData \/ NextStop \/ Close

Spec == Init /\ [][Next]_vars

\* PEP 3333 obliges the server to call close on what it was given.  It can do
\* so whenever next() has come back, which it does again and again: it is
\* assumed that the application does not keep the control forever.
FairSpec == Spec /\ SF_vars(Close) /\ WF_vars(lines.busy /\ ReadsInput)

-----------------------------------------------------------------------------

\* However the end comes (exhausted, raised, closed early, closed twice, close
\* raising), the record is stored at most once and the application's close is
\* called at most once, and never left out.
EndsOnce ==
    /\ stores <= 1
    /\ app_closes <= 1
    /\ close_calls > 0 => app_closes = 1

\* A record without error and without the incomplete mark tells the response
\* as the server sent it: this status, all of these bytes, to the end.
CompleteRecordIsTrue ==
    (record # Unknown /\ record.state = "complete" /\ ~record.incomplete) =>
        /\ ended
        /\ record.response_status = sent_status
        /\ record.response_size = sent

\* No record, complete or not, has fewer bytes than the server took: nothing
\* is delivered once the record is stored.
RecordCoversResponse ==
    record # Unknown => record.response_size >= sent

\* A stored request marked whole (the only kind that is replayed) has every
\* byte of the body, though it may be stored before the application is done
\* with the input; if the length of the body is known at all.
WholeRecordIsWhole ==
    record # Unknown /\ record.whole /\ KnownBody =>
        captured = [i \in 1..body |-> i]

\* Once the application has returned its iterable, the exchange does not stay
\* pending: one way or another the record is stored.
ServedIsStored == phase = "serve" /\ recording ~> record # Unknown

\* "Requests whose body was read incompletely cannot be replayed": of whatever
\* length, declared or not.
ReplayableIsComplete ==
    record # Unknown /\ record.whole => captured = [i \in 1..body |-> i]
=============================================================================
