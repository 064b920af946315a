----------------------------- MODULE EditReplay -----------------------------
(***************************************************************************)
(* Edit & Replay of one exchange: the form of inspect.js on a page that    *)
(* was rendered some time ago, edit_replay of inspector/app.py that        *)
(* answers it, and replay_exchange below it.  Meanwhile the exchange       *)
(* completes, is pruned or cleared, polls find out, storage fails, answers *)
(* are lost and the worker is replaced by one with another token.  The     *)
(* replay's own phases are those of ReplayPhases.                          *)
(***************************************************************************)
EXTENDS CapturedRequest

CONSTANTS
    Exchanges,      \* requests with their environ, and what became of them
    HeaderTexts,    \* what the user may write for headers
    BodyTexts,      \* and for a body
    MaxPosts,       \* bound: submissions
    MaxRestarts,    \* bound: workers replaced
    Null

FormLine == [name : STRING, value : Seq(STRING)]

\* What the exchange's row may hold in the end.
Captures ==
    {ExchangeCapture(x.environ, x.body, x.incomplete) : x \in Exchanges}

CapturedRow ==
    [url : {row.url : row \in Captures}, provenance : STRING,
     path : Seq(Character), query : Seq(Character), headers : Seq(FormLine),
     type : STRING, body : Seq(STRING), incomplete : BOOLEAN]

\* str.lower leaves lower case alone; a header that a server passes on has a
\* name, and only CONTENT_TYPE that of the Content-Type.
ASSUME EditAssumption ==
    /\ \A name \in {"host", "content-length", Nonce} : Lower[name] = name
    /\ "" \notin DOMAIN Lower
    /\ HeaderTexts \subseteq Seq(FormLine)
    /\ \A x \in Exchanges : Received(x.target, x.environ)
    /\ Captures \subseteq CapturedRow
    /\ \A row \in Captures : \A i \in DOMAIN row.headers : row.headers[i].name # ""
    /\ \A row \in Captures : EditedType(row.headers) = row.type

VARIABLES
    captured,       \* the complete row, of Captures
    done, stored,   \* is the row complete, is it in the table?
    page,           \* "closed", "open"; "missing": answered 404
    shown,          \* the row the page was rendered from
    draft,          \* the texts in the form
    editMode,
    disabled,       \* the submit button's state
    removed,        \* removed warning shown, Edit disabled
    stale,          \* is page.dataset.token that of a worker of the past?
    posted,         \* is a submission on its way, or its answer?
    post,           \* headers_text and body_text as submitted
    handler,        \* "idle", where edit_replay is, "over", "dead"
    attempt,        \* "none", "pending", "complete", "error", "cleared"
    outcome,        \* attempt.state in the handler's hands
    attempted,      \* attempt.network_attempted
    wire,           \* the requests that have left for it
    answer,
    posts, restarts

rowVars     == <<captured, done, stored>>
pageVars    == <<page, shown>>
buttonVars  == <<disabled, removed>>
formVars    == <<draft, editMode>>
browserVars == <<pageVars, buttonVars, formVars, posted, post, posts>>
attemptVars == <<attempt, outcome, attempted, wire>>
serverVars  == <<handler, attemptVars, answer>>
workerVars  == <<stale, restarts>>
vars == <<rowVars, browserVars, serverVars, workerVars>>

\* While it is pending, the row has the defaults of ExchangeRecord.
Row == IF done THEN captured
               ELSE [captured EXCEPT !.body = <<>>, !.incomplete = FALSE]

Text(h, b) == [headers |-> h, body |-> b]

can_replay(row) == row.url # NoUrl /\ ~row.incomplete

\* originalDraft: what the browser made of the form in the page, if the page
\* has one (can_edit).
originalDraft ==
    IF shown # Null /\ can_replay(shown) /\ editable_body(shown) = "allowed"
    THEN Text(headers_to_text(shown.headers), Textarea(Decode(shown.type, shown.body)))
    ELSE Null

Answer(status, code, maybeSent) ==
    [status |-> status, code |-> code, request_may_have_been_sent |-> maybeSent]

Init ==
    /\ captured \in {row \in Captures : Route(row.path) = "captured"}
    /\ done = FALSE /\ stored = TRUE
    /\ page = "closed" /\ shown = Null /\ draft = Null
    /\ editMode = FALSE /\ disabled = FALSE /\ removed = FALSE
    /\ stale = FALSE
    /\ posted = FALSE /\ post = Null /\ handler = "idle"
    /\ attempt = "none" /\ outcome = "pending" /\ attempted = FALSE
    /\ wire = {} /\ answer = Null
    /\ posts = 0 /\ restarts = 0

-----------------------------------------------------------------------------
(* The storage and the worker. *)

Complete ==
    /\ stored /\ ~done
    /\ done' = TRUE
    /\ UNCHANGED <<captured, stored, browserVars, serverVars, workerVars>>

\* Pruned, or cleared with all attempts.
Disappear ==
    /\ stored
    /\ stored' = FALSE
    /\ attempt' \in {attempt, IF attempt = "none" THEN "none" ELSE "cleared"}
    /\ UNCHANGED <<captured, done, browserVars, handler, outcome,
                   attempted, wire, answer, workerVars>>

\* The worker dies, and with it the request it has begun to handle; the next
\* one draws its own token.
Restart ==
    /\ restarts < MaxRestarts
    /\ restarts' = restarts + 1
    /\ stale' = (page = "open")
    /\ handler' = IF handler = "idle" THEN "idle" ELSE "dead"
    /\ UNCHANGED <<rowVars, browserVars, attemptVars, answer>>

-----------------------------------------------------------------------------
(* inspect.js *)

\* detail(): an exception of editable_body is a "Request not found".
Render ==
    /\ page = "closed" /\ stored
    /\ IF editable_body(Row) = "raised"
       THEN page' = "missing" /\ UNCHANGED <<shown, draft>>
       ELSE page' = "open" /\ shown' = Row /\ draft' = originalDraft'
    /\ stale' = FALSE
    /\ UNCHANGED <<rowVars, buttonVars, editMode, posted, post, posts, serverVars,
                   restarts>>

\* The Edit button, which a poll disables for good.
Edit ==
    /\ page = "open" /\ originalDraft # Null /\ ~editMode /\ ~removed
    /\ editMode' = TRUE
    /\ UNCHANGED <<rowVars, pageVars, buttonVars, draft, posted, post, posts,
                   serverVars, workerVars>>

\* Typing, or Reset.  What is typed while a submission is on its way may as
\* well be typed when that is over.
Type ==
    /\ editMode /\ ~posted
    /\ draft' \in {[draft EXCEPT !.headers = h] : h \in HeaderTexts}
             \cup {[draft EXCEPT !.body = b] : b \in BodyTexts}
             \cup {originalDraft}
    /\ UNCHANGED <<rowVars, pageVars, buttonVars, editMode, posted, post, posts,
                   serverVars, workerVars>>

\* Cancel hides the form and keeps what is in it.
Cancel ==
    /\ editMode
    /\ editMode' = FALSE
    /\ UNCHANGED <<rowVars, pageVars, buttonVars, draft, posted, post, posts,
                   serverVars, workerVars>>

Submit ==
    /\ editMode /\ ~disabled /\ ~posted /\ posts < MaxPosts
    /\ disabled' = TRUE
    /\ posted' = TRUE
    /\ post' = draft
    /\ posts' = posts + 1
    /\ UNCHANGED <<rowVars, pageVars, formVars, removed, serverVars, workerVars>>

\* A poll brings a changed list without the exchange: it is gone, or behind
\* 200 others.
PollNotices ==
    /\ page = "open"
    /\ removed' = TRUE
    /\ disabled' = TRUE
    /\ UNCHANGED <<rowVars, pageVars, formVars, posted, post, posts, serverVars,
                   workerVars>>

\* The answer comes, or the connection breaks with the worker or after it has
\* answered: finally enables the button, whatever a poll has said.  The model
\* forgets the submission then.
Answered ==
    /\ posted /\ handler \in {"over", "dead"}
    /\ posted' = FALSE
    /\ disabled' = FALSE
    /\ post' = Null /\ handler' = "idle" /\ answer' = Null
    /\ attempt' = "none" /\ outcome' = "pending" /\ attempted' = FALSE /\ wire' = {}
    /\ UNCHANGED <<rowVars, pageVars, formVars, removed, posts, workerVars>>

-----------------------------------------------------------------------------
(* edit_replay *)

Reply(status, code, maybeSent) ==
    /\ handler' = "over"
    /\ answer' = Answer(status, code, maybeSent)

json_error(status, code) == Reply(status, code, FALSE)

\* read_json and mutation_allowed.  What the page sends is a JSON object with
\* the three strings, so that only its size can be refused.
Receive ==
    /\ posted /\ handler = "idle"
    /\ \/ json_error(413, "payload_too_large")
       \/ stale /\ json_error(403, "forbidden")
       \/ ~stale /\ handler' = "load" /\ UNCHANGED answer
    /\ UNCHANGED <<rowVars, browserVars, attemptVars, workerVars>>

\* An exception that edit_replay does not catch.
Raise == Reply(500, "raised", FALSE)

\* The submitted texts, headers first.
Parse ==
    LET encoded == encode_edited_body(parse_headers(post.headers), post.body)
    IN  \/ ~HeadersValid(post.headers) /\ json_error(400, "invalid_header")
        \/ HeadersValid(post.headers) /\ encoded = "invalid" /\ json_error(400, "body")
        \/ HeadersValid(post.headers) /\ encoded = "raised" /\ Raise
        \/ /\ HeadersValid(post.headers) /\ encoded = "encoded"
           /\ handler' = "create"
           /\ UNCHANGED answer

\* The exchange as it is now, and whether its body may be edited.
Load ==
    /\ handler = "load"
    /\ \/ json_error(500, "storage_unavailable")
       \/ ~stored /\ json_error(404, "not_found")
       \/ stored /\ editable_body(Row) = "raised" /\ Raise
       \/ stored /\ editable_body(Row) = "refused" /\ json_error(409, "body_not_editable")
       \/ stored /\ editable_body(Row) = "allowed" /\ Parse
    /\ UNCHANGED <<rowVars, browserVars, attemptVars, workerVars>>

\* create_attempt: refused when storage fails or the foreign key does.
Create ==
    /\ handler = "create"
    /\ \/ /\ json_error(500, "attempt_persistence_failed")
          /\ UNCHANGED attempt
       \/ /\ stored
          /\ attempt' = "pending"
          /\ handler' = "send"
          /\ UNCHANGED answer
    /\ UNCHANGED <<rowVars, browserVars, outcome, attempted, wire,
                   workerVars>>

\* can_replay, of the exchange as loaded, resolve_target and send_request up to
\* endheaders: an exception that they do not catch comes before the first byte.
Send ==
    /\ handler = "send"
    /\ \/ /\ handler' = "store" /\ outcome' = "error"
          /\ attempted' \in BOOLEAN
          /\ UNCHANGED <<wire, answer>>
       \/ /\ json_error(500, "attempt_persistence_failed")
          /\ UNCHANGED <<outcome, attempted, wire>>
       \/ /\ captured.url # NoUrl
          /\ Sendable(request_target(captured.url))
          /\ handler' = "wait" /\ attempted' = TRUE
          /\ wire' = wire \cup {OnWire(request_target(captured.url), captured.url.host,
                                      parse_headers(post.headers),
                                      EditedBytes(parse_headers(post.headers), post.body))}
          /\ UNCHANGED <<outcome, answer>>
    /\ UNCHANGED <<rowVars, browserVars, attempt, workerVars>>

Wait ==
    /\ handler = "wait"
    /\ outcome' \in {"complete", "error"}
    /\ handler' = "store"
    /\ UNCHANGED <<rowVars, browserVars, attempt, attempted, wire,
                   answer, workerVars>>
\* Mutated form: the JSON of a failed update has the default of json_error.
StoreUnsaid ==
    /\ handler = "store"
    /\ \/ /\ stored \/ attempt = "cleared"
          /\ attempt' = IF attempt = "cleared" THEN "cleared" ELSE outcome
          /\ Reply(200, IF outcome = "complete" THEN "replay_complete"
                                                ELSE "replay_failed", FALSE)
       \/ /\ json_error(500, "outcome_persistence_failed")
          /\ UNCHANGED attempt
    /\ UNCHANGED <<rowVars, browserVars, outcome, attempted, wire,
                   workerVars>>

\* update_attempt: refused when storage fails or the source is gone; of an
\* attempt that is gone itself it updates no row, and that is no error.
Store ==
    /\ handler = "store"
    /\ \/ /\ stored \/ attempt = "cleared"
          /\ attempt' = IF attempt = "cleared" THEN "cleared" ELSE outcome
          /\ Reply(200, IF outcome = "complete" THEN "replay_complete"
                                                ELSE "replay_failed", FALSE)
       \/ /\ Reply(500, "outcome_persistence_failed", attempted)
          /\ UNCHANGED attempt
    /\ UNCHANGED <<rowVars, browserVars, outcome, attempted, wire,
                   workerVars>>

-----------------------------------------------------------------------------

Next ==
    \/ Complete \/ Disappear \/ Restart
    \/ Render \/ Edit \/ Type \/ Cancel \/ Submit \/ PollNotices \/ Answered
    \/ Receive \/ Load \/ Create \/ Send \/ Wait \/ Store

Spec == Init /\ [][Next]_vars

-----------------------------------------------------------------------------

\* What edit_replay answers is so: an error that does not say "may have been
\* sent" means that nothing left the machine; 4xx means that no attempt was
\* made; and a reported outcome is the stored one, unless all were cleared.
AnswerIsTrue ==
    answer # Null =>
        /\ answer.status >= 400 /\ ~answer.request_may_have_been_sent => wire = {}
        /\ answer.status \in 400..499 => attempt = "none"
        /\ answer.code = "replay_complete" =>
               wire # {} /\ attempt \in {"complete", "cleared"}
        /\ answer.code = "replay_failed" => attempt \in {"error", "cleared"}

\* Whatever was captured or typed, in whatever case: the request has one Host,
\* that of the target, one nonce, that of the attempt, the length of its body
\* as encoded, nothing about the connection, and a Content-Type that the text
\* of its body fits.
SentIsClean ==
    \A request \in wire :
        LET type == EditedType(request.headers)
            text == Decode(type, request.body)
        IN  /\ \A name \in HOP_BY_HOP_HEADERS : Named(request.headers, name) = <<>>
            /\ Named(request.headers, "host") = <<Header("host", <<captured.url.host>>)>>
            /\ Named(request.headers, Nonce) = <<Header(Nonce, <<Fresh>>)>>
            /\ Named(request.headers, "content-length") =
                   <<Header("content-length", <<Len(request.body)>>)>>
            /\ Encodable(type, text)
            /\ text # <<>> => type \in Textual

\* What a textarea leaves as it is.
Survives(text) ==
    {"CR", "NUL"} \cap Range(text) = {} /\ (text # <<>> => Head(text) # "LF")

\* Submitting the form as it came replays the row that the page was rendered
\* from, if its text survives a textarea: its headers in their order, but for
\* those rebuilt or dropped, and a body of the same text, of the same bytes too
\* unless the charset has several for a text.
UneditedIsSent ==
    post = originalDraft => \A request \in wire :
        LET text == Decode(shown.type, shown.body)
        IN  /\ SubSeq(request.headers, 2, Len(request.headers) - 2) =
                   replay_headers(shown.headers)
            /\ Survives(text) => Decode(shown.type, request.body) = text
            /\ Survives(text) /\ shown.type \notin Ambiguous => request.body = shown.body

\* The same server takes the replay for a request of the same path and query,
\* so that its wrapper captures it; unless the path as decoded still has a "%"
\* with digits or a byte that is no ASCII and the server gave no raw URI, or it
\* gave one in absolute form.
SameResource ==
    \A request \in wire :
        \/ /\ Arrival(request.target) = [path |-> captured.path, query |-> captured.query]
           /\ Route(Arrival(request.target).path) = "captured"
        \/ /\ captured.provenance # "server_specific"
           /\ \/ \E i \in DOMAIN captured.path : Escaped(captured.path, i)
              \/ WideBytes \cap Range(captured.path) # {}
        \/ Authority \in Range(captured.url.target)
=============================================================================
