--------------------------- MODULE CapturedRequest ---------------------------
(***************************************************************************)
(* From a request line to the row and back to a request line: the routing  *)
(* of InspectorWSGI.__call__ (wrapper/wsgi.py, config.py), the URL and the *)
(* headers it captures (capture/url.py, capture/headers.py), and the       *)
(* target a replay asks for (replay/target.py).  A target is a sequence of *)
(* characters in which "%" may be followed by two digits, taken as one     *)
(* character; so is the scheme and host of a target in absolute form.      *)
(* Targets have no fragment.  External: the WSGI server.                   *)
(***************************************************************************)
EXTENDS EditText

CONSTANTS
    Byte,           \* what the two digits after a "%" stand for
    Escape,         \* quote() of each character that it does not leave alone
    Authority,      \* "http://host" before a target
    Title,          \* the header name of each HTTP_ key of environ
    Enabled,        \* ENABLED
    InspectorPath,  \* PATH, with its last "/"
    ExcludePaths,   \* EXCLUDE_PATHS, each with its last "/"
    NoUrl           \* the empty URL

-----------------------------------------------------------------------------
(* The server. *)

\* Are these the two digits of an escape?
Escaped(text, i) ==
    i \in DOMAIN text /\ i > 1 /\ text[i - 1] = "%" /\ text[i] \in DOMAIN Byte

\* A "%" without digits is left as it is.
Unquote(text) ==
    FlattenSeq([i \in DOMAIN text |->
                   IF Escaped(text, i)          THEN <<Byte[text[i]]>>
                   ELSE IF Escaped(text, i + 1) THEN <<>>
                   ELSE                              <<text[i]>>])

OriginForm(target) == IF Head(target) = Authority THEN Tail(target) ELSE target

\* PATH_INFO and QUERY_STRING; SCRIPT_NAME is empty.
Arrival(target) ==
    LET origin == OriginForm(target)
        mark   == SelectInSeq(origin, LAMBDA c : c = "?")
        path   == IF mark = 0 THEN origin ELSE SubSeq(origin, 1, mark - 1)
    IN  [path  |-> Unquote(path),
         query |-> IF mark = 0 THEN <<>> ELSE SubSeq(origin, mark + 1, Len(origin))]

Character == {Authority} \cup STRING

\* A request for target has come, and environ is what the server made of it.
Received(target, environ) ==
    /\ target # <<>> /\ target \in Seq(Character)
    /\ OriginForm(target) # <<>> /\ Head(OriginForm(target)) = "/"
    /\ environ.path = Arrival(target).path /\ environ.query = Arrival(target).query
    /\ environ.raw \in {<<>>, target}

-----------------------------------------------------------------------------
(* __call__ *)

Below(base, path) == path = Front(base) \/ IsPrefix(base, path)

is_inspector_path(path) == Below(InspectorPath, path)

is_excluded_path(path) ==
    is_inspector_path(path) \/ \E prefix \in ExcludePaths : Below(prefix, path)

Route(path) ==
    IF ~Enabled                     THEN "application"
    ELSE IF is_inspector_path(path) THEN "inspector"
    ELSE IF is_excluded_path(path)  THEN "application"
    ELSE "captured"

request_headers_from_environ(environ) ==
    (IF environ.content_type = "none" THEN <<>>
     ELSE <<Header("Content-Type", <<environ.content_type>>)>>)
    \o (IF environ.content_length = <<>> THEN <<>>
        ELSE <<Header("Content-Length", environ.content_length)>>)
    \o [i \in DOMAIN environ.http |->
            Header(Title[environ.http[i].name], environ.http[i].value)]

-----------------------------------------------------------------------------
(* build_url *)

\* The first of the values that is there, as "or" chooses.
FirstOf(values) ==
    LET given == SelectSeq(values, LAMBDA v : v # "")
    IN  IF given = <<>> THEN "" ELSE Head(given)

NoForward == [proto |-> "", host |-> ""]

\* split(",")[-1]: the hop nearest to the application.
Nearest(hops, missing) == IF hops = <<>> THEN missing ELSE Last(hops)

\* trusted: is REMOTE_ADDR that of a trusted proxy?
Scheme(environ) ==
    IF environ.trusted
    THEN FirstOf(<<Nearest(environ.forwarded, NoForward).proto,
                   Nearest(environ.x_proto, ""), environ.scheme>>)
    ELSE environ.scheme

Host(environ) ==
    IF environ.trusted
    THEN FirstOf(<<Nearest(environ.forwarded, NoForward).host,
                   Nearest(environ.x_host, ""), environ.host>>)
    ELSE environ.host

\* Mutated form: "?" is among the safe characters.
quote_query(text) ==
    FlattenSeq([i \in DOMAIN text |-> IF text[i] \in DOMAIN Escape \ {"?"}
                                      THEN Escape[text[i]] ELSE <<text[i]>>])

\* quote(text, safe="/%:@"), in UTF-8.
quote(text) ==
    FlattenSeq([i \in DOMAIN text |-> IF text[i] \in DOMAIN Escape
                                      THEN Escape[text[i]] ELSE <<text[i]>>])

\* RAW_URI or REQUEST_URI if the server gives one.
Target(environ) ==
    IF environ.raw # <<>>
    THEN (IF Head(environ.raw) = "/" THEN environ.raw ELSE <<"/">> \o environ.raw)
    ELSE quote(environ.path)
         \o (IF environ.query = <<>> THEN <<>> ELSE <<"?">> \o environ.query)

\* "a@b" stands for the hosts with a CR, LF, "/" or "@".
build_url(environ) ==
    IF Scheme(environ) \notin {"http", "https"} \/ Host(environ) \in {"", "a@b"}
    THEN NoUrl
    ELSE [scheme |-> Scheme(environ), host |-> Host(environ),
          target |-> Target(environ)]

provenance(environ) ==
    IF build_url(environ) # NoUrl /\ environ.raw # <<>> THEN "server_specific"
    ELSE IF environ.trusted THEN "trusted_proxy" ELSE "reconstructed"

\* The row of ExchangeCapture, with the body that finalize adds.
ExchangeCapture(environ, body, incomplete) ==
    [url        |-> build_url(environ),
     provenance |-> provenance(environ),
     path       |-> environ.path,
     query      |-> environ.query,
     headers    |-> request_headers_from_environ(environ),
     type       |-> environ.content_type,
     body       |-> body,
     incomplete |-> incomplete]

-----------------------------------------------------------------------------
(* resolve_target: path and query of the URL again, without a "?" that       *)
(* nothing follows.                                                          *)

request_target(url) ==
    IF SelectInSeq(url.target, LAMBDA c : c = "?") = Len(url.target)
    THEN Front(url.target) ELSE url.target

\* Bytes that are no ASCII, as the characters of ISO-8859-1 that environ has.
WideBytes == {c \in DOMAIN Escape : Len(Escape[c]) > 2}

\* quote() leaves "%" alone, but no "?"; what it makes of ASCII is one escape,
\* which stands for the character.
ASSUME QuoteAssumption ==
    /\ "?" \in DOMAIN Escape /\ "%" \notin DOMAIN Escape
    /\ {"%", "?"} \cap DOMAIN Byte = {}
    /\ \A c \in DOMAIN Escape \ WideBytes :
          \E digits \in DOMAIN Byte : Escape[c] = <<"%", digits>> /\ Byte[digits] = c

\* http.client raises on anything else.
Sendable(target) == Range(target) \cap ({" "} \cup WideBytes) = {}
=============================================================================
