------------------------------ MODULE EditText ------------------------------
(***************************************************************************)
(* The text side of Edit & Replay: replay/edit.py, replay_headers of       *)
(* capture/headers.py, the headers send_request puts on the wire, and the  *)
(* browser's textarea.  A text is a sequence of characters, and its bytes  *)
(* one of the symbols that stand for the bytes of each; a header is a name *)
(* with the sequence of its value's characters, or its media type with     *)
(* charset for a Content-Type.                                             *)
(***************************************************************************)
EXTENDS Integers, SequencesExt

CONSTANTS
    Lower,              \* str.lower on the header names in use
    MaxHeaderLines,     \* MAX_HEADER_LINES
    Fresh               \* the nonce of the attempt

\* Content types with charset, by what becomes of them: text in UTF-8 and in
\* ISO-8859-1; in UTF-16 or utf-8-sig; in UTF-7; no text, and none in UTF-16;
\* malformed or of a charset Python does not know; a charset whose codec raises
\* something else than LookupError.
Textual  == {"none", "text", "latin", "marked", "loose"}
Marked   == {"marked", "binary marked"}
Unusable == {"malformed"}
Raising  == {"odd"}
ContentType == Textual \cup Marked \cup {"binary"} \cup Unusable \cup Raising

\* A text has more than one encoding in these.
Ambiguous == Marked \cup {"loose"}

\* "wide" is not in ISO-8859-1, and "bad" is what the charset does not decode.
Decodable(bytes)         == "bad" \notin Range(bytes)
Encodable(type, text)    == type = "latin" => "wide" \notin Range(text)

\* bytes.decode.  The byte-order marks are "mark", which str.encode adds, even
\* to nothing, and "swapped"; "alt" are the bytes of "a" that UTF-7 decodes and
\* does not produce.  All else is its own character's.
Decode(type, bytes) ==
    IF type \in Marked /\ bytes # <<>> /\ Head(bytes) \in {"mark", "swapped"} THEN Tail(bytes)
    ELSE IF type = "loose"
    THEN [i \in DOMAIN bytes |-> IF bytes[i] = "alt" THEN "a" ELSE bytes[i]]
    ELSE bytes

\* str.encode
Encode(type, text) == IF type \in Marked THEN <<"mark">> \o text ELSE text

Header(name, value) == [name |-> name, value |-> value]

\* A comprehension with "if": the items of s at the positions in kept.  (Not
\* SelectSeq, of which the provers know nothing.)
Subsequence(s, kept) ==
    LET upto[i \in 0..Len(s)] ==
            IF i = 0 THEN <<>>
            ELSE IF i \in kept THEN Append(upto[i - 1], s[i]) ELSE upto[i - 1]
    IN  upto[Len(s)]

Named(headers, name) ==
    Subsequence(headers, {i \in DOMAIN headers : Lower[headers[i].name] = name})

-----------------------------------------------------------------------------
(* From the row to the form. *)

headers_to_text(headers) ==
    [i \in DOMAIN headers |-> Header(headers[i].name, <<"SP">> \o headers[i].value)]

\* What editable_body answers: the body may be edited, may not, or an
\* exception escapes.
editable_body(row) ==
    IF row.incomplete THEN "refused"
    ELSE IF row.body = <<>> THEN "allowed"
    ELSE IF row.type \in Raising THEN "raised"
    ELSE IF row.type \in Textual /\ Decodable(row.body) THEN "allowed"
    ELSE "refused"

\* A text between <textarea> and </textarea>: HTML has one kind of line end,
\* U+FFFD for a NUL, and ignores a line end that follows the tag.
Normalized(text) ==
    LET second == {i \in DOMAIN text : i > 1 /\ text[i] = "LF" /\ text[i - 1] = "CR"}
        ends   == Subsequence(text, DOMAIN text \ second)
    IN  [i \in DOMAIN ends |-> IF ends[i] = "CR" THEN "LF"
                               ELSE IF ends[i] = "NUL" THEN "wide" ELSE ends[i]]

Textarea(text) ==
    LET lines == Normalized(text)
    IN  IF lines # <<>> /\ Head(lines) = "LF" THEN Tail(lines) ELSE lines

-----------------------------------------------------------------------------
(* From the form to the attempt. *)

\* Names that are no tokens, lines without a colon and an empty name among
\* them, are not in DOMAIN Lower.
EmptyLine == Header("", <<>>)

NonEmpty(text) == Subsequence(text, {i \in DOMAIN text : text[i] # EmptyLine})
\* Mutated form: the value is stripped of all its spaces.
ValueStripped(line) == SelectSeq(line.value, LAMBDA c : c # "SP")

\* value[1:] if it starts with a space
Value(line) ==
    IF line.value # <<>> /\ Head(line.value) = "SP" THEN Tail(line.value)
                                                    ELSE line.value

\* Sizes beyond 16 KiB and 256 KiB are refused as control characters are.
ValidLine(line) ==
    /\ line.name \in DOMAIN Lower
    /\ {"CTL", "wide"} \cap Range(line.value) = {}

HeadersValid(text) ==
    /\ Len(NonEmpty(text)) <= MaxHeaderLines
    /\ \A i \in DOMAIN NonEmpty(text) : ValidLine(NonEmpty(text)[i])

parse_headers(text) ==
    [i \in DOMAIN NonEmpty(text) |->
        Header(NonEmpty(text)[i].name, Value(NonEmpty(text)[i]))]

\* The Content-Type of the edited headers, as one of ContentType: the media
\* type is stripped of spaces.
EditedType(headers) ==
    LET types    == Named(headers, "content-type")
        value    == types[1].value
        stripped == Subsequence(value, {i \in DOMAIN value : value[i] # "SP"})
    IN  IF types = <<>> THEN "none"
        ELSE IF Len(types) > 1 THEN "malformed"
        ELSE IF value = <<>> THEN "none"
        ELSE IF Len(stripped) = 1 /\ stripped[1] \in ContentType \ {"none"}
        THEN stripped[1]
        ELSE "malformed"

\* What encode_edited_body answers: the bytes of Encode, or an exception.
encode_edited_body(headers, text) ==
    LET type == EditedType(headers)
    IN  IF type \in Raising THEN "raised"
        ELSE IF type \in Unusable \/ ~Encodable(type, text) THEN "invalid"
        ELSE IF text # <<>> /\ type \notin Textual THEN "invalid"
        ELSE "encoded"

EditedBytes(headers, text) == Encode(EditedType(headers), text)

-----------------------------------------------------------------------------
(* From the attempt to the wire. *)

HOP_BY_HOP_HEADERS ==
    {"connection", "keep-alive", "proxy-authenticate", "proxy-authorization",
     "te", "trailer", "transfer-encoding", "upgrade"}

Nonce == "x-django-http-inspector-replay"
Rebuilt == {"content-length", "host", Nonce}
\* Mutated form: names are compared as they are written.
replay_headers_cased(headers) ==
    SelectSeq(headers, LAMBDA h : h.name \notin HOP_BY_HOP_HEADERS \cup Rebuilt)

replay_headers(headers) ==
    Subsequence(headers,
                {i \in DOMAIN headers :
                    Lower[headers[i].name] \notin HOP_BY_HOP_HEADERS \cup Rebuilt})

\* putrequest, putheader and endheaders of send_request.
OnWire(target, host, headers, body) ==
    [target  |-> target,
     headers |-> <<Header("host", <<host>>)>> \o replay_headers(headers)
                 \o <<Header(Nonce, <<Fresh>>),
                      Header("content-length", <<Len(body)>>)>>,
     body    |-> body]
=============================================================================
