---------------------------- MODULE MCEditReplay ----------------------------
(***************************************************************************)
(* A dozen requests and a few texts: headers in either case, hop-by-hop and *)
(* rebuilt ones, spaced values, every kind of content type, bodies that a  *)
(* textarea or their charset changes, targets with escapes of every kind, with  *)
(* and without a raw URI, and with proxies before the server.              *)
(***************************************************************************)
EXTENDS EditReplay

MCNames == {"Host", "Connection", "Te", "Content-Length", "Content-Type", "X", "Y"}

MCLower ==
    [name \in MCNames |->
        CASE name = "Host" -> "host"
          [] name = "Connection" -> "connection"
          [] name = "Te" -> "te"
          [] name = "Content-Length" -> "content-length"
          [] name = "Content-Type" -> "content-type"
          [] name = "X" -> "x"
          [] OTHER -> "y"]
    @@ [name \in {"host", "connection", "te", "content-length", "content-type", "x",
                  "y", Nonce} |-> name]

MCTitle == "HTTP_HOST" :> "Host" @@ "HTTP_CONNECTION" :> "Connection"
           @@ "HTTP_TE" :> "Te" @@ "HTTP_X" :> "X" @@ "HTTP_Y" :> "Y"

MCByte == "25" :> "%" @@ "3F" :> "?" @@ "C3" :> "xC3" @@ "83" :> "x83"

MCEscape == "?" :> <<"%", "3F">> @@ "xC3" :> <<"%", "C3", "%", "83">>
            @@ "x83" :> <<"%", "C2", "%", "83">>

MCInspectorPath == <<"/", "i", "/">>
MCExcludePaths == {<<"/", "s", "/">>}

-----------------------------------------------------------------------------

\* A request for target, the environ the server makes of it, and its row.
Exchange(target, gives_raw, proxies, type, length, http, body, incomplete) ==
    [target     |-> target,
     environ    |-> Arrival(target) @@ proxies @@
                    [raw |-> IF gives_raw THEN target ELSE <<>>, scheme |-> "http", host |-> "h",
                     content_type |-> type, content_length |-> length,
                     http |-> <<Header("HTTP_HOST", <<"h">>)>> \o http],
     body       |-> body,
     incomplete |-> incomplete]

NoProxy == [trusted |-> FALSE, x_proto |-> <<>>, x_host |-> <<>>,
            forwarded |-> <<[proto |-> "https", host |-> "other"]>>]
Hops == [trusted |-> TRUE, x_proto |-> <<"http", "https">>, x_host |-> <<"a@b", "p">>,
         forwarded |-> <<[proto |-> "https", host |-> "f"],
                         [proto |-> "", host |-> ""]>>]
BadHop == [Hops EXCEPT !.x_host = <<"p", "a@b">>]

Plain == <<"/", "a">>

MCExchanges ==
    {Exchange(<<"/", "%", "3F", "?", "a">>, FALSE, Hops, "text", <<"4">>,
              <<Header("HTTP_X", <<"v", "SP", "v">>), Header("HTTP_Y", <<"SP">>)>>,
              <<"a", "wide">>, FALSE),
     Exchange(<<"/", "%", "25", "25", "?", "a", "?">>, TRUE, NoProxy, "latin", <<"3">>,
              <<Header("HTTP_CONNECTION", <<"X">>)>>, <<"a", "CR", "LF">>, FALSE),
     Exchange(<<"/", "%", "25", "a">>, FALSE, NoProxy, "none", <<"2">>, <<>>,
              <<"LF", "bad">>, FALSE),
     Exchange(<<"/", "%", "C3">>, FALSE, NoProxy, "binary", <<>>,
              <<Header("HTTP_TE", <<"v">>)>>, <<>>, FALSE),
     Exchange(<<Authority, "/", "a">>, TRUE, NoProxy, "none", <<>>, <<>>, <<>>, FALSE),
     Exchange(<<"/", "a", "?", "xC3">>, FALSE, NoProxy, "none", <<>>, <<>>, <<>>, FALSE),
     Exchange(Plain, FALSE, BadHop, "none", <<>>, <<>>, <<>>, FALSE),
     Exchange(Plain, FALSE, NoProxy, "binary", <<"1">>, <<>>, <<"a">>, FALSE),
     Exchange(Plain, FALSE, NoProxy, "odd", <<"1">>, <<>>, <<"a">>, FALSE),
     Exchange(Plain, FALSE, NoProxy, "text", <<"2">>, <<Header("HTTP_X", <<"CTL">>)>>,
              <<"a">>, TRUE),
     Exchange(Plain, FALSE, NoProxy, "marked", <<"2">>, <<>>, <<"swapped", "wide">>, FALSE),
     Exchange(Plain, FALSE, NoProxy, "loose", <<"2">>, <<>>, <<"alt", "LF">>, FALSE),
     Exchange(Plain, FALSE, NoProxy, "text", <<"2">>, <<>>, <<"a", "NUL">>, FALSE)}

Line(name, value) == Header(name, value)

MCHeaderTexts ==
    {<<>>,
     <<Line("host", <<"v">>), Line("", <<>>), Line("connection", <<"SP", "v">>)>>,
     <<Line(Nonce, <<"v">>), Line("content-length", <<"v">>), Line("te", <<"v">>)>>,
     <<Line("content-type", <<"SP", "latin">>)>>,
     <<Line("content-type", <<"SP", "SP", "binary marked">>)>>,
     <<Line("Content-Type", <<"SP", "text">>), Line("content-type", <<"SP", "text">>)>>,
     <<Line("content-type", <<"odd">>)>>,
     <<Line("no colon", <<>>)>>,
     <<Line("", <<"v">>)>>,
     <<Line("x", <<"wide">>)>>,
     [i \in 1..(MaxHeaderLines + 1) |-> Line("x", <<"v">>)]}

MCBodyTexts == {<<>>, <<"LF", "a">>, <<"wide">>}
=============================================================================
