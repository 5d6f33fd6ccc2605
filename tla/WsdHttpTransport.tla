-------------------------- MODULE WsdHttpTransport --------------------------
(***************************************************************************)
(* BoundedWsdHttpTransport::post() of src/src/wsd_http_transport.cpp and   *)
(* the WinHTTP executor under it: one request and one bounded response,    *)
(* abandoned wherever the code reads the cancel flag. An action ends where *)
(* WinHTTP is called and may wait. Sizes are machine words.                *)
(***************************************************************************)
EXTENDS MachineWords, WsdCancellation

CONSTANTS
  MaxResponseBytes,   \* WsdHttpLimits::max_response_bytes
  MaxUriBytes,        \* WsdHttpLimits::max_uri_bytes
  MaxRequestBytes,    \* WsdHttpLimits::max_request_bytes
  MediaType           \* the content types, without their parameters and case

ASSUME HttpAssumption ==
  /\ Word \in Nat
  /\ MaxResponseBytes \in 1 .. Word - 1
  /\ {MaxUriBytes, MaxRequestBytes} \subseteq Nat \ {0}

VARIABLES
  post,      \* where post() is: "idle", "sending" or "reading"
  sent,      \* the content type of the request
  reply,     \* what WinHTTP says of the response: [status, type, redirected]
  body,      \* the size of the body read so far
  answered   \* what the last call came to

httpVars == <<post, sent, reply, body, answered>>

Statuses == {199, 200, 299, 300}
NoReply == [status |-> 0, type |-> "none", redirected |-> FALSE]
Replies == [status : Statuses, type : MediaType, redirected : BOOLEAN]

HttpInit ==
  /\ post = "idle" /\ body = 0
  /\ sent = "none" /\ reply = NoReply
  /\ answered = "none"

\* The call throws, or returns the response.
HttpAnswer(outcome) ==
  /\ post' = "idle" /\ body' = 0
  /\ sent' = "none" /\ reply' = NoReply
  /\ answered' = outcome

\* is_safe_transport_uri() of a URI whose parts are these: http or https to an IPv4
\* literal, with a port that a machine can have and nothing after the path.
SafeUri(uri) ==
  /\ uri.scheme \in {"http", "https"}
  /\ uri.ipv4 /\ ~uri.user /\ ~uri.query
  /\ \A i \in DOMAIN uri.port : uri.port[i] \in 1 .. 65535

\* validate_request().
ValidRequest(uri, uriBytes, destinationIsToken, payload) ==
  /\ uriBytes \in 1 .. MaxUriBytes /\ SafeUri(uri)
  /\ destinationIsToken
  /\ payload \in 1 .. MaxRequestBytes

\* post() up to WinHttpSendRequest(): nothing is sent for a call already cancelled.
Post(uri, uriBytes, destinationIsToken, type, payload) ==
  /\ post = "idle"
  /\ IF ~ValidRequest(uri, uriBytes, destinationIsToken, payload)
     THEN HttpAnswer("invalid")
     ELSE IF cancelled
          THEN HttpAnswer("cancelled")
          ELSE post' = "sending" /\ sent' = type /\ answered' = "none" /\ UNCHANGED <<reply, body>>

\* WinHttpReceiveResponse() returns.
ResponseArrives(headers) ==
  /\ post = "sending"
  /\ IF cancelled
     THEN HttpAnswer("cancelled")
     ELSE post' = "reading" /\ reply' = headers /\ UNCHANGED <<sent, body, answered>>

\* A call of WinHTTP fails, from opening its handles to a timeout, or the response has no content type.
HttpFails == post \in {"sending", "reading"} /\ HttpAnswer("http_failed")

\* A mutant: the limit is for each piece and not for the whole.
PieceArrivesAlone(available, read) ==
  /\ post = "reading"
  /\ IF available > MaxResponseBytes
     THEN HttpAnswer("too_large")
     ELSE IF cancelled
          THEN HttpAnswer("cancelled")
          ELSE body' = (body + read) % Word /\ UNCHANGED <<post, sent, reply, answered>>

\* A mutant: the loop does not read the flag.
PieceArrivesRegardless(available, read) ==
  /\ post = "reading"
  /\ IF available > Minus(MaxResponseBytes, body)
     THEN HttpAnswer("too_large")
     ELSE body' = (body + read) % Word /\ UNCHANGED <<post, sent, reply, answered>>

\* A round of the loop in which WinHTTP has data and delivers some of it, and the
\* beginning of the next round.
PieceArrives(available, read) ==
  /\ post = "reading"
  /\ IF available > Minus(MaxResponseBytes, body)
     THEN HttpAnswer("too_large")
     ELSE IF cancelled
          THEN HttpAnswer("cancelled")
          ELSE body' = (body + read) % Word /\ UNCHANGED <<post, sent, reply, answered>>

\* The round in which WinHTTP has no more data, and the rest of post(). The WinHTTP
\* executor never reports a redirection; another IWsdHttpExecutor may.
EndOfBody ==
  /\ post = "reading"
  /\ HttpAnswer(IF cancelled
            THEN "cancelled"
            ELSE IF \/ reply.redirected \/ reply.status \notin 200 .. 299
                    \/ body > MaxResponseBytes \/ reply.type # sent
                 THEN "rejected" ELSE "accepted")

-----------------------------------------------------------------------------
Uris == [scheme : {"http", "ftp"}, ipv4 : {TRUE}, user : BOOLEAN, query : {FALSE},
         port : {<<>>, <<0>>, <<65535>>}]

WinHttpReturns ==
  \/ \E headers \in Replies : ResponseArrives(headers)
  \/ HttpFails
  \/ \E available \in Bytes \ {0} : \E read \in 1 .. available : PieceArrives(available, read)
  \/ EndOfBody

HttpNext ==
  \/ /\ \E uri \in Uris, uriBytes \in {1, MaxUriBytes + 1}, destinationIsToken \in BOOLEAN,
           type \in MediaType, payload \in {0, 1, MaxRequestBytes + 1} :
          Post(uri, uriBytes, destinationIsToken, type, payload)
     /\ UNCHANGED cancelled
  \/ WinHttpReturns /\ UNCHANGED cancelled
  \/ RequestCancel /\ UNCHANGED httpVars
  \/ post = "idle" /\ FreshFlag /\ UNCHANGED httpVars

\* Every WinHTTP call returns, by its timeout at the latest.
HttpFairness == WF_<<httpVars, cancelled>>(WinHttpReturns /\ UNCHANGED cancelled)

HttpSpec == HttpInit /\ cancelled = FALSE /\ [][HttpNext]_<<httpVars, cancelled>>

-----------------------------------------------------------------------------
HttpTypeOK ==
  /\ post \in {"idle", "sending", "reading"}
  /\ sent \in MediaType \cup {"none"} /\ reply \in Replies \cup {NoReply}
  /\ body \in Bytes
  /\ answered \in {"none", "invalid", "cancelled", "http_failed", "too_large", "rejected", "accepted"}

\* However the server cuts the response into pieces, the body never outgrows the
\* limit, so that the unsigned subtraction of the read loop never wraps around.
BodyBounded == body <= MaxResponseBytes

\* A flag that is set while post() waits ends the call at the next return of
\* WinHTTP, with no response and without another wait for the network.
CancelEndsPost ==
  [][cancelled /\ post # "idle" =>
       post' = "idle" /\ answered' \in {"cancelled", "http_failed", "too_large"}]_httpVars

\* post() returns in the end: the body has a limit and every piece of it is nonempty.
PostReturns == post # "idle" ~> post = "idle"
=============================================================================
