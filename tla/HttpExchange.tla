---------------------------- MODULE HttpExchange ----------------------------
(***************************************************************************)
(* HTTP requests from an instrumented client to a service behind the       *)
(* middlewares of the library: the metrics of metrics.InstrumentHTTPHandler- *)
(* WithRules outermost, then the validation of httpmiddleware.New, then    *)
(* jwt.Middleware, then the application's handler. The requests run        *)
(* concurrently; a handler may panic, a response may be lost.              *)
(***************************************************************************)
EXTENDS UrlTemplate, FiniteSets

CONSTANTS
    Requests,
    SpecPaths,      \* the paths of the OpenAPI document
    Calls,          \* the calls of the client: a template and the values of its variables
    Claims,         \* the claims the service extracts
    Confs           \* sets of options the service may be built with

VARIABLES
    rules,      \* ToInstrumentRules of the document, fixed when the service starts
    conf,       \* the configuration of jwt.Middleware
    gauge,      \* http_server_active_requests_count by uri
    template,   \* the template of the client
    url,        \* the path of the request as sent
    pc,         \* where each request is
    uri,        \* the label of the gauge the request has incremented
    status,     \* statusCode of the response writers that wrap the response
    sent,       \* the status line net/http has written, or "none"
    misused,    \* the handler broke the contract of http.ResponseWriter
    ctx,        \* the claims that the handler finds when it is called
    observed,   \* the observation of each request by the summaries of the server
    seen        \* the observation of the client

vars == <<rules, conf, gauge, template, url, pc, uri, status, sent, misused, ctx, observed, seen>>

Codes == {"200", "500", "103"}
Labels == SpecPaths \cup { Decoded(Expand(c[1], c[2])) : c \in Calls }

None == [status |-> "none", uri |-> <<>>]

(* WithRequiredToken, WithIgnoreErrors, WithStoredTokenInContext and       *)
(* WithErrorHandler; WithClaimsToExtract gives Claims. No option sets      *)
(* ignoreNotExistingClaim or signatureVerificationIsEnabled.               *)
Options == {"requireToken", "ignoreErrors", "storedToken", "errorHandler"}
ASSUME ConfsAssumption == Confs \subseteq SUBSET Options

(* Finitely many requests and paths; a path is a sequence of segments.     *)
ASSUME RequestsAssumption == IsFiniteSet(Requests)
ASSUME PathsAssumption ==
    /\ IsFiniteSet(SpecPaths) /\ SpecPaths \subseteq Seq(STRING)
    /\ \A c \in Calls : c[1] \in SpecPaths /\ c[2] \in [DOMAIN c[1] -> STRING]

Init ==
    /\ rules \in ToInstrumentRules(SpecPaths)
    /\ conf \in Confs
    /\ gauge = [l \in Labels |-> 0]
    /\ template = [r \in Requests |-> <<>>]
    /\ url = [r \in Requests |-> <<>>]
    /\ pc = [r \in Requests |-> "idle"]
    /\ uri = [r \in Requests |-> <<>>]
    /\ status = [r \in Requests |-> "200"]
    /\ sent = [r \in Requests |-> "none"]
    /\ misused = [r \in Requests |-> FALSE]
    /\ ctx = [r \in Requests |-> {}]
    /\ observed = [r \in Requests |-> None]
    /\ seen = [r \in Requests |-> None]

Goto(r, from, to) == pc[r] = from /\ pc' = [pc EXCEPT ![r] = to]

service == <<rules, conf>>
request == <<template, url>>
response == <<status, sent, misused>>

-----------------------------------------------------------------------------
(* The client: the template is expanded, or the URL given as it is.        *)
Send(r) ==
    /\ Goto(r, "idle", "sent")
    /\ \E c \in Calls :
        /\ template' = [template EXCEPT ![r] = c[1]]
        /\ url' = [url EXCEPT ![r] = Expand(c[1], c[2])]
    /\ UNCHANGED <<service, gauge, uri, response, ctx, observed, seen>>

-----------------------------------------------------------------------------
(* The server. The layers of the summaries wrap the writer; the layer of   *)
(* the gauge increments it.                                                *)
InFlight(r) ==
    /\ Goto(r, "sent", "validate")
    /\ uri' = [uri EXCEPT ![r] = URIApplyingRules(url[r], rules)]
    /\ gauge' = [gauge EXCEPT ![uri'[r]] = @ + 1]
    /\ UNCHANGED <<service, request, response, ctx, observed, seen>>

(* net/http: the first status that is not informational is sent.           *)
Header(r, code) ==
    /\ status' = [status EXCEPT ![r] = code]
    /\ sent' = [sent EXCEPT ![r] = IF @ = "none" /\ code # "103" THEN code ELSE @]
    /\ misused' = [misused EXCEPT ![r] = @ \/ sent[r] # "none" \/ code = "103"]

(* The router looks at the decoded path.                                   *)
Routed(r) == \E p \in SpecPaths : Matches(p, Decoded(url[r]))

(* No route, for the path or for the method: 404; an invalid request: 400. *)
Reject(r) ==
    /\ Goto(r, "validate", "leave")
    /\ Header(r, "404") \/ (Routed(r) /\ Header(r, "400"))
    /\ UNCHANGED <<service, gauge, request, uri, ctx, observed, seen>>

Validate(r) ==
    /\ Goto(r, "validate", "token")
    /\ Routed(r)
    /\ UNCHANGED <<service, gauge, request, uri, response, ctx, observed, seen>>

-----------------------------------------------------------------------------
(* jwt.Middleware. An Authorization header has a scheme and a token: not   *)
(* three parts, not base64, not JSON, or JSON in which some claims exist.  *)
Headers ==
    [scheme : {"none", "Basic", "Bearer", "bearer", "BEARER"},
     token : {{"parts"}, {"base64"}, {"json"}} \cup SUBSET Claims]

IsToken(h) == h.token \subseteq Claims

(* processToken: the outcomes for a header. The claims are put into the    *)
(* context one by one, in any order, until one is missing; the token last. *)
Outcomes(h) ==
    LET found == Claims \cap h.token
        stored == IF "storedToken" \in conf THEN {"token"} ELSE {}
        result(err, claims) == [err |-> err, claims |-> claims]
    IN  CASE "requireToken" \notin conf -> {result(FALSE, {})}
          [] "requireToken" \in conf /\ (h.scheme \notin {"Bearer", "bearer"} \/ ~IsToken(h)) ->
                {result(TRUE, {})}
          [] "requireToken" \in conf /\ h.scheme \in {"Bearer", "bearer"} /\ IsToken(h) ->
                IF found = Claims THEN {result(FALSE, found \cup stored)}
                ELSE { result(TRUE, s) : s \in SUBSET found }

CallHandler(r, o) ==
    /\ Goto(r, "token", "called")
    /\ ctx' = [ctx EXCEPT ![r] = o.claims]
    /\ UNCHANGED response

BugToken(r) ==
    /\ pc[r] = "token"
    /\ \E h \in Headers : \E o \in Outcomes(h) : CallHandler(r, o)
    /\ UNCHANGED <<service, gauge, request, uri, observed, seen>>

(* errorHandle: a 400, or a function of the application, which may write,  *)
(* return or panic as the handler may.                                     *)
ErrorHandle(r) ==
    /\ IF "errorHandler" \in conf
       THEN Goto(r, "token", "handler") /\ UNCHANGED response
       ELSE Goto(r, "token", "leave") /\ Header(r, "400")
    /\ UNCHANGED ctx

(* Handler and Handle: the error goes to errorHandle, or is ignored.       *)
Token(r) ==
    /\ pc[r] = "token"
    /\ \E h \in Headers : \E o \in Outcomes(h) :
        \/ (~o.err \/ "ignoreErrors" \in conf) /\ CallHandler(r, o)
        \/ o.err /\ "ignoreErrors" \notin conf /\ ErrorHandle(r)
    /\ UNCHANGED <<service, gauge, request, uri, observed, seen>>

-----------------------------------------------------------------------------
(* The handler reads claims and token from its context.                    *)
ReadContext(r) ==
    /\ Goto(r, "called", "handler")
    /\ ctx' = [ctx EXCEPT ![r] = {}]
    /\ UNCHANGED <<service, gauge, request, uri, response, observed, seen>>

(* The application's handler, or error handler, writes a status, writes or *)
(* flushes, returns, or panics.                                            *)
WriteHeader(r) ==
    /\ pc[r] = "handler"
    /\ \E code \in Codes : Header(r, code)
    /\ UNCHANGED <<service, gauge, request, pc, uri, ctx, observed, seen>>

Write(r) ==
    /\ pc[r] = "handler"
    /\ sent' = [sent EXCEPT ![r] = IF @ = "none" THEN "200" ELSE @]
    /\ UNCHANGED <<service, gauge, request, pc, uri, status, misused, ctx, observed, seen>>

HandlerReturns(r) ==
    /\ Goto(r, "handler", "leave")
    /\ UNCHANGED <<service, gauge, request, uri, response, ctx, observed, seen>>

BugHandlerPanics(r) ==
    /\ Goto(r, "handler", "aborted")
    /\ UNCHANGED <<service, gauge, request, uri, response, ctx, observed, seen>>

(* A panic unwinds all layers: only the deferred Dec runs.                 *)
HandlerPanics(r) ==
    /\ Goto(r, "handler", "aborted")
    /\ gauge' = [gauge EXCEPT ![uri[r]] = @ - 1]
    /\ UNCHANGED <<service, request, uri, response, ctx, observed, seen>>

Dec(r) ==
    /\ Goto(r, "leave", "observe")
    /\ gauge' = [gauge EXCEPT ![uri[r]] = @ - 1]
    /\ UNCHANGED <<service, request, uri, response, ctx, observed, seen>>

BugObserve(r) ==
    /\ Goto(r, "observe", "finish")
    /\ observed' = [observed EXCEPT ![r] =
            [status |-> IF sent[r] = "none" THEN "none" ELSE status[r], uri |-> URIApplyingRules(url[r], rules)]]
    /\ UNCHANGED <<service, gauge, request, uri, response, ctx, seen>>

(* The summaries of duration, response and request size, which find the    *)
(* label again and take the code of their writer.                          *)
Observe(r) ==
    /\ Goto(r, "observe", "finish")
    /\ observed' = [observed EXCEPT ![r] =
            [status |-> status[r], uri |-> URIApplyingRules(url[r], rules)]]
    /\ UNCHANGED <<service, gauge, request, uri, response, ctx, seen>>

(* net/http finishes the response; without a header it is a 200.           *)
Finish(r) ==
    /\ Goto(r, "finish", "answered")
    /\ sent' = [sent EXCEPT ![r] = IF @ = "none" THEN "200" ELSE @]
    /\ UNCHANGED <<service, gauge, request, uri, status, misused, ctx, observed, seen>>

-----------------------------------------------------------------------------
(* The response is gone: what was kept for it is not looked at again.      *)
Forget(r) ==
    /\ status' = [status EXCEPT ![r] = "200"]
    /\ sent' = [sent EXCEPT ![r] = "none"]
    /\ misused' = [misused EXCEPT ![r] = FALSE]

(* What a client counts a request under before rules are applied: the      *)
(* template, an argument of Get and Post or kept in the context of a       *)
(* request by NewHTTPRequest and NewHTTPRequestFromRequest, if there is    *)
(* one, else the decoded path, parsed as if it were a URL.                 *)
Label(r, given) == IF given THEN template[r] ELSE Cut(Decoded(url[r]))

BadEscape(r) == Contains(Cut(Decoded(url[r])), "%")

(* The rules a client or transport is built with: those of the server (in  *)
(* the role of kubeAPIRules, say) or none.                                 *)
ClientRules(hasRules) == IF hasRules THEN rules ELSE <<>>

(* The client instruments a response.                                      *)
Receive(r) ==
    /\ Goto(r, "answered", "over") \/ (Goto(r, "aborted", "over") /\ sent[r] # "none")
    /\ \E given \in BOOLEAN, hasRules \in BOOLEAN :
        /\ given \/ ~BadEscape(r)
        /\ seen' = [seen EXCEPT ![r] =
                [status |-> sent[r], given |-> given, hasRules |-> hasRules,
                 uri |-> URIApplyingRules(Label(r, given), ClientRules(hasRules))]]
    /\ Forget(r)
    /\ UNCHANGED <<service, gauge, request, uri, ctx, observed>>

(* Instrument panics if the decoded path has a percent sign that is not    *)
(* the beginning of an escape.                                             *)
ClientPanics(r) ==
    /\ Goto(r, "answered", "panicked") \/ (Goto(r, "aborted", "panicked") /\ sent[r] # "none")
    /\ BadEscape(r)
    /\ Forget(r)
    /\ UNCHANGED <<service, gauge, request, uri, ctx, observed, seen>>

(* The response is lost: client.Do returns an error, nothing is observed.  *)
Lose(r) ==
    /\ Goto(r, "answered", "over") \/ Goto(r, "aborted", "over")
    /\ Forget(r)
    /\ UNCHANGED <<service, gauge, request, uri, ctx, observed, seen>>

-----------------------------------------------------------------------------
Server(r) ==
    \/ InFlight(r) \/ Reject(r) \/ Validate(r) \/ Token(r) \/ ReadContext(r)
    \/ WriteHeader(r) \/ Write(r) \/ HandlerReturns(r) \/ HandlerPanics(r)
    \/ Dec(r) \/ Observe(r) \/ Finish(r)

Next == \E r \in Requests : Send(r) \/ Server(r) \/ Receive(r) \/ ClientPanics(r) \/ Lose(r)

Spec == Init /\ [][Next]_vars

-----------------------------------------------------------------------------
(* Properties                                                              *)

(* The gauge counts the requests that are being served, by uri, also after *)
(* handlers have panicked: instrumentHTTPHandlerInFlight.                  *)
GaugeIsInFlight ==
    \A l \in Labels :
        gauge[l] = Cardinality({ r \in Requests :
                        pc[r] \in {"validate", "token", "called", "handler", "leave"} /\ uri[r] = l })

(* A request that was answered is counted by the summaries under the uri   *)
(* of the gauge and the status that was sent; a request whose handler      *)
(* panicked is not counted. The status may differ only for a handler that  *)
(* calls WriteHeader late, twice or with an informational status, because  *)
(* the response writers of metrics.go keep the last code.                  *)
RecordedIsSent ==
    \A r \in Requests :
        /\ pc[r] = "aborted" => observed[r] = None
        /\ pc[r] = "answered" =>
            /\ observed[r].uri = uri[r]
            /\ misused[r] \/ observed[r].status = sent[r]

(* Client and server count a request under the same uri, whatever the      *)
(* order of the rules, if either the client has a template, which is the   *)
(* only path of the document that the URL matches; or it has the rules of  *)
(* the server, the URL has an empty RawPath and its decoded path no        *)
(* question mark, hash or percent sign, which Instrument would parse. A    *)
(* client without the rules needs a template without escapes.              *)
LabelsAgree ==
    \A r \in Requests :
        /\ observed[r] # None /\ seen[r] # None
        /\ IF seen[r].given
           THEN /\ { p \in SpecPaths : Matches(p, RawPath(url[r])) } = {template[r]}
                /\ seen[r].hasRules \/ Decoded(template[r]) = template[r]
           ELSE /\ seen[r].hasRules /\ IsDefault(url[r])
                /\ \A i \in DOMAIN url[r] : Decoded(url[r])[i] \notin {"x?y", "%", "m%65"}
        => seen[r].uri = observed[r].uri

(* With a required token and without WithIgnoreErrors the handler is       *)
(* called only with all the claims, and the token if it is to be stored,   *)
(* although processToken fills the context one claim at a time.            *)
ClaimsReachHandler ==
    \A r \in Requests :
        pc[r] = "called" /\ "requireToken" \in conf /\ "ignoreErrors" \notin conf =>
            ctx[r] = Claims \cup (IF "storedToken" \in conf THEN {"token"} ELSE {})

(* By the time the first request has been sent, expandURL has replaced     *)
(* each placeholder by its variable exactly if no character of several     *)
(* bytes stood before the end of a placeholder; for the other templates it *)
(* yields a wrong URL or panics, because strings.Index counts bytes and    *)
(* the slices count runes.                                                 *)
ExpandsByOffsets ==
    \A r \in Requests :
        pc[r] = "sent" /\ (\A q \in Requests \ {r} : pc[q] = "idle") =>
            ExpandedAsMeant = OffsetsAgree
=============================================================================
