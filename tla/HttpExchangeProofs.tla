------------------------- MODULE HttpExchangeProofs -------------------------
(***************************************************************************)
(* What HttpExchange promises, for any number of requests, every OpenAPI   *)
(* document, all calls of a client and all sets of claims.                 *)
(***************************************************************************)
EXTENDS HttpExchange, FiniteSetTheorems, TLAPS

(* A set of natural numbers that is not empty has its minimum in it.       *)
LEMMA MinIsIn ==
  ASSUME NEW S, S \subseteq Nat, S # {}
  PROVE  Min(S) \in S
  <1> DEFINE Less == {ss \in Nat \X Nat : ss[1] < ss[2]}
  <1>1. OpToRel(<, Nat) = Less
    BY DEF OpToRel
  <1>2. IsWellFoundedOn(Less, Nat)
    BY <1>1, NatLessThanWellFounded
  <1>3. \E x \in S : \A y \in S : ~(<<y, x>> \in Less)
    BY <1>2, WFMin
  <1>4. \E x \in S : \A y \in S : x <= y
    <2>1. PICK x \in S : \A y \in S : ~(<<y, x>> \in Less)
      BY <1>3
    <2>2. ASSUME NEW y \in S PROVE x <= y
      <3>1. x \in Nat /\ y \in Nat
        OBVIOUS
      <3>2. ~(y < x)
        BY <2>1, <3>1
      <3> QED BY <3>1, <3>2
    <2> QED BY <2>2
  <1> QED BY <1>4 DEF Min

(* The rules of a document are its templated paths, in some order.         *)
LEMMA RulesAreTemplates ==
  ASSUME NEW R \in ToInstrumentRules(SpecPaths)
  PROVE  /\ DOMAIN R \subseteq Nat
         /\ \A i \in DOMAIN R : R[i] \in SpecPaths /\ Contains(R[i], Placeholder)
         /\ \A p \in SpecPaths : Contains(p, Placeholder) => \E i \in DOMAIN R : R[i] = p
  <1> DEFINE T == { p \in SpecPaths : Contains(p, Placeholder) }
  <1>1. Cardinality(T) \in Nat
    BY PathsAssumption, FS_Subset, FS_CardinalityType
  <1>2. R \in [1..Cardinality(T) -> T] /\ Range(R) = T
    BY DEF ToInstrumentRules
  <1>3. DOMAIN R \subseteq Nat
    BY <1>1, <1>2
  <1> QED BY <1>2, <1>3 DEF Range

(* The label of a path is one of the rules that match it, or the decoded   *)
(* path if none does: getURIApplyingRules.                                 *)
LEMMA LabelOfPath ==
  ASSUME NEW R, DOMAIN R \subseteq Nat, NEW path
  PROVE  \/ /\ \A i \in DOMAIN R : ~Matches(R[i], RawPath(path))
            /\ URIApplyingRules(path, R) = Decoded(path)
         \/ \E i \in DOMAIN R : Matches(R[i], RawPath(path)) /\ URIApplyingRules(path, R) = R[i]
  <1> DEFINE hits == { i \in DOMAIN R : Matches(R[i], RawPath(path)) }
  <1>1. URIApplyingRules(path, R) = IF hits = {} THEN Decoded(path) ELSE R[Min(hits)]
    BY DEF URIApplyingRules
  <1>2. CASE hits = {}
    BY <1>1, <1>2
  <1>3. CASE hits # {}
    <2>1. Min(hits) \in hits
      BY <1>3, MinIsIn
    <2> QED BY <1>1, <1>3, <2>1
  <1> QED BY <1>2, <1>3

(* A path that matches a template matches whatever the template matches.   *)
LEMMA MatchesTransitive ==
  ASSUME NEW p, NEW t, NEW w, Matches(p, t), Matches(t, w)
  PROVE  Matches(p, w)
  BY DEF Matches

(* A path matches itself.                                                  *)
LEMMA MatchesItself ==
  ASSUME NEW t \in SpecPaths
  PROVE  Matches(t, t)
  BY PathsAssumption DEF Matches

(* A path without placeholders is its own expansion.                       *)
LEMMA LiteralExpansion ==
  ASSUME NEW t \in SpecPaths, NEW v, ~Contains(t, Placeholder)
  PROVE  Expand(t, v) = t
  <1>1. t \in Seq(STRING) /\ \A i \in DOMAIN t : t[i] # Placeholder
    BY PathsAssumption DEF Contains
  <1> QED BY <1>1 DEF Expand

(* The label of an expanded template is one of Labels.                     *)
LEMMA LabelsSuffice ==
  ASSUME NEW R \in ToInstrumentRules(SpecPaths), NEW c \in Calls
  PROVE  URIApplyingRules(Expand(c[1], c[2]), R) \in Labels
  BY RulesAreTemplates, LabelOfPath DEF Labels

(* A template with a placeholder has braces, which RawPath keeps.          *)
LEMMA TemplateIsRaw ==
  ASSUME NEW t \in SpecPaths, Contains(t, Placeholder)
  PROVE  RawPath(t) = t
  <1>1. \E i \in DOMAIN t : t[i] = Placeholder
    BY PathsAssumption DEF Contains
  <1> QED BY <1>1 DEF RawPath, IsDefault

(* If the URL matches its template only, client and server agree on its    *)
(* label: the template, or, if that has no placeholder, the decoded path.  *)
LEMMA TemplatesAgree ==
  ASSUME NEW R \in ToInstrumentRules(SpecPaths), NEW t \in SpecPaths, NEW v,
         { p \in SpecPaths : Matches(p, RawPath(Expand(t, v))) } = {t},
         NEW hasRules \in BOOLEAN, hasRules \/ Decoded(t) = t
  PROVE  URIApplyingRules(t, IF hasRules THEN R ELSE <<>>) = URIApplyingRules(Expand(t, v), R)
  <1> DEFINE u == Expand(t, v)
  <1>1. \A i \in DOMAIN R : Matches(R[i], RawPath(u)) => R[i] = t
    BY RulesAreTemplates
  <1>2. Matches(t, t) /\ Matches(t, RawPath(u))
    BY MatchesItself
  <1>3. URIApplyingRules(t, <<>>) = Decoded(t)
    BY LabelOfPath
  <1>4. CASE Contains(t, Placeholder)
    <2>1. \E i \in DOMAIN R : R[i] = t
      BY <1>4, RulesAreTemplates
    <2>2. RawPath(t) = t
      BY <1>4, TemplateIsRaw
    <2>3. \A i \in DOMAIN R : Matches(R[i], t) => R[i] = t
      BY <1>1, <1>2, MatchesTransitive
    <2>4. URIApplyingRules(u, R) = t
      BY <1>1, <1>2, <2>1, LabelOfPath, RulesAreTemplates
    <2>5. URIApplyingRules(t, R) = t
      BY <1>2, <2>1, <2>2, <2>3, LabelOfPath, RulesAreTemplates
    <2> QED BY <1>3, <2>4, <2>5
  <1>5. CASE ~Contains(t, Placeholder)
    <2>1. u = t
      BY <1>5, LiteralExpansion
    <2>2. \A i \in DOMAIN R : ~Matches(R[i], RawPath(u))
      BY <1>1, <1>5, RulesAreTemplates
    <2>3. URIApplyingRules(t, R) = Decoded(t)
      BY <2>1, <2>2, LabelOfPath, RulesAreTemplates
    <2> QED BY <1>3, <2>1, <2>3
  <1> QED BY <1>4, <1>5

(* A path with an empty RawPath, whose text no second parsing changes, has *)
(* the same label when its text is parsed as a URL: v2's Do and RoundTrip. *)
LEMMA PathsAgree ==
  ASSUME NEW u, IsDefault(u), NEW R,
         \A i \in DOMAIN u : Decoded(u)[i] \notin {"x?y", "%", "m%65"},
         ~Contains(u, Slashed), DOMAIN u \subseteq Nat
  PROVE  URIApplyingRules(Cut(Decoded(u)), R) = URIApplyingRules(u, R)
  <1> DEFINE d == Decoded(u)
  <1>1. d = [i \in DOMAIN u |-> Unescape(u[i])]
    BY DEF Decoded
  <1>2. Cut(d) = d
    BY <1>1 DEF Cut
  <1>3. ASSUME NEW i \in DOMAIN u
        PROVE  d[i] # Slashed /\ Unescape(d[i]) = d[i]
    <2>1. d[i] = Unescape(u[i]) /\ u[i] # Slashed /\ u[i] # "m%65"
      BY <1>1 DEF IsDefault
    <2>2. d[i] # "m%65" /\ d[i] # "x?y"
      OBVIOUS
    <2> QED BY <2>1, <2>2 DEF Unescape, Slashed
  <1>4. ~Contains(d, Slashed)
    BY <1>1, <1>3 DEF Contains
  <1>5. Decoded(d) = d
    <2>1. Decoded(d) = [i \in DOMAIN d |-> Unescape(d[i])]
      BY <1>4 DEF Decoded
    <2> QED BY <1>1, <1>3, <2>1
  <1>6. RawPath(d) = d /\ RawPath(u) = d
    BY <1>5 DEF RawPath
  <1> QED BY <1>2, <1>5, <1>6 DEF URIApplyingRules

-----------------------------------------------------------------------------
(* The states between the increment of the gauge and its decrement.        *)
Served == {"validate", "token", "called", "handler", "leave"}

(* The types that the proof needs.                                         *)
Types ==
    /\ rules \in ToInstrumentRules(SpecPaths)
    /\ pc \in [Requests -> Served \cup {"idle", "sent", "observe", "finish", "answered",
                                        "aborted", "over", "panicked"}]
    /\ gauge \in [Labels -> Int]
    /\ misused \in [Requests -> BOOLEAN]
    /\ DOMAIN template = Requests /\ DOMAIN url = Requests /\ DOMAIN uri = Requests
    /\ DOMAIN status = Requests /\ DOMAIN sent = Requests /\ DOMAIN ctx = Requests
    /\ DOMAIN observed = Requests /\ DOMAIN seen = Requests

(* The URL of a request is an expansion of its template.                   *)
Expanded ==
    \A r \in Requests : pc[r] # "idle" =>
        \E c \in Calls : template[r] = c[1] /\ url[r] = Expand(c[1], c[2])

(* The label whose gauge was incremented is the one that the summaries     *)
(* find when they look it up again.                                        *)
Labelled ==
    \A r \in Requests : pc[r] \in Served \cup {"observe", "finish", "answered"} =>
        uri[r] = URIApplyingRules(url[r], rules)

(* The response writers have the code that is sent, 200 if there is none   *)
(* yet, unless the handler breaks the contract of http.ResponseWriter.     *)
WritersAgree ==
    \A r \in Requests :
        /\ misused[r] \/ status[r] = (IF sent[r] = "none" THEN "200" ELSE sent[r])
        /\ pc[r] = "answered" => sent[r] # "none"

(* What the summaries have observed, and of which requests.                *)
ObservedOnce ==
    \A r \in Requests :
        /\ pc[r] \notin {"finish", "answered", "over", "panicked"} => observed[r] = None
        /\ pc[r] \in {"finish", "answered"} =>
            observed[r] = [status |-> status[r], uri |-> uri[r]]
        /\ observed[r] = None \/ observed[r].uri = URIApplyingRules(url[r], rules)

(* What the client has observed.                                           *)
SeenOnce ==
    \A r \in Requests : seen[r] # None =>
        /\ pc[r] = "over"
        /\ seen[r].given \in BOOLEAN /\ seen[r].hasRules \in BOOLEAN
        /\ seen[r].uri = URIApplyingRules(Label(r, seen[r].given), ClientRules(seen[r].hasRules))

IInv ==
    /\ Types /\ Expanded /\ Labelled /\ WritersAgree /\ ObservedOnce /\ SeenOnce
    /\ GaugeIsInFlight /\ ClaimsReachHandler

-----------------------------------------------------------------------------
(* The types are preserved.                                                *)
LEMMA TypesStep ==
  ASSUME IInv, [Next]_vars
  PROVE  Types'
  <1> USE DEF IInv, Types, service, request, response
  <1>1. CASE UNCHANGED vars
    BY <1>1 DEF vars
  <1>2. ASSUME NEW r \in Requests,
               Send(r) \/ Server(r) \/ Receive(r) \/ ClientPanics(r) \/ Lose(r)
        PROVE  Types'
    <2>1. CASE Send(r)
      BY <2>1 DEF Send, Goto
    <2>2. CASE InFlight(r)
      <3>1. gauge' = [gauge EXCEPT ![uri'[r]] = gauge[uri'[r]] + 1]
        BY <2>2 DEF InFlight
      <3>2. \A k \in Labels : gauge'[k] = (IF k = uri'[r] THEN gauge[k] + 1 ELSE gauge[k])
        BY <3>1
      <3>3. gauge' \in [Labels -> Int]
        <4>1. DOMAIN gauge' = Labels /\ gauge' = [k \in Labels |-> gauge'[k]]
          BY <3>1
        <4>2. \A k \in Labels : gauge'[k] \in Int
          BY <3>2
        <4> QED BY <4>1, <4>2
      <3> QED BY <2>2, <3>3 DEF InFlight, Goto, Served
    <2>3. CASE Reject(r)
      BY <2>3 DEF Reject, Goto, Header, Served
    <2>4. CASE Validate(r)
      BY <2>4 DEF Validate, Goto, Served
    <2>5. CASE Token(r)
      BY <2>5 DEF Token, CallHandler, ErrorHandle, Goto, Header, Served
    <2>6. CASE ReadContext(r)
      BY <2>6 DEF ReadContext, Goto, Served
    <2>7. CASE WriteHeader(r)
      BY <2>7 DEF WriteHeader, Header
    <2>8. CASE Write(r)
      BY <2>8 DEF Write
    <2>9. CASE HandlerReturns(r) \/ HandlerPanics(r)
      BY <2>9 DEF HandlerReturns, HandlerPanics, Goto, Served
    <2>10. CASE Dec(r) \/ Observe(r)
      BY <2>10 DEF Dec, Observe, Goto
    <2>11. CASE Finish(r)
      BY <2>11 DEF Finish, Goto
    <2>12. CASE Receive(r)
      BY <2>12 DEF Receive, Goto, Forget
    <2>13. CASE ClientPanics(r) \/ Lose(r)
      BY <2>13 DEF ClientPanics, Lose, Goto, Forget
    <2> QED BY <1>2, <2>1, <2>2, <2>3, <2>4, <2>5, <2>6, <2>7, <2>8, <2>9, <2>10, <2>11,
               <2>12, <2>13 DEF Server
  <1> QED BY <1>1, <1>2 DEF Next


(* Only Send sets the template and the URL of a request.                   *)
LEMMA ExpandedStep ==
  ASSUME IInv, [Next]_vars
  PROVE  Expanded'
  <1> USE DEF IInv, Types, Expanded, service, request, response
  <1>1. CASE UNCHANGED vars
    BY <1>1 DEF vars
  <1>2. ASSUME NEW r \in Requests, Send(r)
        PROVE  Expanded'
    <2>1. PICK c \in Calls : /\ template' = [template EXCEPT ![r] = c[1]]
                             /\ url' = [url EXCEPT ![r] = Expand(c[1], c[2])]
      BY <1>2 DEF Send
    <2>2. pc' = [pc EXCEPT ![r] = "sent"]
      BY <1>2 DEF Send, Goto
    <2> QED BY <2>1, <2>2
  <1>3. ASSUME NEW r \in Requests, Server(r) \/ Receive(r) \/ ClientPanics(r) \/ Lose(r)
        PROVE  Expanded'
    <2>1. template' = template /\ url' = url
      BY <1>3 DEF Server, InFlight, Reject, Validate, Token, ReadContext, WriteHeader, Write,
         HandlerReturns, HandlerPanics, Dec, Observe, Finish, Receive, ClientPanics, Lose
    <2>2. pc[r] # "idle" /\ \A q \in Requests \ {r} : pc'[q] = pc[q]
      BY <1>3 DEF Server, InFlight, Reject, Validate, Token, CallHandler, ErrorHandle, ReadContext, WriteHeader,
         Write, HandlerReturns, HandlerPanics, Dec, Observe, Finish, Receive, ClientPanics, Lose, Goto
    <2> QED BY <2>1, <2>2
  <1> QED BY <1>1, <1>2, <1>3 DEF Next

(* The label of a request in service is the one URIApplyingRules gives.    *)
LEMMA LabelledStep ==
  ASSUME IInv, [Next]_vars
  PROVE  Labelled'
  <1> USE DEF IInv, Types, Labelled, service, request, response, Served
  <1>1. CASE UNCHANGED vars
    BY <1>1 DEF vars
  <1>2. ASSUME NEW r \in Requests, Send(r)
        PROVE  Labelled'
    BY <1>2 DEF Send, Goto
  <1>3. ASSUME NEW r \in Requests, InFlight(r)
        PROVE  Labelled'
    BY <1>3 DEF InFlight, Goto
  <1>4. ASSUME NEW r \in Requests,
               \/ Reject(r) \/ Validate(r) \/ Token(r) \/ ReadContext(r)
               \/ WriteHeader(r) \/ Write(r) \/ HandlerReturns(r) \/ HandlerPanics(r)
               \/ Dec(r) \/ Observe(r) \/ Finish(r)
               \/ Receive(r) \/ ClientPanics(r) \/ Lose(r)
        PROVE  Labelled'
    <2>1. rules' = rules /\ url' = url /\ uri' = uri
      BY <1>4 DEF Reject, Validate, Token, ReadContext, WriteHeader, Write, HandlerReturns,
         HandlerPanics, Dec, Observe, Finish, Receive, ClientPanics, Lose
    <2>2. /\ \/ pc[r] \in Served \cup {"observe", "finish", "answered"}
             \/ pc'[r] \in {"over", "panicked"}
          /\ \A q \in Requests \ {r} : pc'[q] = pc[q]
      BY <1>4 DEF Reject, Validate, Token, CallHandler, ErrorHandle, ReadContext, WriteHeader, Write,
         HandlerReturns, HandlerPanics, Dec, Observe, Finish, Receive, ClientPanics, Lose, Goto
    <2> QED BY <2>1, <2>2
  <1> QED BY <1>1, <1>2, <1>3, <1>4 DEF Next, Server


(* Whoever writes a header, without breaking the contract, has it sent.    *)
LEMMA HeaderWrites ==
  ASSUME IInv, NEW r \in Requests, NEW code, code # "none", Header(r, code)
  PROVE  /\ misused'[r] \/ status'[r] = (IF sent'[r] = "none" THEN "200" ELSE sent'[r])
         /\ \A q \in Requests \ {r} :
                status'[q] = status[q] /\ sent'[q] = sent[q] /\ misused'[q] = misused[q]
  <1>1. /\ status'[r] = code
        /\ sent'[r] = (IF sent[r] = "none" /\ code # "103" THEN code ELSE sent[r])
        /\ misused'[r] = (misused[r] \/ sent[r] # "none" \/ code = "103")
    BY DEF IInv, Types, Header
  <1>2. \A q \in Requests \ {r} :
            status'[q] = status[q] /\ sent'[q] = sent[q] /\ misused'[q] = misused[q]
    BY DEF IInv, Types, Header
  <1>3. misused[r] \in BOOLEAN
    BY DEF IInv, Types
  <1> QED BY <1>1, <1>2, <1>3

(* The codes of the writers and the codes sent stay the same.              *)
LEMMA WritersStep ==
  ASSUME IInv, [Next]_vars
  PROVE  WritersAgree'
  <1> USE DEF service, request, response
  <1> DEFINE agree(m, st, se) == m \/ st = (IF se = "none" THEN "200" ELSE se)
  <1>1. ASSUME NEW q \in Requests
        PROVE  /\ agree(misused[q], status[q], sent[q])
               /\ pc[q] = "answered" => sent[q] # "none"
               /\ misused[q] \in BOOLEAN
    BY DEF IInv, WritersAgree, Types
  <1>2. CASE UNCHANGED vars
    BY <1>2 DEF vars, IInv, WritersAgree
  <1>3. ASSUME NEW r \in Requests,
               \/ Send(r) \/ InFlight(r) \/ Validate(r) \/ ReadContext(r) \/ HandlerReturns(r)
               \/ HandlerPanics(r) \/ Dec(r) \/ Observe(r)
        PROVE  WritersAgree'
    <2>1. status' = status /\ sent' = sent /\ misused' = misused
      BY <1>3 DEF Send, InFlight, Validate, ReadContext, HandlerReturns, HandlerPanics, Dec, Observe
    <2>2. pc'[r] # "answered" /\ \A q \in Requests \ {r} : pc'[q] = pc[q]
      BY <1>3 DEF Send, InFlight, Validate, ReadContext, HandlerReturns, HandlerPanics, Dec, Observe,
         Goto, IInv, Types
    <2> QED BY <2>1, <2>2, <1>1 DEF WritersAgree
  <1>4. ASSUME NEW r \in Requests, NEW code, code # "none", Header(r, code),
               pc'[r] # "answered", \A q \in Requests \ {r} : pc'[q] = pc[q]
        PROVE  WritersAgree'
    BY <1>1, <1>4, HeaderWrites DEF WritersAgree
  <1>5. ASSUME NEW r \in Requests, Reject(r) \/ WriteHeader(r)
        PROVE  WritersAgree'
    <2>1. pc'[r] # "answered" /\ \A q \in Requests \ {r} : pc'[q] = pc[q]
      BY <1>5 DEF Reject, WriteHeader, Goto, IInv, Types
    <2>2. \E code : code # "none" /\ Header(r, code)
      BY <1>5 DEF Reject, WriteHeader, Codes
    <2> QED BY <1>4, <2>1, <2>2
  <1>6. ASSUME NEW r \in Requests, Token(r)
        PROVE  WritersAgree'
    <2>1. pc'[r] # "answered" /\ \A q \in Requests \ {r} : pc'[q] = pc[q]
      BY <1>6 DEF Token, CallHandler, ErrorHandle, Goto, IInv, Types
    <2>2. UNCHANGED response \/ Header(r, "400")
      BY <1>6 DEF Token, CallHandler, ErrorHandle
    <2>3. CASE UNCHANGED response
      BY <1>1, <2>1, <2>3 DEF WritersAgree
    <2> QED BY <1>4, <2>1, <2>2, <2>3
  <1>7. ASSUME NEW r \in Requests, Write(r) \/ Finish(r)
        PROVE  WritersAgree'
    <2>1. status' = status /\ misused' = misused
      BY <1>7 DEF Write, Finish
    <2>2. /\ sent'[r] = (IF sent[r] = "none" THEN "200" ELSE sent[r])
          /\ \A q \in Requests \ {r} : sent'[q] = sent[q]
      BY <1>7 DEF Write, Finish, IInv, Types
    <2>3. \A q \in Requests \ {r} : pc'[q] = pc[q]
      BY <1>7 DEF Write, Finish, Goto, IInv, Types
    <2> QED BY <1>1, <2>1, <2>2, <2>3 DEF WritersAgree
  <1>8. ASSUME NEW r \in Requests, Receive(r) \/ ClientPanics(r) \/ Lose(r)
        PROVE  WritersAgree'
    <2>1. status'[r] = "200" /\ sent'[r] = "none" /\ pc'[r] # "answered"
      BY <1>8 DEF Receive, ClientPanics, Lose, Forget, Goto, IInv, Types
    <2>2. \A q \in Requests \ {r} : /\ status'[q] = status[q] /\ sent'[q] = sent[q]
                                    /\ misused'[q] = misused[q] /\ pc'[q] = pc[q]
      BY <1>8 DEF Receive, ClientPanics, Lose, Forget, Goto, IInv, Types
    <2> QED BY <1>1, <2>1, <2>2 DEF WritersAgree
  <1> QED BY <1>2, <1>3, <1>5, <1>6, <1>7, <1>8 DEF Next, Server


(* The summaries observe a request when it has left the handler, once.     *)
LEMMA ObservedStep ==
  ASSUME IInv, [Next]_vars
  PROVE  ObservedOnce'
  <1> USE DEF service, request, response, Served
  <1>1. CASE UNCHANGED vars
    BY <1>1 DEF vars, IInv, ObservedOnce
  <1>2. ASSUME NEW r \in Requests, Send(r)
        PROVE  ObservedOnce'
    <2>1. /\ observed' = observed /\ status' = status /\ uri' = uri /\ rules' = rules
          /\ pc[r] = "idle" /\ pc'[r] = "sent"
          /\ \A q \in Requests \ {r} : pc'[q] = pc[q] /\ url'[q] = url[q]
      BY <1>2 DEF Send, Goto, IInv, Types
    <2>2. observed[r] = None
      BY <2>1 DEF IInv, ObservedOnce
    <2> QED BY <2>1, <2>2 DEF IInv, ObservedOnce
  <1>3. ASSUME NEW r \in Requests,
               \/ InFlight(r) \/ Reject(r) \/ Validate(r) \/ Token(r) \/ ReadContext(r)
               \/ WriteHeader(r) \/ Write(r) \/ HandlerReturns(r) \/ HandlerPanics(r) \/ Dec(r)
        PROVE  ObservedOnce'
    <2>1. observed' = observed /\ url' = url /\ rules' = rules
      BY <1>3 DEF InFlight, Reject, Validate, Token, ReadContext, WriteHeader, Write,
         HandlerReturns, HandlerPanics, Dec
    <2>2. /\ pc[r] \in {"sent", "validate", "token", "called", "handler", "leave"}
          /\ pc'[r] \notin {"finish", "answered", "over", "panicked"}
      BY <1>3 DEF InFlight, Reject, Validate, Token, CallHandler, ErrorHandle, ReadContext, WriteHeader, Write,
         HandlerReturns, HandlerPanics, Dec, Goto, IInv, Types
    <2>3. \A q \in Requests \ {r} : pc'[q] = pc[q] /\ uri'[q] = uri[q] /\ status'[q] = status[q]
      BY <1>3 DEF InFlight, Reject, Validate, Token, CallHandler, ErrorHandle, ReadContext, WriteHeader, Write,
         HandlerReturns, HandlerPanics, Dec, Goto, Header, IInv, Types
    <2>4. observed[r] = None
      BY <2>2 DEF IInv, ObservedOnce
    <2> QED BY <2>1, <2>2, <2>3, <2>4 DEF IInv, ObservedOnce
  <1>4. ASSUME NEW r \in Requests, Observe(r)
        PROVE  ObservedOnce'
    <2>1. /\ status' = status /\ uri' = uri /\ url' = url /\ rules' = rules
          /\ pc[r] = "observe" /\ pc'[r] = "finish"
          /\ \A q \in Requests \ {r} : pc'[q] = pc[q] /\ observed'[q] = observed[q]
          /\ observed'[r] = [status |-> status[r], uri |-> URIApplyingRules(url[r], rules)]
      BY <1>4 DEF Observe, Goto, IInv, Types
    <2>2. uri[r] = URIApplyingRules(url[r], rules)
      BY <2>1 DEF IInv, Labelled
    <2> QED BY <2>1, <2>2 DEF IInv, ObservedOnce
  <1>5. ASSUME NEW r \in Requests, Finish(r)
        PROVE  ObservedOnce'
    <2>1. /\ observed' = observed /\ status' = status /\ uri' = uri /\ url' = url /\ rules' = rules
          /\ pc[r] = "finish" /\ pc'[r] = "answered"
          /\ \A q \in Requests \ {r} : pc'[q] = pc[q]
      BY <1>5 DEF Finish, Goto, IInv, Types
    <2> QED BY <2>1 DEF IInv, ObservedOnce
  <1>6. ASSUME NEW r \in Requests, Receive(r) \/ ClientPanics(r) \/ Lose(r)
        PROVE  ObservedOnce'
    <2>1. /\ observed' = observed /\ uri' = uri /\ url' = url /\ rules' = rules
          /\ pc'[r] \in {"over", "panicked"}
          /\ \A q \in Requests \ {r} : pc'[q] = pc[q] /\ status'[q] = status[q]
      BY <1>6 DEF Receive, ClientPanics, Lose, Forget, Goto, IInv, Types
    <2> QED BY <2>1 DEF IInv, ObservedOnce
  <1> QED BY <1>1, <1>2, <1>3, <1>4, <1>5, <1>6 DEF Next, Server

(* The client observes a response last, and nothing changes afterwards.    *)
LEMMA SeenStep ==
  ASSUME IInv, [Next]_vars
  PROVE  SeenOnce'
  <1> USE DEF service, request, response, Label, ClientRules
  <1>1. CASE UNCHANGED vars
    BY <1>1 DEF vars, IInv, SeenOnce
  <1>2. ASSUME NEW r \in Requests, Send(r) \/ Server(r) \/ ClientPanics(r) \/ Lose(r)
        PROVE  SeenOnce'
    <2>1. seen' = seen /\ rules' = rules
      BY <1>2 DEF Send, Server, InFlight, Reject, Validate, Token, ReadContext, WriteHeader, Write,
         HandlerReturns, HandlerPanics, Dec, Observe, Finish, ClientPanics, Lose
    <2>2. pc[r] # "over"
      BY <1>2 DEF Send, Server, InFlight, Reject, Validate, Token, ReadContext, WriteHeader, Write,
         HandlerReturns, HandlerPanics, Dec, Observe, Finish, ClientPanics, Lose, Goto
    <2>3. \A q \in Requests \ {r} : pc'[q] = pc[q]
      BY <1>2 DEF Send, Server, InFlight, Reject, Validate, Token, CallHandler, ErrorHandle, ReadContext,
         WriteHeader, Write, HandlerReturns, HandlerPanics, Dec, Observe, Finish, ClientPanics, Lose,
         Goto, IInv, Types
    <2>4. \A q \in Requests \ {r} : template'[q] = template[q] /\ url'[q] = url[q]
      BY <1>2 DEF Send, Server, InFlight, Reject, Validate, Token, ReadContext, WriteHeader, Write,
         HandlerReturns, HandlerPanics, Dec, Observe, Finish, ClientPanics, Lose, IInv, Types
    <2>5. seen[r] = None
      BY <2>2 DEF IInv, SeenOnce
    <2> QED BY <2>1, <2>3, <2>4, <2>5 DEF IInv, SeenOnce
  <1>3. ASSUME NEW r \in Requests, Receive(r)
        PROVE  SeenOnce'
    <2>1. template' = template /\ url' = url /\ rules' = rules
      BY <1>3 DEF Receive
    <2>2. pc'[r] = "over" /\ \A q \in Requests \ {r} : pc'[q] = pc[q]
      BY <1>3 DEF Receive, Goto, IInv, Types
    <2>3. PICK given \in BOOLEAN, hasRules \in BOOLEAN :
            seen' = [seen EXCEPT ![r] =
                [status |-> sent[r], given |-> given, hasRules |-> hasRules,
                 uri |-> URIApplyingRules(Label(r, given), ClientRules(hasRules))]]
      BY <1>3 DEF Receive
    <2>4. /\ \A q \in Requests \ {r} : seen'[q] = seen[q]
          /\ seen'[r].given = given /\ seen'[r].hasRules = hasRules
          /\ seen'[r].uri = URIApplyingRules(Label(r, given), ClientRules(hasRules))
      BY <2>3 DEF IInv, Types
    <2> QED BY <2>1, <2>2, <2>4 DEF IInv, SeenOnce
  <1> QED BY <1>1, <1>2, <1>3 DEF Next


-----------------------------------------------------------------------------
(* The requests being served under a label.                                *)
InService(l) == { r \in Requests : pc[r] \in Served /\ uri[r] = l }

(* There are finitely many.                                                *)
LEMMA InServiceFinite ==
  ASSUME NEW l
  PROVE  IsFiniteSet(InService(l)) /\ Cardinality(InService(l)) \in Nat
  BY RequestsAssumption, FS_Subset, FS_CardinalityType DEF InService

(* The gauge follows the requests that enter and leave the service.        *)
LEMMA GaugeStep ==
  ASSUME IInv, [Next]_vars
  PROVE  GaugeIsInFlight'
  <1> USE DEF service, request, response
  <1>1. \A l \in Labels : gauge[l] = Cardinality(InService(l))
    BY DEF IInv, GaugeIsInFlight, InService, Served
  <1>2. SUFFICES ASSUME NEW l \in Labels
                 PROVE  gauge'[l] = Cardinality(InService(l)')
    BY DEF GaugeIsInFlight, InService, Served
  <1>3. ASSUME NEW r \in Requests,
               pc[r] \in Served <=> pc'[r] \in Served,
               \A q \in Requests \ {r} : pc'[q] = pc[q], uri' = uri, gauge' = gauge
        PROVE  gauge'[l] = Cardinality(InService(l)')
    <2>1. InService(l)' = InService(l)
      BY <1>3 DEF InService
    <2> QED BY <1>1, <1>3, <2>1
  <1>4. CASE UNCHANGED vars
    <2>1. InService(l)' = InService(l)
      BY <1>4 DEF InService, vars
    <2> QED BY <1>1, <1>4, <2>1 DEF vars
  <1>5. ASSUME NEW r \in Requests,
               \/ Send(r) \/ Reject(r) \/ Validate(r) \/ Token(r) \/ ReadContext(r)
               \/ WriteHeader(r) \/ Write(r) \/ HandlerReturns(r) \/ Observe(r) \/ Finish(r)
               \/ Receive(r) \/ ClientPanics(r) \/ Lose(r)
        PROVE  gauge'[l] = Cardinality(InService(l)')
    <2>1. uri' = uri /\ gauge' = gauge
      BY <1>5 DEF Send, Reject, Validate, Token, ReadContext, WriteHeader, Write, HandlerReturns,
         Observe, Finish, Receive, ClientPanics, Lose
    <2>2. pc[r] \in Served <=> pc'[r] \in Served
      BY <1>5 DEF Send, Reject, Validate, Token, CallHandler, ErrorHandle, ReadContext, WriteHeader, Write,
         HandlerReturns, Observe, Finish, Receive, ClientPanics, Lose, Goto, IInv, Types, Served
    <2>3. \A q \in Requests \ {r} : pc'[q] = pc[q]
      BY <1>5 DEF Send, Reject, Validate, Token, CallHandler, ErrorHandle, ReadContext, WriteHeader, Write,
         HandlerReturns, Observe, Finish, Receive, ClientPanics, Lose, Goto, IInv, Types
    <2> QED BY <1>3, <2>1, <2>2, <2>3
  <1>6. ASSUME NEW r \in Requests, InFlight(r)
        PROVE  gauge'[l] = Cardinality(InService(l)')
    <2>1. /\ pc[r] \notin Served /\ pc'[r] \in Served
          /\ \A q \in Requests \ {r} : pc'[q] = pc[q] /\ uri'[q] = uri[q]
      BY <1>6 DEF InFlight, Goto, IInv, Types, Served
    <2>2. gauge'[l] = IF l = uri'[r] THEN gauge[l] + 1 ELSE gauge[l]
      BY <1>6 DEF InFlight, IInv, Types
    <2>3. CASE l = uri'[r]
      <3>1. InService(l)' = InService(l) \cup {r} /\ r \notin InService(l)
        BY <2>1, <2>3 DEF InService
      <3>2. Cardinality(InService(l)') = Cardinality(InService(l)) + 1
        BY <3>1, InServiceFinite, FS_AddElement
      <3> QED BY <1>1, <2>2, <2>3, <3>2
    <2>4. CASE l # uri'[r]
      <3>1. InService(l)' = InService(l)
        BY <2>1, <2>4 DEF InService
      <3> QED BY <1>1, <2>2, <2>4, <3>1
    <2> QED BY <2>3, <2>4
  <1>7. ASSUME NEW r \in Requests, Dec(r) \/ HandlerPanics(r)
        PROVE  gauge'[l] = Cardinality(InService(l)')
    <2>1. /\ pc[r] \in Served /\ pc'[r] \notin Served /\ uri' = uri
          /\ \A q \in Requests \ {r} : pc'[q] = pc[q]
      BY <1>7 DEF Dec, HandlerPanics, Goto, IInv, Types, Served
    <2>2. gauge'[l] = IF l = uri[r] THEN gauge[l] - 1 ELSE gauge[l]
      BY <1>7 DEF Dec, HandlerPanics, IInv, Types
    <2>3. CASE l = uri[r]
      <3>1. InService(l)' = InService(l) \ {r} /\ r \in InService(l)
        BY <2>1, <2>3 DEF InService
      <3>2. Cardinality(InService(l)') = Cardinality(InService(l)) - 1
        BY <3>1, InServiceFinite, FS_RemoveElement
      <3> QED BY <1>1, <2>2, <2>3, <3>2
    <2>4. CASE l # uri[r]
      <3>1. InService(l)' = InService(l)
        BY <2>1, <2>4 DEF InService
      <3> QED BY <1>1, <2>2, <2>4, <3>1
    <2> QED BY <2>3, <2>4
  <1> QED BY <1>4, <1>5, <1>6, <1>7 DEF Next, Server


-----------------------------------------------------------------------------
(* The claims the handler is promised.                                     *)
Promised == Claims \cup (IF "storedToken" \in conf THEN {"token"} ELSE {})

(* processToken without an error puts all that was asked for into the      *)
(* context.                                                                *)
LEMMA OutcomesFit ==
  ASSUME NEW h \in Headers, NEW o \in Outcomes(h)
  PROVE  o.err \in BOOLEAN /\ ("requireToken" \in conf /\ ~o.err => o.claims = Promised)
  <1> DEFINE found == Claims \cap h.token
             stored == IF "storedToken" \in conf THEN {"token"} ELSE {}
             result(err, claims) == [err |-> err, claims |-> claims]
  <1>1. CASE "requireToken" \notin conf
    <2>1. o = result(FALSE, {})
      BY <1>1 DEF Outcomes
    <2> QED BY <1>1, <2>1
  <1>2. CASE "requireToken" \in conf /\ (h.scheme \notin {"Bearer", "bearer"} \/ ~IsToken(h))
    <2>1. o = result(TRUE, {})
      BY <1>2 DEF Outcomes
    <2> QED BY <2>1
  <1>3. CASE "requireToken" \in conf /\ h.scheme \in {"Bearer", "bearer"} /\ IsToken(h)
    <2>1. o \in IF found = Claims THEN {result(FALSE, found \cup stored)}
                ELSE { result(TRUE, s) : s \in SUBSET found }
      BY <1>3 DEF Outcomes
    <2>2. CASE found = Claims
      <3>1. o.err = FALSE /\ o.claims = found \cup stored
        BY <2>1, <2>2
      <3> QED BY <2>2, <3>1 DEF Promised
    <2>3. CASE found # Claims
      <3>1. PICK s \in SUBSET found : o = result(TRUE, s)
        BY <2>1, <2>3
      <3> QED BY <1>3, <3>1
    <2> QED BY <2>2, <2>3
  <1> QED BY <1>1, <1>2, <1>3

(* What a handler finds in its context when it is called.                  *)
CallsFit ==
    \A r \in Requests :
        pc[r] = "called" /\ "requireToken" \in conf /\ "ignoreErrors" \notin conf => ctx[r] = Promised

(* Only Token calls the handler; the context of the other requests stays.  *)
LEMMA CallsStep ==
  ASSUME IInv, [Next]_vars
  PROVE  CallsFit'
  <1> USE DEF service, request, response
  <1>1. CallsFit
    BY DEF IInv, ClaimsReachHandler, CallsFit, Promised
  <1>2. CASE UNCHANGED vars
    BY <1>1, <1>2 DEF vars, CallsFit, Promised
  <1>3. ASSUME NEW r \in Requests, Token(r)
        PROVE  CallsFit'
    <2> DEFINE step(o) == \/ (~o.err \/ "ignoreErrors" \in conf) /\ CallHandler(r, o)
                          \/ ErrorHandle(r)
    <2>0. PICK h \in Headers : \E o \in Outcomes(h) : step(o)
      BY <1>3 DEF Token
    <2>1. PICK o \in Outcomes(h) : step(o)
      BY <2>0
    <2>2. conf' = conf
      BY <1>3 DEF Token
    <2>3. CASE ErrorHandle(r)
      BY <1>1, <2>2, <2>3 DEF ErrorHandle, CallsFit, Promised, Goto, IInv, Types
    <2>4. CASE (~o.err \/ "ignoreErrors" \in conf) /\ CallHandler(r, o)
      <3>1. /\ ctx'[r] = o.claims
            /\ \A q \in Requests \ {r} : ctx'[q] = ctx[q] /\ pc'[q] = pc[q]
        BY <2>4 DEF CallHandler, Goto, IInv, Types
      <3>2. "requireToken" \in conf /\ "ignoreErrors" \notin conf => ctx'[r] = Promised
        BY <2>4, <3>1, OutcomesFit
      <3> QED BY <1>1, <2>2, <3>1, <3>2 DEF CallsFit, Promised
    <2> QED BY <2>1, <2>3, <2>4
  <1>4. ASSUME NEW r \in Requests,
               \/ Send(r) \/ InFlight(r) \/ Reject(r) \/ Validate(r) \/ ReadContext(r)
               \/ WriteHeader(r) \/ Write(r) \/ HandlerReturns(r) \/ HandlerPanics(r)
               \/ Dec(r) \/ Observe(r) \/ Finish(r)
               \/ Receive(r) \/ ClientPanics(r) \/ Lose(r)
        PROVE  CallsFit'
    <2>1. conf' = conf /\ pc'[r] # "called"
      BY <1>4 DEF Send, InFlight, Reject, Validate, ReadContext, WriteHeader, Write, HandlerReturns,
         HandlerPanics, Dec, Observe, Finish, Receive, ClientPanics, Lose, Goto, IInv, Types
    <2>2. \A q \in Requests \ {r} : ctx'[q] = ctx[q] /\ pc'[q] = pc[q]
      BY <1>4 DEF Send, InFlight, Reject, Validate, ReadContext, WriteHeader, Write, HandlerReturns,
         HandlerPanics, Dec, Observe, Finish, Receive, ClientPanics, Lose, Goto, IInv, Types
    <2> QED BY <1>1, <2>1, <2>2 DEF CallsFit, Promised
  <1> QED BY <1>2, <1>3, <1>4 DEF Next, Server


-----------------------------------------------------------------------------
(* The invariant holds before the first request.                           *)
LEMMA InitIInv ==
  ASSUME Init
  PROVE  IInv
  <1>1. Types /\ Expanded /\ Labelled /\ WritersAgree /\ SeenOnce
    BY DEF Init, Types, Expanded, Labelled, WritersAgree, SeenOnce, Served
  <1>2. ObservedOnce
    BY DEF Init, ObservedOnce
  <1>3. GaugeIsInFlight
    <2>1. ASSUME NEW l \in Labels PROVE gauge[l] = Cardinality(InService(l))
      <3>1. InService(l) = {}
        BY DEF Init, InService, Served
      <3> QED BY <3>1, FS_EmptySet DEF Init
    <2> QED BY <2>1 DEF GaugeIsInFlight, InService, Served
  <1>4. ClaimsReachHandler
    BY DEF Init, ClaimsReachHandler
  <1> QED BY <1>1, <1>2, <1>3, <1>4 DEF IInv

(* The inductive invariant, from which the theorems below follow.          *)
THEOREM Invariance == Spec => []IInv
  <1>1. IInv /\ [Next]_vars => IInv'
    <2> SUFFICES ASSUME IInv, [Next]_vars PROVE IInv'
      OBVIOUS
    <2>1. Types' /\ Expanded' /\ Labelled' /\ WritersAgree' /\ ObservedOnce' /\ SeenOnce'
      BY TypesStep, ExpandedStep, LabelledStep, WritersStep, ObservedStep, SeenStep
    <2>2. GaugeIsInFlight'
      BY GaugeStep
    <2>3. ClaimsReachHandler'
      BY CallsStep DEF CallsFit, Promised, ClaimsReachHandler
    <2> QED BY <2>1, <2>2, <2>3 DEF IInv
  <1> QED BY <1>1, InitIInv, PTL DEF Spec

(* The gauge counts the requests in service by uri, with handlers that     *)
(* panic and any number of requests at once.                               *)
THEOREM GaugeCounts == Spec => []GaugeIsInFlight
  <1>1. IInv => GaugeIsInFlight
    BY DEF IInv
  <1> QED BY <1>1, Invariance, PTL

(* Every request in service has a uri that the gauge has a series for, so  *)
(* that GaugeCounts leaves none of them out.                               *)
THEOREM NoneUncounted ==
    Spec => [](\A r \in Requests : pc[r] \in Served => uri[r] \in Labels)
  <1>1. ASSUME IInv, NEW r \in Requests, pc[r] \in Served
        PROVE  uri[r] \in Labels
    <2>1. uri[r] = URIApplyingRules(url[r], rules)
      BY <1>1 DEF IInv, Labelled
    <2>2. pc[r] # "idle"
      BY <1>1 DEF Served
    <2>3. \E c \in Calls : url[r] = Expand(c[1], c[2])
      BY <1>1, <2>2 DEF IInv, Expanded
    <2> QED BY <1>1, <2>1, <2>3, LabelsSuffice DEF IInv, Types
  <1>2. IInv => \A r \in Requests : pc[r] \in Served => uri[r] \in Labels
    BY <1>1
  <1> QED BY <1>2, Invariance, PTL

(* The summaries count an answered request under the uri of the gauge and  *)
(* the status that was sent, and never one whose handler panicked.         *)
THEOREM StatusRecorded == Spec => []RecordedIsSent
  <1>1. ASSUME IInv, NEW r \in Requests, pc[r] = "answered"
        PROVE  observed[r].uri = uri[r] /\ (misused[r] \/ observed[r].status = sent[r])
    <2>1. observed[r] = [status |-> status[r], uri |-> uri[r]]
      BY <1>1 DEF IInv, ObservedOnce
    <2>2. sent[r] # "none" /\ (misused[r] \/ status[r] = sent[r])
      BY <1>1 DEF IInv, WritersAgree
    <2> QED BY <2>1, <2>2
  <1>2. ASSUME IInv, NEW r \in Requests, pc[r] = "aborted"
        PROVE  observed[r] = None
    BY <1>2 DEF IInv, ObservedOnce
  <1>3. IInv => RecordedIsSent
    BY <1>1, <1>2 DEF RecordedIsSent
  <1> QED BY <1>3, Invariance, PTL

(* Client and server agree on the uri of a request, for every document,    *)
(* every order of its rules and all values of the variables: by the        *)
(* template, if the URL matches no other path of the document, and by the  *)
(* path, if the text that Instrument parses a second time has nothing that *)
(* the parsing would take for syntax.                                      *)
THEOREM LabelsOfBothSides == Spec => []LabelsAgree
  <1>1. ASSUME IInv, NEW r \in Requests, observed[r] # None, seen[r] # None,
               IF seen[r].given
               THEN /\ { p \in SpecPaths : Matches(p, RawPath(url[r])) } = {template[r]}
                    /\ seen[r].hasRules \/ Decoded(template[r]) = template[r]
               ELSE /\ seen[r].hasRules /\ IsDefault(url[r])
                    /\ \A i \in DOMAIN url[r] : Decoded(url[r])[i] \notin {"x?y", "%", "m%65"}
        PROVE  seen[r].uri = observed[r].uri
    <2>1. /\ pc[r] = "over" /\ seen[r].given \in BOOLEAN /\ seen[r].hasRules \in BOOLEAN
          /\ seen[r].uri = URIApplyingRules(Label(r, seen[r].given), ClientRules(seen[r].hasRules))
      BY <1>1 DEF IInv, SeenOnce
    <2>2. observed[r].uri = URIApplyingRules(url[r], rules)
      BY <1>1 DEF IInv, ObservedOnce
    <2>3. PICK c \in Calls : template[r] = c[1] /\ url[r] = Expand(c[1], c[2])
      BY <1>1, <2>1 DEF IInv, Expanded
    <2>4. CASE seen[r].given
      <3>1. seen[r].uri = URIApplyingRules(template[r], IF seen[r].hasRules THEN rules ELSE <<>>)
        BY <2>1, <2>4 DEF Label, ClientRules
      <3>2. rules \in ToInstrumentRules(SpecPaths) /\ c[1] \in SpecPaths
        BY <1>1, PathsAssumption DEF IInv, Types
      <3>3. { p \in SpecPaths : Matches(p, RawPath(Expand(c[1], c[2]))) } = {c[1]}
        BY <1>1, <2>3, <2>4
      <3>4. seen[r].hasRules \/ Decoded(c[1]) = c[1]
        BY <1>1, <2>3, <2>4
      <3>5. URIApplyingRules(c[1], IF seen[r].hasRules THEN rules ELSE <<>>)
              = URIApplyingRules(Expand(c[1], c[2]), rules)
        BY <2>1, <3>2, <3>3, <3>4, TemplatesAgree
      <3> QED BY <2>2, <2>3, <3>1, <3>5
    <2>5. CASE ~seen[r].given
      <3>1. /\ seen[r].hasRules /\ IsDefault(url[r])
            /\ \A i \in DOMAIN url[r] : Decoded(url[r])[i] \notin {"x?y", "%", "m%65"}
        BY <1>1, <2>5
      <3>2. seen[r].uri = URIApplyingRules(Cut(Decoded(url[r])), rules)
        BY <2>1, <2>5, <3>1 DEF Label, ClientRules
      <3>3. url[r] \in Seq(STRING)
        <4>1. c[1] \in Seq(STRING) /\ c[2] \in [DOMAIN c[1] -> STRING]
          BY PathsAssumption
        <4> QED BY <2>3, <4>1 DEF Expand
      <3>4. ~Contains(url[r], Slashed) /\ DOMAIN url[r] \subseteq Nat
        BY <3>1, <3>3 DEF Contains, IsDefault
      <3> QED BY <2>2, <3>1, <3>2, <3>4, PathsAgree
    <2> QED BY <2>4, <2>5
  <1>2. IInv => LabelsAgree
    BY <1>1 DEF LabelsAgree
  <1> QED BY <1>2, Invariance, PTL

(* A handler behind a required token is called only with all the claims,   *)
(* and with the token if it is to be stored.                               *)
THEOREM ClaimsComplete == Spec => []ClaimsReachHandler
  <1>1. IInv => ClaimsReachHandler
    BY DEF IInv
  <1> QED BY <1>1, Invariance, PTL

=============================================================================
