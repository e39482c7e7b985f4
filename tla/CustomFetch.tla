----------------------------- MODULE CustomFetch -----------------------------
(***************************************************************************)
(* lib/api-client-react: customFetch, the fetch of the generated client.   *)
(* A call computes its request synchronously, waits for the token of the   *)
(* configured getter, fetches, and reads the body; the module-level        *)
(* configuration may change at any of the waits.  Calls share nothing      *)
(* else, so one call at a time is enough.                                  *)
(***************************************************************************)
EXTENDS Integers, FiniteSets

CONSTANTS Bases,    \* base URLs
          Getters   \* token getters

VARIABLES baseUrl,    \* _baseUrl
          getter,     \* _authTokenGetter
          fetching    \* the call: where it is, what it sends, how it ended

fetchVars == <<baseUrl, getter, fetching>>

Null == "null"

(* The calls: the kind of input, and of the options what decides: method,  *)
(* body, an Authorization header, responseType.  Only a string can be      *)
(* relative: the url of a URL or a Request is absolute.                    *)
Inputs == {[kind |-> "string", relative |-> r] : r \in BOOLEAN}
            \cup {[kind |-> k, relative |-> FALSE] : k \in {"url", "request"}}
Options == [method : {"none", "GET", "HEAD", "POST"}, body : BOOLEAN,
            authorization : BOOLEAN, responseType : {"json", "text", "blob", "auto"}]

NotCalled == [at |-> "idle"]
Settled(ok, legible, end) == [at |-> "settled", ok |-> ok, legible |-> legible,
                              out |-> end.out, data |-> end.data]
FetchInit == baseUrl = Null /\ getter = Null /\ fetching = NotCalled

(* setBaseUrl and setAuthTokenGetter *)
SetBaseUrl(b) == b # baseUrl /\ baseUrl' = b /\ UNCHANGED <<getter, fetching>>
SetAuthTokenGetter(g) == g # getter /\ getter' = g /\ UNCHANGED <<baseUrl, fetching>>

-----------------------------------------------------------------------------
(* A Request without an explicit method brings its own; here, GET or POST. *)
ResolveMethod(input, options, own) ==
  IF options.method # "none" THEN options.method
  ELSE IF input.kind = "request" THEN own ELSE "GET"

ApplyBaseUrl(input) == IF baseUrl # Null /\ input.relative THEN baseUrl ELSE Null

(* mergeHeaders, of a Request's own headers and the options': the          *)
(* Authorization that is sent unless the getter is asked for one.          *)
MergeHeaders(options) == IF options.authorization THEN "own" ELSE Null

(* Slip: the getter is asked whatever headers the caller gave. *)
AsksGetterAlways(options) == getter # Null
AsksGetter(options) == getter # Null /\ MergeHeaders(options) = Null

(* The synchronous part of customFetch: base, method, the check of the     *)
(* body, headers, and the call of the getter.  given: whether the caller   *)
(* brought an Authorization header of its own.                             *)
CustomFetch(input, options, own) ==
  LET method == ResolveMethod(input, options, own)
      ask == AsksGetter(options)
  IN /\ fetching.at \in {"idle", "settled"}
     /\ fetching' = IF options.body /\ method \in {"GET", "HEAD"}
                    THEN Settled(TRUE, TRUE, [out |-> "TypeError", data |-> Null])
                    ELSE [at |-> IF ask THEN "token" ELSE "fetch",
                          base |-> ApplyBaseUrl(input), relative |-> input.relative,
                          method |-> method, responseType |-> options.responseType,
                          authorization |-> MergeHeaders(options),
                          given |-> options.authorization,
                          asked |-> <<baseUrl, IF ask THEN getter ELSE Null>>]
     /\ UNCHANGED <<baseUrl, getter>>

(* Slip: the base URL is applied once the token is there. *)
TokenArrivesLate ==
  /\ fetching.at = "token"
  /\ fetching' = [fetching EXCEPT !.at = "fetch", !.authorization = fetching.asked[2],
                                  !.base = IF fetching.relative THEN baseUrl ELSE Null]
  /\ UNCHANGED <<baseUrl, getter>>

(* The getter answers with a token, with null, or fails. *)
TokenArrives ==
  /\ fetching.at = "token"
  /\ \/ fetching' = [fetching EXCEPT !.at = "fetch", !.authorization = fetching.asked[2]]
     \/ fetching' = [fetching EXCEPT !.at = "fetch"]
     \/ fetching' = Settled(TRUE, TRUE, [out |-> "GetterError", data |-> Null])
  /\ UNCHANGED <<baseUrl, getter>>

-----------------------------------------------------------------------------
(* A response: its status, whether it says that it has no body (204 and    *)
(* its like, content-length 0, a null body), the media type, the body as   *)
(* text (cut: it breaks off while it is read), and whether there is blob().*)
Responses == [ok : BOOLEAN, empty : BOOLEAN, media : {"none", "json", "text", "other"},
              text : {"blank", "object", "broken", "plain", "cut"}, blob : BOOLEAN]

Failed(error) == [out |-> error, data |-> Null]
Value(data) == [out |-> "value", data |-> data]
ApiError(data) == [out |-> "ApiError", data |-> data]

HasNoBody(r, method) == method = "HEAD" \/ r.empty

LooksLikeJson(r) == r.text \in {"object", "broken"}

ParseJsonBody(r) ==
  CASE r.text = "cut" -> Failed("TypeError")
    [] r.text = "blank" -> Value(Null)
    [] r.text = "object" -> Value("parsed")
    [] r.text \in {"broken", "plain"} -> Failed("ResponseParseError")

(* parseErrorBody and the ApiError made of it: the data is parsed JSON,    *)
(* the raw text, a blob or null.                                           *)
ParseErrorBody(r, method) ==
  CASE HasNoBody(r, method) -> ApiError(Null)
    [] ~HasNoBody(r, method) /\ r.text = "cut" -> Failed("TypeError")
    [] ~HasNoBody(r, method) /\ r.text # "cut" ->
         ApiError(IF r.media = "other" THEN IF r.blob THEN "blob" ELSE "raw"
                  ELSE IF r.text = "blank" THEN Null
                  ELSE IF r.text = "object" /\ (r.media = "json" \/ LooksLikeJson(r)) THEN "parsed"
                  ELSE "raw")

InferResponseType(r) ==
  CASE r.media = "json" -> "json"
    [] r.media \in {"text", "none"} -> "text"
    [] r.media = "other" -> "blob"

ParseSuccessBody(r, method, responseType) ==
  LET type == IF responseType = "auto" THEN InferResponseType(r) ELSE responseType
  IN IF HasNoBody(r, method) THEN Value(Null)
     ELSE CASE type = "json" -> ParseJsonBody(r)
            [] type = "text" -> IF r.text = "cut" THEN Failed("TypeError")
                                ELSE Value(IF r.text = "blank" THEN Null ELSE "raw")
            [] type = "blob" -> IF ~r.blob \/ r.text = "cut" THEN Failed("TypeError")
                                ELSE Value("blob")

(* The fetch fails, or its response is read to the end of the call. *)
ResponseArrives ==
  /\ fetching.at = "fetch"
  /\ \/ fetching' = Settled(TRUE, FALSE, Failed("TypeError"))
     \/ \E r \in Responses :
          fetching' = Settled(r.ok, r.text # "cut" \/ HasNoBody(r, fetching.method),
                        IF r.ok THEN ParseSuccessBody(r, fetching.method, fetching.responseType)
                        ELSE ParseErrorBody(r, fetching.method))
  /\ UNCHANGED <<baseUrl, getter>>

(* healthCheck of the generated client is such a call, whatever options    *)
(* the caller passes but the method; useHealthCheck makes it as a query.   *)
HealthCheck(options) == CustomFetch([kind |-> "string", relative |-> TRUE],
                                    [options EXCEPT !.method = "GET"], "GET")
UseHealthCheck == \E options \in Options : HealthCheck(options)

FetchNext ==
  \/ \E b \in Bases \cup {Null} : SetBaseUrl(b)
  \/ \E g \in Getters \cup {Null} : SetAuthTokenGetter(g)
  \/ \E input \in Inputs, options \in Options, own \in {"GET", "POST"} :
       CustomFetch(input, options, own)
  \/ UseHealthCheck
  \/ TokenArrives
  \/ ResponseArrives

-----------------------------------------------------------------------------
(* A call is sent to the base URL, and with the token of the getter, that  *)
(* were configured when it was made, whatever is configured while it waits *)
(* for the token, and a caller's own Authorization header is never         *)
(* replaced.  A refusal whose body can be read to its end is an ApiError,  *)
(* however wrong the body is for its media type; a success never is one.   *)
FetchSound ==
  /\ fetching.at = "fetch" =>
       /\ fetching.base = IF fetching.relative THEN fetching.asked[1] ELSE Null
       /\ IF fetching.given THEN fetching.authorization = "own"
          ELSE fetching.authorization \in {Null, fetching.asked[2]}
  /\ fetching.at = "settled" =>
       /\ ~fetching.ok /\ fetching.legible => fetching.out = "ApiError"
       /\ fetching.ok => fetching.out # "ApiError"
==============================================================================
