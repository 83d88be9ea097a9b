----------------------------- MODULE JobOptions -----------------------------
(***************************************************************************)
(* The way of a job's options from the request body to the execution.  The *)
(* validator bounds them, the handler fills in what its endpoint needs,    *)
(* they are copied into the row and into the payload, travel as JSON, and  *)
(* the worker and the crawl fill in the rest.  An option is a pointer in   *)
(* the Go structs; a nil pointer is Unset here, and nil options are the    *)
(* record with every field Unset, which all of this code treats alike.     *)
(*                                                                         *)
(* Extract types are in lower case: the validator and buildExtractSet both *)
(* lower them before they look.                                            *)
(***************************************************************************)
EXTENDS Integers

CONSTANTS
    Unset,
    DefaultTimeout,    \* DEFAULT_TIMEOUT_SEC of the worker process
    DefaultRetries     \* DEFAULT_MAX_RETRIES of the worker process

ASSUME DefaultsAssumption ==
    /\ Unset \notin Int \cup BOOLEAN
    /\ DefaultTimeout \in Int
    /\ DefaultRetries \in Int

\* RequestOptions, store.JobOptions and queue.PayloadOptions.
Fields == {"TimeoutSeconds", "MaxRetries", "FollowRedirects", "MaxPages",
           "MaxDepth", "MaxURLs", "RenderJS"}
Flags  == {"FollowRedirects", "RenderJS"}

IsOptions(o) ==
    /\ o = [f \in Fields |-> o[f]]
    /\ \A f \in Fields : o[f] \in {Unset} \cup (IF f \in Flags THEN BOOLEAN ELSE Int)

\* The value of a pointer, or what stands in for nil.
Or(option, default) == IF option = Unset THEN default ELSE option

-----------------------------------------------------------------------------
(***************************************************************************)
(* validateOptions, validateExtract and the three functions around them.   *)
(***************************************************************************)
Within(option, low, high) ==
    option # Unset => low <= option /\ option <= high

validateOptions(o) ==
    /\ Within(o["TimeoutSeconds"], 1, 60)
    /\ Within(o["MaxRetries"], 0, 5)
    /\ Within(o["MaxPages"], 1, 100)
    /\ Within(o["MaxDepth"], 0, 5)
    /\ Within(o["MaxURLs"], 1, 500)

validExtractTypes ==
    {"links", "headers", "paragraphs", "markdown", "html", "raw_html"}

\* A body whose JSON binds, with a usable URL or without.
IsRequest(request) ==
    /\ request.kind \in {"scrape", "crawl", "map"}
    /\ request.url \in BOOLEAN
    /\ request.extract \subseteq validExtractTypes \cup {"tables"}
    /\ IsOptions(request.options)

Valid(request) ==
    /\ request.url
    /\ request.kind # "map" => request.extract \subseteq validExtractTypes
    /\ validateOptions(request.options)

-----------------------------------------------------------------------------
(***************************************************************************)
(* The handlers of the three endpoints, acceptJob and the two copies.      *)
(***************************************************************************)
HandlerExtract(request) ==
    IF request.kind # "map" /\ request.extract # {} THEN request.extract
    ELSE IF request.kind = "crawl" THEN {"markdown"} ELSE {"links"}

\* What an endpoint fills in when the client left a field out.
HandlerDefault(kind, field) ==
    CASE kind = "crawl" /\ field = "MaxPages"            -> 10
      [] kind = "map" /\ field = "MaxURLs"               -> 50
      [] kind \in {"crawl", "map"} /\ field = "MaxDepth" -> 2
      [] OTHER                                           -> Unset

HandlerOptions(kind, o) == [f \in Fields |-> Or(o[f], HandlerDefault(kind, f))]

\* Mutant: a copy that was not extended when RenderJS came.
CopyWithoutRenderJS(o) ==
    [f \in Fields |-> IF f = "RenderJS" THEN Unset ELSE o[f]]

requestToJobOptions(o) == [f \in Fields |-> o[f]]

toPayloadOptions(o) == [f \in Fields |-> o[f]]

\* The JSON in the list: omitempty leaves out nil pointers, and only those.
Marshal(o) == [f \in {g \in Fields : o[g] # Unset} |-> o[f]]

Unmarshal(json) == [f \in Fields |-> IF f \in DOMAIN json THEN json[f] ELSE Unset]

JobPayload(request) ==
    LET jobOpts == requestToJobOptions(HandlerOptions(request.kind, request.options))
    IN  [kind    |-> request.kind,
         extract |-> HandlerExtract(request),
         options |-> Marshal(toPayloadOptions(jobOpts))]

-----------------------------------------------------------------------------
(***************************************************************************)
(* processJob: what it calls the scraper, CrawlBFS or MapBFS with, and the *)
(* defaults those apply.  limit is the number of pages (of URLs for a map) *)
(* the job may yield, attempts how often a page may be tried: the crawls   *)
(* call ScrapePage once per page, whatever max_retries says.               *)
(***************************************************************************)
\* The crawl.Options of a payload start from zero values.
CrawlLimit(option, default) == IF Or(option, 0) <= 0 THEN default ELSE option
CrawlDepth(option) == IF Or(option, 0) < 0 THEN 2 ELSE Or(option, 0)

Execution(payload) ==
    LET p == Unmarshal(payload.options)
    IN  [kind     |-> payload.kind,
         timeout  |-> Or(p["TimeoutSeconds"], DefaultTimeout),
         follow   |-> Or(p["FollowRedirects"], TRUE),
         render   |-> Or(p["RenderJS"], FALSE),
         extract  |-> CASE payload.kind = "map" -> {"links"}
                        [] payload.kind = "crawl" /\ payload.extract = {} -> {"markdown"}
                        [] OTHER -> payload.extract,
         attempts |-> IF payload.kind = "scrape"
                      THEN Or(p["MaxRetries"], DefaultRetries) ELSE 1,
         limit    |-> CASE payload.kind = "crawl" -> CrawlLimit(p["MaxPages"], 10)
                        [] payload.kind = "map"   -> CrawlLimit(p["MaxURLs"], 50)
                        [] OTHER                  -> 1,
         depth    |-> IF payload.kind = "scrape"
                      THEN 0 ELSE CrawlDepth(p["MaxDepth"])]
=============================================================================
