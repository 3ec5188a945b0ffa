---------------------------- MODULE LookupReplies ----------------------------
(***************************************************************************)
(* What the lookup clients and parsers make of a reply: RDAP replies by      *)
(* their HTTP status and the object in their body, WHOIS replies by the       *)
(* markers found in their text, the two sources of endpoint discovery, and    *)
(* the expiration status that follows from the dates of a domain.            *)
(***************************************************************************)
EXTENDS Integers, Sequences

\* The body's object: not a JSON object, an RDAP error, a domain of another name
\* (or of none), the domain asked for.
RdapReply == [status : {200, 404, 429, 500, 503}, retryAfter : BOOLEAN,
              body : {"garbage", "error", "other", "domain"}]

\* _get_checked: the endpoint limits its callers.
Limited(reply) ==
    reply.status = 429 \/ (reply.status = 503 /\ reply.retryAfter)

\* _query_url: an HTTP error other than 404 is raised.
Fetched(reply) == ~Limited(reply) /\ reply.status \in {200, 404}

\* is_not_found_response: a 404 with an RDAP error object in its body.
IsNotFound(reply) == reply.status = 404 /\ reply.body = "error"

\* RdapParser.parse: error objects, HTTP errors and other domains are refused.
Parses(reply) == reply.status < 400 /\ reply.body = "domain"

\* _parse_response for a registry's document.
RegistryKind(reply) ==
    IF IsNotFound(reply) THEN "released"
    ELSE IF Parses(reply) THEN "registered" ELSE "unparsable"

\* A registrar's 404 is a document that does not parse.
RegistrarKind(reply) == IF Parses(reply) THEN "registered" ELSE "unparsable"

FetchedReply == {reply \in RdapReply : Fetched(reply)}

\* KeyValueWhoisParser.classify: the first status, in this order, with a marker in
\* the text.
MarkedStatuses == <<"not_found", "rate_limited", "access_denied", "temporary_failure">>
Marks == {MarkedStatuses[i] : i \in 1..Len(MarkedStatuses)}

\* A text of nothing but blanks, one with none of the configured fields, any other.
WhoisText == {"blank", "foreign", "fields"}

\* Without a marker a blank text is a failure; a text none of whose fields the
\* profile knows is of an unknown format, and any other is a domain.
WhoisStatus(marks, text) ==
    LET found == {i \in 1..Len(MarkedStatuses) : MarkedStatuses[i] \in marks}
    IN  IF found # {}
        THEN MarkedStatuses[CHOOSE i \in found : \A j \in found : i <= j]
        ELSE CASE text = "blank" -> "temporary_failure"
               [] text = "foreign" -> "unknown"
               [] text = "fields" -> "found"

\* ProfiledWhoisParser.parse: only a found domain parses.
WhoisKind(marks, text) ==
    IF WhoisStatus(marks, text) = "found" THEN "registered" ELSE "unparsable"

WhoisKinds == {WhoisKind(marks, text) : marks \in SUBSET Marks, text \in WhoisText}

\* IanaClient.discover: the protocols the referral and the RDAP bootstrap file
\* offer; a source that failed offers none, and none at all is an error.
Discovered(referral, bootstrap) ==
    (IF referral = "server" THEN {"whois"} ELSE {})
      \cup (IF bootstrap = "urls" THEN {"rdap"} ELSE {})

-----------------------------------------------------------------------------
(* The expiration status *)

Missing == -1  \* no date

\* a or b, of dates
Or(a, b) == IF a # Missing THEN a ELSE b

\* _enrich_rdap: the registrar's date for the registrar's expiry, from its own
\* document first.  registrar, registry: [registrar, registry : date]
RegistrarExpiry(registrar, registry) ==
    Or(registrar.registrar, Or(registrar.registry,
       Or(registry.registrar, registry.registry)))

DetermineExpirationStatus(exists, registry, registrar, now) ==
    IF ~exists THEN "released"
    ELSE IF registrar = Missing THEN "unknown"
    ELSE IF registrar > now THEN "active"
    ELSE IF registry # Missing /\ registry > now THEN "grace_period"
    ELSE "expired"

\* The stages a registered domain with an expiry date passes.
Stage(status) ==
    CASE status = "active" -> 1 [] status = "grace_period" -> 2
      [] status = "expired" -> 3 [] OTHER -> 0
=============================================================================
