--------------------------------- MODULE Csrf ---------------------------------
(***************************************************************************)
(* URLs, their origins, and the same-origin check of the routes that       *)
(* change state.  A URL is what Url::parse tells the crate about it;       *)
(* parses is FALSE for a text that is none ("null" is such a text).  An    *)
(* origin is the triple whose ASCII form the crate compares: a default     *)
(* port and the same port written out are one port.                        *)
(***************************************************************************)
EXTENDS ParamNames

Url(scheme, host, port) ==
  [scheme |-> scheme, host |-> host, port |-> port,
   parses |-> TRUE, pad |-> FALSE, len |-> 30]

NotAUrl == [Url("", "", 0) EXCEPT !.parses = FALSE]

\* Schemes with an origin of their own; that of any other scheme is opaque.
TupleSchemes == {"http", "https", "ftp", "ws", "wss"}

Origin(url) == <<url.scheme, url.host, url.port>>

\* tuple_origin
tuple_origin(url) ==
  IF url.parses /\ url.scheme \in TupleSchemes THEN Some(Origin(url)) ELSE None

\* A request's headers; a header that cannot be read counts as absent.
Headers(site, origin, referer) == [site |-> site, origin |-> origin, referer |-> referer]

\* Mutant: a request of another host of the same site passes.
EnsureSameOriginAgainst_SameSite(headers, expected) ==
  IF headers.site # None
  THEN headers.site[1] \in {"same-origin", "same-site"}
  ELSE IF headers.origin # None
       THEN tuple_origin(headers.origin[1]) = Some(expected)
       ELSE headers.referer # None /\ tuple_origin(headers.referer[1]) = Some(expected)

\* ensure_same_origin_against: the first header present decides, none is a no.
EnsureSameOriginAgainst(headers, expected) ==
  IF headers.site # None
  THEN headers.site[1] = "same-origin"
  ELSE IF headers.origin # None
       THEN tuple_origin(headers.origin[1]) = Some(expected)
       ELSE headers.referer # None /\ tuple_origin(headers.referer[1]) = Some(expected)

\* ensure_same_origin: the public form, which takes a URL of the application.
EnsureSameOrigin(headers, url) ==
  IF tuple_origin(url) = None
  THEN "Internal"
  ELSE Check(~EnsureSameOriginAgainst(headers, tuple_origin(url)[1]), "BadRequest")
=============================================================================
