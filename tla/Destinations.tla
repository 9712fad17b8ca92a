---------------------------- MODULE Destinations ----------------------------
(***************************************************************************)
(* Where a request may go (tracelock_services/destinations.py): a URL is   *)
(* held against the entry registered for its destination, then resolved.   *)
(*                                                                         *)
(* A URL is its parts, lower-cased and without a final dot of the host,    *)
(* as the comparisons take them; port 0 stands for none written; a URL is  *)
(* malformed as a whole ("url"), in its port ("port"), or not ("no").  Of  *)
(* the addresses a name resolves to only this matters: "public", all are;  *)
(* "special", one of them is private, reserved, or no address at all;      *)
(* "empty"; "error", the resolver raised OSError.                          *)
(***************************************************************************)
EXTENDS Naturals, Checks

CONSTANT Unregistered   \* dict.get of an unknown destination

Resolutions == {"public", "special", "empty", "error"}

DefaultPort(scheme) == IF scheme = "https" THEN 443 ELSE 80

ValidateStructure(url, entry) ==
  Outcome(
    << <<"malformed_destination_url", url.malformed = "url">>,
       <<"scheme_mismatch", url.scheme # entry.scheme>>,
       <<"tls_required", entry.requireTls /\ url.scheme # "https">>,
       <<"userinfo_not_allowed", url.userinfo>>,
       <<"missing_host", url.host = "">>,
       <<"host_mismatch", url.host # entry.host>>,
       <<"malformed_destination_url", url.malformed = "port">>,
       <<"port_mismatch",
         (IF url.port = 0 THEN DefaultPort(url.scheme) ELSE url.port) # entry.port>>,
       <<"query_or_fragment_not_allowed", url.query>>,
       <<"path_not_registered", url.path \notin entry.paths>> >>, "validated")

ValidateResolution(resolution) ==
  Outcome(
    << <<"destination_resolution_failed", resolution = "error">>,
       <<"destination_resolution_empty", resolution = "empty">>,
       <<"private_or_special_address", resolution = "special">> >>, "validated")

ValidateDestination(entry, url, resolution) ==
  Then(Outcome(<< <<"unregistered_destination", entry = Unregistered>> >>, "validated"),
       Then(ValidateStructure(url, entry), ValidateResolution(resolution)))

\* The URL that is used: the entry's host and port, the requested path.
CanonicalUrl(url, entry) ==
  [scheme |-> url.scheme, host |-> entry.host, port |-> entry.port, path |-> url.path]
=============================================================================
