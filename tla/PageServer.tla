----------------------------- MODULE PageServer -----------------------------
(***************************************************************************)
(* The servers of the page: Vite's with the two middlewares of             *)
(* vite.config.ts, a collector of logs and a proxy of the storage, and the *)
(* Express server of a build (server/index.ts).  A request asks for a      *)
(* route of the page or a file, reports logs, or reads the storage.        *)
(***************************************************************************)
EXTENDS Naturals

Answer(status, body) == [status |-> status, body |-> body]

\* What the storage may answer but a signed address, and what the proxy says of it.
StorageError ==
  [refused |-> "Storage backend error", unsigned |-> "Empty signed URL",
   unreachable |-> "Storage proxy error", garbled |-> "Storage proxy error"]

\* vitePluginStorageProxy: what the storage answers is looked at in turn.
StorageAnswer(key, configured, forge) ==
  IF key = "" THEN Answer(400, "Missing storage key")
  ELSE IF ~configured THEN Answer(500, "Storage proxy not configured")
  ELSE IF forge = "signed" THEN Answer(307, "signed URL")
  ELSE Answer(502, StorageError[forge])

\* The middleware of the logs, whose payload is an object or a text of JSON.
LogsAnswer(request) ==
  IF request.payload = "garbled" THEN Answer(400, "") ELSE Answer(200, "success")

\* transformIndexHtml, when a page is served by Vite and when one is built.
PageOf(environment) == IF environment = "production" THEN "page" ELSE "page with collector"

ViteAnswer(s, request) ==
  CASE request.kind = "logs" /\ request.method = "POST" -> LogsAnswer(request)
    [] request.kind = "storage" -> StorageAnswer(request.key, s.configured, s.forge)
    [] request.kind = "file" -> Answer(200, "file")
    [] OTHER -> Answer(200, PageOf(s.environment))

\* express.static, and the page for every other GET.
ExpressAnswer(s, request) ==
  CASE request.method # "GET" -> Answer(404, "")
    [] request.kind = "file" -> Answer(200, "file")
    [] OTHER -> Answer(200, PageOf(s.environment))

ServerAnswer(s, request) ==
  IF s.server = "vite" THEN ViteAnswer(s, request) ELSE ExpressAnswer(s, request)

-----------------------------------------------------------------------------
\* A page that carries the collector was served by the server that takes its reports,
\* unless a build was not made for production; and every route of the page can be
\* opened at both servers (vite.config.ts 81-105, server/index.ts 15-22).
PagesFindTheirServer(s) ==
  LET page == ServerAnswer(s, [kind |-> "route", method |-> "GET", key |-> "", payload |-> "object"])
      report == ServerAnswer(s, [kind |-> "logs", method |-> "POST", key |-> "", payload |-> "object"]) IN
  /\ page.status = 200
  /\ page.body = "page with collector" /\ (s.server = "vite" \/ s.environment = "production") =>
       report.status = 200

\* The proxy redirects only where the storage signed an address for a key it was
\* given, and answers every other request with an error of its own (153-201).
RedirectsAreSigned(s, key) ==
  LET answer == ServerAnswer(s, [kind |-> "storage", method |-> "GET", key |-> key, payload |-> "object"]) IN
  s.server = "vite" =>
    IF key # "" /\ s.configured /\ s.forge = "signed"
    THEN answer = Answer(307, "signed URL")
    ELSE answer.status >= 400
=============================================================================
