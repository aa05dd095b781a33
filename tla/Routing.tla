--------------------------------- MODULE Routing ---------------------------------
(***************************************************************************)
(* How a URL finds an engine: AddURL and route when it is added, and again *)
(* selectRunner in startOne (internal/engine/app.go), the engines'         *)
(* CanHandle, and what FileEngine.Run and ArticleEngine.Run then do with   *)
(* the content type the server declares.                                   *)
(***************************************************************************)
EXTENDS Naturals, Sequences

\* What routing sees of an argument. form: "url" has "://" and parses with scheme
\* and host; "bare" parses with both once https:// is put before it; "hostless"
\* has "://" but no host; "blank" has nothing. path: one that ends in a known
\* file extension, the path of a GitHub blob page, both, or another one.
Raws == [form : {"url", "bare", "hostless", "blank"},
         scheme : {"http", "https", "ftp"},
         host : {"media", "github", "www.github", "other"},
         path : {"ext", "blob", "blob.ext", "plain"}]

\* What a HEAD request for the URL says of its content; "none" if it learns nothing.
Types == {"html", "binary", "none"}

VARIABLES
  raw,     \* the argument
  ctype,   \* what the server declares for it
  url,     \* what AddURL parsed
  kind,    \* Kind of the queued job
  runner,  \* engine startOne selected
  phase,   \* "given", "refused" by AddURL, "queued", "selected", "ended"
  outcome  \* what Run made of it

vars == <<raw, ctype, url, kind, runner, phase, outcome>>

Engines == <<"media", "file", "article">>

FileExt(u) == u.path \in {"ext", "blob.ext"}
Blob(u) == u.path \in {"blob", "blob.ext"}
Web(u) == u.scheme \in {"http", "https"}

CanHandle(e, u) ==
  \/ e = "media" /\ u.host = "media"
  \/ e = "file" /\ (FileExt(u) \/ Web(u))
  \/ e = "article" /\ Web(u)

Handles(e, u) == IF CanHandle(e, u) THEN e ELSE "nil"

\* A loop that returns the first engine it finds.
FirstOf(found) ==
  LET fits == {i \in 1 .. Len(found) : found[i] # "nil"}
  IN IF fits = {} THEN "nil" ELSE found[CHOOSE i \in fits : \A k \in fits : i <= k]

route(u) == FirstOf([i \in 1 .. Len(Engines) |-> Handles(Engines[i], u)])

\* A HEAD request; anything but an answer that says html means a file.
probeKind(u) ==
  IF ~Web(u) THEN "unknown" ELSE IF ctype = "html" THEN "article" ELSE "file"

\* The loops of selectRunner in their order; the first that finds an engine ends it.
Choices(u) ==
  <<Handles("media", u), Handles("file", u),
    IF probeKind(u) = "unknown" THEN "nil" ELSE Handles(probeKind(u), u),
    Handles("article", u), Handles("file", u)>>

\* Mutant of selectRunner: pages are probed for before the file engine is asked.
SelectRunnerProbing(u) == FirstOf(<<Handles("media", u), Choices(u)[3], Handles("file", u)>>)

selectRunner(u) == FirstOf(Choices(u))

\* rewriteGitHubRawURL: only the exact host. The link it makes has scheme https.
Rewritten(u) == u.host = "github" /\ Blob(u)

\* The HTTP client knows no other scheme.
Requestable(u) == Web(u) \/ Rewritten(u)

Init ==
  /\ raw \in Raws
  /\ ctype \in Types
  /\ Blob(raw) /\ raw.host \in {"github", "www.github"} => ctype = "html"
  /\ url = raw
  /\ kind = "nil" /\ runner = "nil" /\ phase = "given" /\ outcome = "none"

AddURL ==
  /\ phase = "given"
  /\ url' = IF raw.form = "bare" THEN [raw EXCEPT !.scheme = "https"] ELSE raw
  /\ IF raw.form \in {"hostless", "blank"} \/ route(url') = "nil"
     THEN phase' = "refused" /\ kind' = "nil"
     ELSE phase' = "queued" /\ kind' = route(url')
  /\ UNCHANGED <<raw, ctype, runner, outcome>>

SelectRunner ==
  /\ phase = "queued"
  /\ runner' = selectRunner(url)
  /\ phase' = IF runner' = "nil" THEN "ended" ELSE "selected"
  /\ outcome' = IF runner' = "nil" THEN "no engine" ELSE "none"
  /\ UNCHANGED <<raw, ctype, url, kind>>

\* resolveDownloadURL asks with HEAD and, having learned nothing, with a ranged GET.
\* An error page answers as well, with its own type; nobody knows what is behind
\* a rewritten link.
Learned(u) ==
  IF ~Requestable(u) THEN {"none"}
  ELSE {"html", "none"} \cup (IF Rewritten(u) THEN {"binary"} ELSE {ctype})

\* FileEngine.Run: what declares itself a page is refused, everything else goes to
\* downloadStreaming (Stream).
RunFile(learned) ==
  IF learned = "html" THEN "page refused"
  ELSE IF Requestable(url) THEN "downloading" ELSE "network error"

\* ArticleEngine.Run: one GET, and then the file, written beside and renamed. If
\* HEAD told nothing, the answer has any type.
RunArticle ==
  {"network error", "http error"}
    \cup (IF ctype = "html" THEN {} ELSE {"not a page"})
    \cup (IF ctype = "binary" THEN {} ELSE {"no content", "disk error", "article written"})

Run ==
  /\ phase = "selected"
  /\ outcome' \in CASE runner = "file" -> {RunFile(learned) : learned \in Learned(url)}
                    [] runner = "article" -> RunArticle
                    [] runner = "media" -> {"extracting"}
  /\ phase' = "ended"
  /\ UNCHANGED <<raw, ctype, url, kind, runner>>

Next == AddURL \/ SelectRunner \/ Run

Spec == Init /\ [][Next]_vars

-----------------------------------------------------------------------------
(* Properties                                                                *)

\* The two routing passes agree: the engine that runs a job is of the Kind shown
\* for it, and a URL AddURL accepted always has one (startOne's "No engine
\* supports this URL" is never reached).
RunnerIsKind == phase \in {"selected", "ended"} => runner # "nil" /\ runner = kind

\* "Public articles (extracts clean Markdown)" (README.md:15) and "Probe
\* content-type quickly to decide Article vs File for extensionless URLs"
\* (app.go:303): a web page that is no media and no file is given to ArticleEngine.
\* Its probe answers: ctype is what HEAD says.
PagesBecomeArticles ==
  phase = "ended" /\ ctype = "html" /\ url.host = "other" /\ url.path = "plain"
    /\ runner # "nil" /\ Web(url)
    => runner = "article"

=============================================================================
