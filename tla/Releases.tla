-------------------------------- MODULE Releases --------------------------------
(***************************************************************************)
(* The releases on GitHub and what the server takes from them: the files   *)
(* of the web client that ClientBundleService downloads, and the release   *)
(* that ServerReleaseService compares the server with.                     *)
(*                                                                         *)
(* The client is a directory of three parts: package.json, and in dist the *)
(* page index.html and its assets.  Each is of a version, or missing.      *)
(***************************************************************************)
EXTENDS Actors, Integers

CONSTANTS
    Newest,     \* bound: releases are the versions 1 .. Newest
    Minimum,    \* the client version this server needs
    Installed   \* the server's version

ASSUME ReleaseBounds == Newest \in Nat \ {0} /\ {Minimum, Installed} \subseteq 1..Newest

VARIABLES
    client,     \* client[part]: the version of its files, 0 if they are missing
    download,   \* download[r]: the client update request r is about
    torn,       \* history: an interrupted or overlapped update may have left a part of dist
    bootFetch,  \* what the download task has come to since the server started
    published,  \* the latest release of the server on GitHub
    told,       \* what getState tells: the latest release and whether it is an update
    syncing     \* syncing[r]: the latest release request r has got from GitHub

releaseVars == <<client, download, torn, bootFetch, published, told, syncing>>

Part == {"package", "index", "assets"}
Dist == {"index", "assets"}
Release == 1..Newest
NoDownload == [tag |-> 0, left |-> {}, step |-> "idle"]

ReleasesTypeOK ==
    /\ client \in [Part -> Release \cup {0}]
    /\ download \in [Request -> [tag : Release \cup {0}, left : SUBSET Part,
                                 step : {"idle", "fetch", "clear"}]]
    /\ torn \in BOOLEAN
    /\ bootFetch \in Request \cup {None, "done", "waiting"}
    /\ published \in Release
    /\ told \in [latest : Release \cup {0}, available : BOOLEAN]
    /\ syncing \in [Request -> Release \cup {0, -1}]

Unused(r) == download[r].step = "idle" /\ syncing[r] = -1
Clearing == {r \in Request : download[r].step = "clear"}
Present(b) == {part \in Part : b[part] # 0}

-----------------------------------------------------------------------------
(* The client bundle.                                                      *)

\* checkVersionSatisfiesMinimum
Satisfies(v) == v >= Minimum

\* Variant: index.html is not looked for
VersionOnly(b) == b["package"] = 0 \/ ~Satisfies(b["package"])

\* shouldUpdateWithReason; the switch is the name of an environment variable, always true
ShouldUpdate(b) == b["package"] = 0 \/ b["index"] = 0 \/ ~Satisfies(b["package"])

\* ClientDistDownloadTask.run, once after the start
TaskDecides(r) ==
    /\ Unused(r) /\ bootFetch = "waiting"
    /\ IF ShouldUpdate(client)
       THEN /\ download' = [download EXCEPT ![r] = [tag |-> Minimum, left |-> {}, step |-> "fetch"]]
            /\ bootFetch' = r
       ELSE bootFetch' = "done" /\ UNCHANGED download
    /\ UNCHANGED <<client, torn, published, told, syncing>>

\* updateClientBundleGithub: any release
AskUpdate(r, tag) ==
    /\ Unused(r)
    /\ download' = [download EXCEPT ![r] = [tag |-> tag, left |-> {}, step |-> "fetch"]]
    /\ UNCHANGED <<client, torn, bootFetch, published, told, syncing>>

\* The entries of the directory: dist is removed with all it holds
Entries(b) == (Present(b) \cap {"package"}) \cup (IF Present(b) \cap Dist # {} THEN Dist ELSE {})

\* Release, asset, ZIP and its directory have been read; the client's files are listed
Fetched(r) ==
    /\ download[r].step = "fetch"
    /\ download' = [download EXCEPT ![r].step = "clear", ![r].left = Entries(client)]
    /\ torn' = (torn \/ Clearing # {})
    /\ UNCHANGED <<client, bootFetch, published, told, syncing>>

\* rm, one entry after the other, with what the directory has by then
RemovePart(r, part) ==
    /\ download[r].step = "clear" /\ part \in download[r].left
    /\ part = "package" => download[r].left \cap Dist \in {{}, Dist}
    /\ client' = [client EXCEPT ![part] = 0]
    /\ download' = [download EXCEPT ![r].left = @ \ {part}]
    /\ UNCHANGED <<torn, bootFetch, published, told, syncing>>

UpdateEnds(r, ok) ==
    /\ download' = [download EXCEPT ![r] = NoDownload]
    /\ bootFetch' = IF bootFetch = r THEN IF ok THEN "done" ELSE None ELSE bootFetch

\* extractAllTo writes all files in one step
Extract(r) ==
    /\ download[r].step = "clear" /\ download[r].left = {}
    /\ client' = [part \in Part |-> download[r].tag]
    /\ torn' = (torn /\ Clearing # {r})
    /\ UpdateEnds(r, TRUE)
    /\ UNCHANGED <<published, told, syncing>>

\* ... or stops somewhere, as at a full disk
ExtractFails(r) ==
    /\ download[r].step = "clear" /\ download[r].left = {}
    /\ \E parts \in SUBSET Part :
          client' = [part \in Part |-> IF part \in parts THEN download[r].tag ELSE client[part]]
    /\ torn' = TRUE
    /\ UpdateEnds(r, FALSE)
    /\ UNCHANGED <<published, told, syncing>>

HalfCleared(r) == download[r].left \cap Dist \notin {{}, Dist}

\* No such release, no asset of that name, no connection, an unreadable ZIP; or rm fails
UpdateFails(r) ==
    /\ download[r].step # "idle" /\ (download[r].step = "clear" => download[r].left # {})
    /\ torn' = (torn \/ HalfCleared(r))
    /\ UpdateEnds(r, FALSE)
    /\ UNCHANGED <<client, published, told, syncing>>

-----------------------------------------------------------------------------
(* The server's release.                                                   *)

ReleasePublished ==
    /\ published < Newest
    /\ published' = published + 1
    /\ UNCHANGED <<client, download, torn, bootFetch, told, syncing>>

\* syncLatestRelease with a GitHub token: the list of releases, then the latest one.  Without
\* a token, and when a request fails, nothing changes.
GetLatest(r) ==
    /\ Unused(r)
    /\ \E latest \in {0, published} : syncing' = [syncing EXCEPT ![r] = latest]
    /\ UNCHANGED <<client, download, torn, bootFetch, published, told>>

Compared(latest) == [latest |-> latest, available |-> latest > Installed]

\* The replies are there; an empty list of releases keeps what was told before
Synced(r) ==
    /\ syncing[r] # -1
    /\ told' = IF syncing[r] = 0 THEN told ELSE Compared(syncing[r])
    /\ syncing' = [syncing EXCEPT ![r] = -1]
    /\ UNCHANGED <<client, download, torn, bootFetch, published>>

\* The process ends, also in the middle of writing files, and starts again
Restarted ==
    /\ \E r \in Request, parts \in SUBSET Part :
          /\ parts = {} \/ (download[r].step = "clear" /\ download[r].left = {})
          /\ client' = [part \in Part |-> IF part \in parts THEN download[r].tag ELSE client[part]]
          /\ torn' = (torn \/ parts # {} \/ \E s \in Request : HalfCleared(s))
    /\ download' = [r \in Request |-> NoDownload]
    /\ bootFetch' = "waiting"
    /\ told' = [latest |-> 0, available |-> FALSE]
    /\ syncing' = [r \in Request |-> -1]
    /\ UNCHANGED published

-----------------------------------------------------------------------------
ReleasesInit ==
    /\ \E v \in Release \cup {0} : client = [part \in Part |-> v]
    /\ download = [r \in Request |-> NoDownload]
    /\ torn = FALSE /\ bootFetch = "waiting"
    /\ published = Installed
    /\ told = [latest |-> 0, available |-> FALSE]
    /\ syncing = [r \in Request |-> -1]

ReleasesNext ==
    \/ \E r \in Request :
          \/ TaskDecides(r) \/ Fetched(r) \/ Extract(r) \/ ExtractFails(r) \/ UpdateFails(r)
          \/ GetLatest(r) \/ Synced(r)
          \/ \E tag \in Release : AskUpdate(r, tag)
          \/ \E part \in Part : RemovePart(r, part)
    \/ ReleasePublished \/ Restarted

ReleasesSpec == ReleasesInit /\ [][ReleasesNext]_releaseVars

-----------------------------------------------------------------------------
(* Properties.                                                             *)

\* A client that the download task would leave alone is whole: page and assets are those of
\* its version.  Excepted are updates under way, and those that were stopped while dist was
\* being removed or written, or overlapped: of dist only the page is looked at.
TrustedIsWhole ==
    torn \/ Clearing # {} \/ ShouldUpdate(client)
        \/ (\A part \in Part : client[part] = client["package"])
=============================================================================
