-------------------------------- MODULE AiHub --------------------------------
(* The Hugging Face client: a folder's URL parsed, its revision resolved to *)
(* the commit it points at, the folder listed page by page at that commit  *)
(* while the repository moves, and the platform's archive picked from it.   *)
EXTENDS Naturals, Sequences, FiniteSets, Functions
HubSeqs == INSTANCE SequencesExt

CONSTANTS
    Urls,       \* the folder URLs given, as their path segments
    HubFor,     \* the repository the caller's hub is for, as <<owner, name>>
    Pages,      \* per commit: the folder's pages, each a set of entries
                \*   [path, file, platform, hash]
    Unhashed,   \* no hash
    Invalid

\* A commit's pages are of finitely many entries, and no entry is on two.
ASSUME HubAssumption ==
    /\ 1 \in DOMAIN Pages /\ DOMAIN Pages \subseteq Nat \ {0}
    /\ \A commit \in DOMAIN Pages :
          LET pages == Pages[commit]
          IN /\ DOMAIN pages = 1 .. Len(pages) /\ Len(pages) \in Nat
             /\ \A i \in DOMAIN pages : IsFiniteSet(pages[i]) /\ Invalid \notin pages[i]
             /\ \A i, j \in DOMAIN pages : i # j => pages[i] \cap pages[j] = {}
    /\ Invalid \notin [rev : Nat, page : Nat]

VARIABLES
    head,       \* the commit the revision points at
    reading     \* the listing being read: see Unread

hubVars == <<head, reading>>
Commits == DOMAIN Pages
Nowhere == [rev |-> 0, page |-> 0]
Unread == [at |-> "rest", folder |-> Invalid, commit |-> 0, url |-> Nowhere,
           visited |-> {}, files |-> << >>, strict |-> FALSE, error |-> "none"]

\* Folder::parse on what follows the host: owner, repo, "tree", revision, and
\* a folder none of whose segments is a dot or two; Source wants two segments.
Parse(segments) ==
    IF /\ Len(segments) >= 5 /\ segments[3] = "tree"
       /\ \A i \in 5 .. Len(segments) : segments[i] \notin {".", ".."}
      THEN [repo |-> SubSeq(segments, 1, 2), revision |-> segments[4],
            path |-> SubSeq(segments, 5, Len(segments))]
      ELSE Invalid
HubSource(segments) ==
    LET folder == Parse(segments)
    IN IF folder = Invalid THEN Invalid
       ELSE IF Len(folder.path) < 2 THEN Invalid ELSE folder

\* The platform's archive: the only file of the listing named for it.
asset_for(files, platform) ==
    LET named == {i \in DOMAIN files : files[i].platform = platform}
    IN IF Cardinality(named) = 1 THEN files[CHOOSE i \in named : TRUE] ELSE Invalid

\* A push moves the branch, at any moment.
Push ==
    /\ head + 1 \in Commits
    /\ head' = head + 1
    /\ UNCHANGED reading

\* Strictly, for an archive's Source: an entry with no hash is refused.  For
\* Listing::read it is left out.  Nothing is asked of another's hub.
Read ==
    /\ reading.at \in {"rest", "done"}
    /\ \E url \in Urls, strict \in BOOLEAN :
          LET folder == IF strict THEN HubSource(url) ELSE Parse(url)
          IN reading' =
               IF folder = Invalid THEN [Unread EXCEPT !.error = "url"]
               ELSE IF folder.repo # HubFor THEN [Unread EXCEPT !.error = "repository"]
               ELSE [Unread EXCEPT !.at = "resolve", !.folder = folder, !.strict = strict]
    /\ UNCHANGED head

\* What a failed request means: Network, a status, or a body that was cut
\* off or is not the API's, which all end the listing.
HubFails ==
    /\ reading.at \in {"resolve", "list"}
    /\ \E error \in {"network", "status", "malformed"} :
          reading' = [Unread EXCEPT !.error = error]
    /\ UNCHANGED head

ListedAtRevision(commit) == 0           \* the branch, whatever it is by then
ListedAt(commit) == commit
Resolve ==
    /\ reading.at = "resolve"
    /\ reading' = [reading EXCEPT !.at = "list", !.commit = head,
                      !.url = [rev |-> ListedAt(head), page |-> 1]]
    /\ UNCHANGED head

\* The server's side of a page: its entries, and the page its Link names,
\* which may be one it should not be.
TreePage(url) == Pages[IF url.rev = 0 THEN head ELSE url.rev]
TreeEntries(url) == IF url.page \in DOMAIN TreePage(url) THEN TreePage(url)[url.page] ELSE {}
Links(url) ==
    IF url.page < Len(TreePage(url))
      THEN {[url EXCEPT !.page = @ + 1], [url EXCEPT !.page = 1], Nowhere}
      ELSE {Invalid}

\* parse_page: the files, with the LFS hash before the blob's, in any order.
ParsePage(entries, strict) ==
    LET files == {e \in entries : e.file}
    IN IF strict /\ \E e \in files : e.hash = Unhashed THEN Invalid
       ELSE HubSeqs!SetToSeq({e \in files : e.hash # Unhashed})

\* Only this hub's own pages, and only one not read yet.
FollowAny(next, visited) == next # Nowhere
Follow(next, visited) == next # Nowhere /\ next \notin visited
List ==
    /\ reading.at = "list"
    /\ \E next \in Links(reading.url) :
          LET parsed == ParsePage(TreeEntries(reading.url), reading.strict)
              read == [reading EXCEPT !.visited = @ \cup {reading.url},
                                      !.files = @ \o parsed]
          IN reading' =
               IF parsed = Invalid THEN [Unread EXCEPT !.error = "malformed"]
               ELSE IF next = Invalid THEN [read EXCEPT !.at = "done"]
               ELSE IF ~Follow(next, read.visited)
                 THEN [Unread EXCEPT !.error = "malformed"]
               ELSE [read EXCEPT !.url = next]
    /\ UNCHANGED head

HubInit == head = 1 /\ reading = Unread
HubNext == Push \/ Read \/ HubFails \/ Resolve \/ List

HubSpec == HubInit /\ [][HubNext]_hubVars

(* A listing that was read whole has each verifiable file of its folder at  *)
(* its one commit, and each once, wherever the branch went meanwhile and    *)
(* whichever page the server named next; and the archive picked from it is  *)
(* the commit's only one for the platform (Listing::read_with, list_pages). *)
OneRevision ==
    reading.at = "done" =>
        LET there == {e \in UNION Range(Pages[reading.commit]) :
                        e.file /\ e.hash # Unhashed}
        IN /\ Range(reading.files) = there
           /\ Len(reading.files) = Cardinality(there)
           /\ \A e \in there :
                asset_for(reading.files, e.platform) # Invalid
                  <=> \A d \in there : d.platform = e.platform => d = e
=============================================================================
