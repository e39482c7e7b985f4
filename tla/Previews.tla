------------------------------- MODULE Previews -------------------------------
(***************************************************************************)
(* The mockup sandbox: mockupPreviewPlugin.ts, which keeps a generated     *)
(* module with a loader for every mockup file, and the PreviewRenderer of  *)
(* its App.tsx, which loads one of them.  A refresh reads the directory    *)
(* asynchronously; file events, 404s and Vite's hooks ask for refreshes at *)
(* any time.  The page gets the generated module, and later versions of it *)
(* as hot updates, and each time loads its component anew.                 *)
(***************************************************************************)
EXTENDS Integers, FiniteSets

CONSTANTS Mockups,    \* preview targets: .tsx files without an "_" segment
          MaxLoads    \* bound: times the page's effect runs

VARIABLES onDisk,         \* the mockup files there are
          vite,           \* Vite: start | configuring | serving | failed
          scan,           \* the refresh in flight: none | reading | read
          found,          \* what its glob has found
          refreshQueued,
          currentSource,  \* the files of the last source generated, or NoSource
          written,        \* the files of the generated module on disk, or NoSource
          fileEvent,      \* the watcher has seen a change and not told yet
          unseen,         \* a change that no event will tell, since the last read
          broken,         \* a scan or a write failed, and none has made up for it
          componentPath,  \* the mockup of the page's URL, or NoPreview
          modules,        \* the loaders the page has
          loads,          \* loads in flight, as [n, cancelled]
          loadNo,         \* the number of the last effect run
          preview         \* what is rendered: its load, and component | error | gallery | nothing

serverVars == <<onDisk, vite, scan, found, refreshQueued, currentSource, written,
                fileEvent, unseen, broken>>
pageVars == <<componentPath, modules, loads, loadNo, preview>>
previewVars == <<serverVars, pageVars>>

NoSource == {"none"}
Blank == [load |-> 0, is |-> "nothing"]

(* getPreviewPath: what follows /preview/ in the URL, behind the base path *)
NoPreview == "no preview"
PreviewPaths == Mockups \cup {NoPreview}

PreviewsInit ==
  /\ onDisk \in SUBSET Mockups
  /\ vite = "start"
  /\ scan = "none" /\ found = {} /\ refreshQueued = FALSE
  /\ currentSource = NoSource /\ written = NoSource
  /\ fileEvent = FALSE /\ unseen = FALSE /\ broken = FALSE
  /\ componentPath \in PreviewPaths
  /\ modules = NoSource /\ loads = {} /\ loadNo = 0 /\ preview = Blank

-----------------------------------------------------------------------------
(* A mockup file is added or removed; the watcher sees it once it watches. *)
FileChange(f) ==
  /\ onDisk' = IF f \in onDisk THEN onDisk \ {f} ELSE onDisk \cup {f}
  /\ fileEvent' = (vite = "serving")
  /\ unseen' = (unseen \/ vite # "serving")
  /\ UNCHANGED <<vite, scan, found, refreshQueued, currentSource, written, broken, pageVars>>

(* Slip: a refresh that finds one in flight leaves it at that. *)
RefreshDropped == /\ scan' = IF scan = "none" THEN "reading" ELSE scan
                  /\ UNCHANGED refreshQueued

(* refresh(): start, or queue behind the one in flight *)
Refresh == IF scan # "none" THEN refreshQueued' = TRUE /\ UNCHANGED scan
           ELSE scan' = "reading" /\ UNCHANGED refreshQueued

(* configureServer: its first refresh ... *)
ConfigureServer ==
  /\ vite = "start"
  /\ vite' = "configuring"
  /\ Refresh
  /\ UNCHANGED <<onDisk, found, currentSource, written, fileEvent, unseen, broken, pageVars>>

(* ... and, when it is over, the watcher (ignoreInitial) and the 404 hook. *)
Watch ==
  /\ vite = "configuring" /\ scan = "none"
  /\ vite' = "serving"
  /\ UNCHANGED <<onDisk, scan, found, refreshQueued, currentSource, written,
                 fileEvent, unseen, broken, pageVars>>

(* The watcher's "add" or "unlink" *)
OnFileAddedOrRemoved ==
  /\ fileEvent
  /\ fileEvent' = FALSE
  /\ Refresh
  /\ UNCHANGED <<onDisk, vite, found, currentSource, written, unseen, broken, pageVars>>

(* buildStart, or a 404 under the mockups or the generated module *)
Rescan ==
  /\ vite = "serving"
  /\ Refresh
  /\ UNCHANGED <<onDisk, vite, found, currentSource, written, fileEvent, unseen, broken, pageVars>>

(* discoverComponents: the glob reads the directory. *)
DiscoverComponents ==
  /\ scan = "reading"
  /\ scan' = "read" /\ found' = onDisk /\ unseen' = FALSE
  /\ UNCHANGED <<onDisk, vite, refreshQueued, currentSource, written, fileEvent, broken, pageVars>>

(* The end of a refresh: the next one starts if it was asked for. *)
FollowUp == /\ scan' = IF refreshQueued THEN "reading" ELSE "none"
            /\ refreshQueued' = FALSE

(* The rest of refresh(): the module is written if its source is new, the  *)
(* source is remembered before the write.                                  *)
FinishRefresh ==
  /\ scan = "read"
  /\ currentSource' = found
  /\ written' = IF found = currentSource THEN written ELSE found
  /\ broken' = (broken /\ written' # found)
  /\ FollowUp
  /\ UNCHANGED <<onDisk, vite, found, fileEvent, unseen, pageVars>>

(* The glob or the write throws: nothing in flight any more, and what was  *)
(* queued waits for the next refresh; configureServer rejects.             *)
RefreshFails ==
  /\ \/ scan = "reading" /\ UNCHANGED currentSource
     \/ scan = "read" /\ found # currentSource /\ currentSource' = found
  /\ scan' = "none"
  /\ broken' = TRUE
  /\ vite' = IF vite = "configuring" THEN "failed" ELSE vite
  /\ UNCHANGED <<onDisk, found, refreshQueued, written, fileEvent, unseen, pageVars>>

-----------------------------------------------------------------------------
(* The effect of PreviewRenderer, on the first render and whenever the     *)
(* generated module is a new one: its cleanup cancels the load before.     *)
PreviewRenderer ==
  /\ loadNo < MaxLoads
  /\ loadNo' = loadNo + 1
  /\ preview' = IF componentPath \in written THEN Blank ELSE [load |-> loadNo', is |-> "error"]
  /\ loads' = {[l EXCEPT !.cancelled = TRUE] : l \in loads}
                \cup IF componentPath \in written THEN {[n |-> loadNo', cancelled |-> FALSE]} ELSE {}

(* A URL without a preview shows what the server is for. *)
Gallery == /\ preview' = [load |-> 0, is |-> "gallery"]
           /\ UNCHANGED <<loads, loadNo>>

(* App renders with the generated module. *)
App ==
  /\ vite = "serving" /\ written # NoSource
  /\ modules # written
  /\ modules' = written
  /\ IF componentPath = NoPreview THEN Gallery ELSE PreviewRenderer
  /\ UNCHANGED <<serverVars, componentPath>>

(* A load that was cancelled shows nothing. *)
Show(l, is) == preview' = IF l.cancelled THEN preview ELSE [load |-> l.n, is |-> is]

(* _resolveComponent: default, Preview, the file's name, any function *)
ResolveComponent(exports) == IF exports = {} THEN "error" ELSE "component"

(* The import answers: with the functions the file exports, or an error. *)
LoadComponent(l) ==
  /\ l \in loads
  /\ loads' = loads \ {l}
  /\ \/ \E exports \in SUBSET {"default", "Preview", "named"} : Show(l, ResolveComponent(exports))
     \/ Show(l, "error")
  /\ UNCHANGED <<serverVars, componentPath, modules, loadNo>>

PreviewsNext ==
  \/ \E f \in Mockups : FileChange(f)
  \/ ConfigureServer \/ Watch \/ OnFileAddedOrRemoved \/ Rescan
  \/ DiscoverComponents \/ FinishRefresh \/ RefreshFails
  \/ App
  \/ \E l \in loads : LoadComponent(l)

-----------------------------------------------------------------------------
(* When nothing is in flight or about to be told, the generated module has *)
(* the mockups that are on disk, however many changes and refreshes have   *)
(* overlapped; unless a file came while nobody watched, or a scan or a     *)
(* write has failed.                                                       *)
PreviewFresh ==
  (vite = "serving" /\ scan = "none" /\ ~fileEvent /\ ~unseen /\ ~broken) => written = onDisk

(* What the page shows, a component or an error, is of its last load: a    *)
(* slow import of an earlier version of the module never replaces it.      *)
ShownIsCurrent == preview.load \in {0, loadNo}

(* The preview server and its page keep up with the mockups: PreviewFresh  *)
(* of mockupPreviewPlugin.ts and ShownIsCurrent of App.tsx.                *)
PreviewsSound == PreviewFresh /\ ShownIsCurrent
===============================================================================
