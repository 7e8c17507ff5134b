------------------------------ MODULE NeoCache ------------------------------
(***************************************************************************)
(* The picture cache of lib/utils/neo_cache_manager.dart: the file of each *)
(* picture under a cache directory, the entry Flutter's in-memory          *)
(* ImageCache keeps for it, the loads of NeoImageProvider._loadAsync, and  *)
(* the PhotoImage widgets that listen to them.                             *)
(*                                                                         *)
(* A load is a coroutine with an identity: evicting an entry whose load is *)
(* in flight does not stop the load, so two loads of one picture can run   *)
(* together and write the same file.                                       *)
(***************************************************************************)
EXTENDS Naturals

CONSTANTS
  Pictures,   \* the pictures (a URL within one cache directory)
  Loaders,    \* identities of running _loadAsync coroutines (bounds how many run at once)
  None,       \* the picture of an idle loader
  Viewed,     \* the pictures a PhotoImage widget may show
  Faults      \* what may go wrong around the cache, a subset of FaultKinds

(* A request or a disk write fails, a server answers bytes that do not     *)
(* decode, a plugin fails to list a chapter, a reader saves that list too, *)
(* the user clears the cache, the process ends.                            *)
FaultKinds == {"request", "write", "content", "list", "reader", "clear", "crash"}

ASSUME ViewedAssumption == Viewed \subseteq Pictures
ASSUME NoneAssumption == None \notin Pictures
ASSUME FaultsAssumption == Faults \subseteq FaultKinds
\* An entry and a listener hold either a loader or one of these words.
ASSUME LoadersAssumption ==
  Loaders \cap {"none", "ready", "failed", "closed"} = {}

VARIABLES
  file,     \* file[p]: what exists on disk under the name of p
  entry,    \* entry[p]: the ImageCache entry of p, the loader of a pending one
  loader,   \* loader[l]: where coroutine l is, and the picture it loads
  view      \* view[p]: the widget of p: closed, or the stream it listens to

cacheVars == <<file, entry, loader, view>>

(* "bad" is a file written to its end whose bytes do not decode.           *)
FileStates == {"absent", "partial", "bad", "good"}
Outcomes == {"ready", "failed"}
Phases == {"idle", "check", "read", "request", "write"}

IdleLoader == [at |-> "idle", pic |-> None]

CacheTypeOK ==
  /\ file \in [Pictures -> FileStates]
  /\ entry \in [Pictures -> Loaders \cup Outcomes \cup {"none"}]
  /\ loader \in [Loaders -> [at : Phases, pic : Pictures \cup {None}]]
  /\ view \in [Pictures -> Loaders \cup Outcomes \cup {"closed"}]

CacheInit ==
  /\ file = [p \in Pictures |-> "absent"]
  /\ entry = [p \in Pictures |-> "none"]
  /\ loader = [l \in Loaders |-> IdleLoader]
  /\ view = [p \in Pictures |-> "closed"]

exist(p) == file[p] # "absent"

-----------------------------------------------------------------------------
(* Resolving a provider and evicting its entry.                            *)

(* The stream a listener of p gets: the cached entry, or the new load l.   *)
Stream(p, l) == IF entry[p] = "none" THEN l ELSE entry[p]

Launch(p, l) ==
  /\ loader[l].at = "idle"
  /\ loader' = [loader EXCEPT ![l] = [at |-> "check", pic |-> p]]

Resolve(p, l) ==
  \/ /\ entry[p] # "none"
     /\ UNCHANGED <<entry, loader>>
  \/ /\ entry[p] = "none"
     /\ Launch(p, l)
     /\ entry' = [entry EXCEPT ![p] = l]

-----------------------------------------------------------------------------
(* The steps of _loadAsync, one per await.                                 *)

(* file.exists() decides between reading the file and the request.         *)
CheckFile(l) ==
  LET p == loader[l].pic IN
  /\ loader[l].at = "check"
  /\ loader' = [loader EXCEPT ![l].at = IF exist(p) THEN "read" ELSE "request"]
  /\ UNCHANGED <<file, entry, view>>

(* The response arrived whole; writeAsBytes creates or truncates the file. *)
BeginWrite(l) ==
  /\ loader[l].at = "request"
  /\ file' = [file EXCEPT ![loader[l].pic] = "partial"]
  /\ loader' = [loader EXCEPT ![l].at = "write"]
  /\ UNCHANGED <<entry, view>>

(* What decoding the bytes found on disk can give: a truncated picture may *)
(* decode, and a file deleted since the check cannot be read.              *)
DecodeOf(f) ==
  CASE f = "good"    -> {"ready"}
    [] f = "partial" -> Outcomes
    [] OTHER         -> {"failed"}

(* The ways coroutine l can end, with the outcome it gives its listeners.  *)
ReadEnds(l, o) ==
  /\ loader[l].at = "read"
  /\ o \in DecodeOf(file[loader[l].pic])
  /\ UNCHANGED file

RequestFails(l, o) ==
  /\ loader[l].at = "request"
  /\ "request" \in Faults
  /\ o = "failed"
  /\ UNCHANGED file

(* The bytes are on disk before they are decoded. A file deleted while it  *)
(* is written stays deleted.                                               *)
WriteEnds(l, o) ==
  LET p == loader[l].pic IN
  /\ loader[l].at = "write"
  /\ o = "failed" => "content" \in Faults
  /\ file' = [file EXCEPT ![p] = IF ~exist(p) THEN "absent"
                                 ELSE IF o = "ready" THEN "good" ELSE "bad"]

WriteFails(l, o) ==
  /\ loader[l].at = "write"
  /\ "write" \in Faults \/ ~exist(loader[l].pic)
  /\ o = "failed"
  /\ UNCHANGED file

LoadEnds(l, o) ==
  ReadEnds(l, o) \/ RequestFails(l, o) \/ WriteEnds(l, o) \/ WriteFails(l, o)

(* Bugs for Notify: no listener hears of the end, or only that it is over. *)
NotifyNobody(streams, l, o) == streams
NotifyEmpty(streams, l, o) ==
  [x \in DOMAIN streams |-> IF streams[x] = l THEN "none" ELSE streams[x]]

(* Every listener of l gets the outcome.                                   *)
Notify(streams, l, o) ==
  [x \in DOMAIN streams |-> IF streams[x] = l THEN o ELSE streams[x]]

(* The entry of a load that was evicted is not touched when it ends.       *)
Settle(l, o) ==
  [entry EXCEPT ![loader[l].pic] = IF @ = l THEN o ELSE @]

FinishLoad(l, o) ==
  /\ LoadEnds(l, o)
  /\ loader' = [loader EXCEPT ![l] = IdleLoader]
  /\ view' = Notify(view, l, o)

-----------------------------------------------------------------------------
(* The PhotoImage widget, the memory limit of the ImageCache, the end of   *)
(* the process.                                                            *)

ViewOpen(p, l) ==
  /\ view[p] = "closed"
  /\ Resolve(p, l)
  /\ view' = [view EXCEPT ![p] = Stream(p, l)]
  /\ UNCHANGED file

(* reload(): evict, whatever the entry has become meanwhile, and resolve.  *)
ViewReload(p, l) ==
  /\ view[p] = "failed"
  /\ Launch(p, l)
  /\ entry' = [entry EXCEPT ![p] = l]
  /\ view' = [view EXCEPT ![p] = l]
  /\ UNCHANGED file

ViewClose(p) ==
  /\ view[p] # "closed"
  /\ view' = [view EXCEPT ![p] = "closed"]
  /\ UNCHANGED <<file, entry, loader>>

MemoryEvict(p) ==
  /\ entry[p] = "ready"
  /\ entry' = [entry EXCEPT ![p] = "none"]
  /\ UNCHANGED <<file, loader, view>>

(* The files stay as they are, everything in memory is lost.               *)
CacheCrash ==
  /\ "crash" \in Faults
  /\ entry' = [p \in Pictures |-> "none"]
  /\ loader' = [l \in Loaders |-> IdleLoader]
  /\ view' = [p \in Pictures |-> "closed"]
  /\ UNCHANGED file

(* The steps that concern the cache alone, whoever else listens to it.     *)
CacheStep ==
  \/ \E l \in Loaders : CheckFile(l) \/ BeginWrite(l)
  \/ \E p \in Viewed : \/ \E l \in Loaders : ViewOpen(p, l) \/ ViewReload(p, l)
                       \/ ViewClose(p)
  \/ \E p \in Pictures : MemoryEvict(p)

EndLoad(l, o) == FinishLoad(l, o) /\ entry' = Settle(l, o)

CacheNext ==
  \/ CacheStep
  \/ \E l \in Loaders, o \in Outcomes : EndLoad(l, o)
  \/ CacheCrash

(* A started load runs on: the request has a connect and a receive timeout *)
(* for its answer. A body that stalls after it began has none, and is      *)
(* assumed to go on or to break off.                                       *)
LoaderStep(l) ==
  CheckFile(l) \/ BeginWrite(l) \/ \E o \in Outcomes : EndLoad(l, o)

CacheSpec ==
  CacheInit /\ [][CacheNext]_cacheVars /\ \A l \in Loaders : WF_cacheVars(LoaderStep(l))

(* The same with a user who keeps pressing reload and a server that        *)
(* answers again and again: of the answers that reach BeginWrite, some     *)
(* decode.                                                                 *)
ReloadSpec ==
  /\ CacheSpec
  /\ \A p \in Viewed : WF_cacheVars(\E l \in Loaders : ViewReload(p, l))
  /\ \A l \in Loaders : SF_cacheVars(BeginWrite(l))
  /\ \A l \in Loaders : SF_cacheVars(WriteEnds(l, "ready") /\ EndLoad(l, "ready"))

-----------------------------------------------------------------------------
(* Properties.                                                             *)

LoadsPicture(l, p) == loader[l].at # "idle" /\ loader[l].pic = p

(* A pending entry and a waiting widget always have a load of their own    *)
(* picture behind them: no widget spins on a coroutine that has ended or   *)
(* was given to another picture (_loadAsync, ImageStreamListener).         *)
ListenersAreServed ==
  \A p \in Pictures :
    /\ entry[p] \in Loaders => LoadsPicture(entry[p], p)
    /\ view[p] \in Loaders => LoadsPicture(view[p], p)

(* Every spinner of a PhotoImage ends in a picture or in the error box     *)
(* with its reload button, of a request that is answered or times out.     *)
SpinnerEnds == \A p \in Viewed : view[p] \in Loaders ~> view[p] \notin Loaders

(* changelogs/47.txt: "now you can reload image after failed". A widget    *)
(* that failed and is reloaded again and again, while the server answers   *)
(* again and again, comes to show its picture or is closed.                *)
ReloadRecovers == \A p \in Viewed : view[p] = "failed" ~> view[p] \in {"ready", "closed"}
=============================================================================
