------------------------------ MODULE Plugins ------------------------------
(***************************************************************************)
(* The list of plugins: PluginsManager (lib/utils/plugins_manager.dart)    *)
(* and the reload of lib/pages/libraries_page.dart.                        *)
(*                                                                         *)
(* The plugins are announced in the comments of an issue on a server. Each *)
(* comment carries a token that signs the plugin and the token before it,  *)
(* and a reload reads the comments page by page and verifies each against  *)
(* _prev, the last token that was good. There is one _prev, and any number *)
(* of reloads: a page that is left does not end its reload.                *)
(***************************************************************************)
EXTENDS Integers, FiniteSets, Sequences

CONSTANTS
  None,
  Keys,       \* the public keys
  Own,        \* Configs.publicKey
  Log,        \* the comments of the issue, in the order they are posted
  PageSize,   \* _pageLimit
  FirstPage,  \* the number the server gives its first page
  Views,      \* the states of LibrariesPage
  Reloads,    \* the calls of reload() (bounds how many overlap)
  Overlap,    \* whether a page that loads may be refreshed (DRefresh)
  MaxEdits    \* bounds what the user adds and removes, and restarts

(* A comment: the source it announces, the comment whose token its own     *)
(* signs (0 for none) and the key that signed it, None when it has no      *)
(* token; the key it publishes; whether it says to ignore the source.      *)
Comment == [src : STRING, signs : Nat, key : Keys \cup {None},
            pub : Keys \cup {None}, ignore : BOOLEAN]

ASSUME KeysAssumption == None \notin Keys /\ Own \in Keys
ASSUME LogAssumption == Log \in Seq(Comment)
\* A token is there before another one signs it.
ASSUME SignsAssumption == \A j \in DOMAIN Log : Log[j].signs < j
ASSUME PageAssumption == PageSize \in Nat \ {0} /\ FirstPage \in {0, 1}
ASSUME ViewsAssumption == None \notin Views \cup Reloads
ASSUME BoundAssumption == Overlap \in BOOLEAN /\ MaxEdits \in Nat

VARIABLES
  posted,   \* how many comments the issue has
  plugins,  \* the sources of _plugins, and of its row
  added,    \* _added, and its row
  prev,     \* _prev: the number of the comment whose token it is, or 0
  view,     \* view[v]: the state v of the page
  reload,   \* reload[r]: the request reload r waits for
  due,      \* whether _lastUpdate is more than an hour old
  last,     \* history: the reload that set _prev to "" last
  edits     \* the edits and restarts so far

vars == <<posted, plugins, added, prev, view, reload, due, last, edits>>

Sources == {Log[j].src : j \in DOMAIN Log}
Pages == 0..(Len(Log) + 1)
View == [open : BOOLEAN, loading : BOOLEAN, key : Keys \cup {None}]
Reload == [view : Views \cup {None}, page : Pages, asked : 0..Len(Log)]

TypeOK ==
  /\ posted \in 0..Len(Log)
  /\ plugins \subseteq Sources
  /\ added \subseteq Sources
  /\ prev \in 0..posted
  /\ view \in [Views -> View]
  /\ reload \in [Reloads -> Reload]
  /\ due \in BOOLEAN
  /\ last \in Reloads \cup {None}
  /\ edits \in 0..MaxEdits

Closed == [open |-> FALSE, loading |-> FALSE, key |-> None]
Idle == [view |-> None, page |-> 0, asked |-> 0]
Runs(r) == reload[r].view # None
RunsOn(v) == \E r \in Reloads : reload[r].view = v

Init ==
  /\ posted = 0
  /\ plugins = {}
  /\ added = {}
  /\ prev = 0
  /\ view = [v \in Views |-> Closed]
  /\ reload = [r \in Reloads |-> Idle]
  /\ due = TRUE
  /\ last = None
  /\ edits = 0

-----------------------------------------------------------------------------
(* PluginsManager.update.                                                  *)

(* How many comments come before page k, the server counting from          *)
(* FirstPage and taking a smaller number for that.                         *)
Before(k) == PageSize * (IF k < FirstPage THEN 0 ELSE k - FirstPage)

(* The numbers of the comments on page k of n.                             *)
PageOf(k, n) ==
  [j \in 1..(IF n < Before(k) THEN 0
             ELSE IF n - Before(k) < PageSize THEN n - Before(k) ELSE PageSize)
     |-> Before(k) + j]

(* The key of the container, chosen at the first comment with a token.     *)
KeyAt(w, c) == IF w.key # None THEN w.key ELSE IF c.pub # None THEN c.pub ELSE Own

(* A bug for Verified: anybody's signature will do.                        *)
VerifiedByAnyone(w, j) == Log[j].signs = w.prev

(* tokenVerify: comment j signs the source and _prev with the key.         *)
Verified(w, j) == Log[j].key = KeyAt(w, Log[j]) /\ Log[j].signs = w.prev

IsNew(w, j) == ~Log[j].ignore /\ Log[j].src \notin w.added

(* A bug for Consider: _prev moves on before the token is verified.        *)
ConsiderAny(w, j) ==
  IF Log[j].key = None THEN w
  ELSE [key |-> KeyAt(w, Log[j]),
        prev |-> j,
        added |-> w.added \cup IF Verified(w, j) /\ IsNew(w, j) THEN {Log[j].src} ELSE {},
        plugins |-> w.plugins \cup IF Verified(w, j) /\ IsNew(w, j) THEN {Log[j].src} ELSE {}]

(* The body of the loop for comment j. One without a token throws before   *)
(* the key is chosen. A source that was added before is not added again.   *)
Consider(w, j) ==
  IF Log[j].key = None THEN w
  ELSE IF ~Verified(w, j) THEN [w EXCEPT !.key = KeyAt(w, Log[j])]
  ELSE [key |-> KeyAt(w, Log[j]),
        prev |-> j,
        added |-> w.added \cup IF IsNew(w, j) THEN {Log[j].src} ELSE {},
        plugins |-> w.plugins \cup IF IsNew(w, j) THEN {Log[j].src} ELSE {}]

(* The loop of update() over a page: what the first i comments leave.      *)
Considered(w, js) ==
  LET done[i \in 0..Len(js)] == IF i = 0 THEN w ELSE Consider(done[i - 1], js[i])
  IN  done

(* A bug for Started: every page resets _prev.                             *)
StartedAnew(r) ==
  [key |-> view[reload[r].view].key, prev |-> 0, added |-> added, plugins |-> plugins]

(* What update() works on: the container's key, _prev and the two lists. A  *)
(* page 0 resets _prev.                                                    *)
Started(r) ==
  [key |-> view[reload[r].view].key,
   prev |-> IF reload[r].page = 0 THEN 0 ELSE prev,
   added |-> added, plugins |-> plugins]

(* A bug for HasMore: the comparison is the wrong way round.               *)
HasMoreReversed(js) == Len(js) <= PageSize

(* hasMore: a full page may have another one after it.                     *)
HasMore(js) == Len(js) >= PageSize

-----------------------------------------------------------------------------
(* The page.                                                               *)

(* reload(): a new container, and the request for page 0.                  *)
Begin(r, v) ==
  /\ reload[r] = Idle
  /\ reload' = [reload EXCEPT ![r] = [view |-> v, page |-> 0, asked |-> posted]]
  /\ view' = [view EXCEPT ![v] = [open |-> TRUE, loading |-> TRUE, key |-> None]]

(* The page is made, and reloads when the last update is an hour old.      *)
Open(v) ==
  /\ ~view[v].open
  /\ ~RunsOn(v)
  /\ \/ due /\ \E r \in Reloads : Begin(r, v)
     \/ /\ ~due
        /\ view' = [view EXCEPT ![v] = [Closed EXCEPT !.open = TRUE]]
        /\ UNCHANGED reload
  /\ UNCHANGED <<posted, plugins, added, prev, due, last, edits>>

(* onRefresh.                                                              *)
Refresh(v) ==
  /\ view[v].open
  /\ view[v].loading => Overlap
  /\ \E r \in Reloads : Begin(r, v)
  /\ UNCHANGED <<posted, plugins, added, prev, due, last, edits>>

(* dispose(): a reload of the page goes on with the page's container.      *)
Close(v) ==
  /\ view[v].open
  /\ view' = [view EXCEPT ![v].open = FALSE]
  /\ UNCHANGED <<posted, plugins, added, prev, reload, due, last, edits>>

(* The answer for the page asked for, with the comments there were at some *)
(* time since: a full page asks for the next one, another ends the reload. *)
Answer(r, n) ==
  LET k == reload[r].page
      v == reload[r].view
      js == PageOf(k, n)
      w == Considered(Started(r), js)[Len(js)]
      more == HasMore(js)
  IN
  /\ Runs(r)
  /\ prev' = w.prev
  /\ added' = w.added
  /\ plugins' = w.plugins
  /\ last' = IF k = 0 THEN r ELSE last
  /\ view' = [view EXCEPT ![v].key = w.key, ![v].loading = @ /\ more]
  /\ reload' = [reload EXCEPT ![r] =
                  IF more THEN [view |-> v, page |-> k + 1, asked |-> posted] ELSE Idle]
  /\ due' = (due /\ more)
  /\ UNCHANGED <<posted, edits>>

(* The request fails: reload() throws and the page goes on to show it as   *)
(* loading.                                                                *)
RequestFails(r) ==
  /\ Runs(r)
  /\ reload' = [reload EXCEPT ![r] = Idle]
  /\ UNCHANGED <<posted, plugins, added, prev, view, due, last, edits>>

-----------------------------------------------------------------------------
(* The user, the server, the clock, the process.                           *)

Edit == edits < MaxEdits /\ edits' = edits + 1

RemovePlugin(s) ==
  /\ Edit
  /\ s \in plugins
  /\ plugins' = plugins \ {s}
  /\ UNCHANGED <<posted, added, prev, view, reload, due, last>>

(* insertLibrary: a source entered by hand.                                *)
InsertLibrary(s) ==
  /\ Edit
  /\ \E v \in Views : view[v].open
  /\ s \notin plugins
  /\ plugins' = plugins \cup {s}
  /\ UNCHANGED <<posted, added, prev, view, reload, due, last>>

Post ==
  /\ posted < Len(Log)
  /\ posted' = posted + 1
  /\ UNCHANGED <<plugins, added, prev, view, reload, due, last, edits>>

HourPasses ==
  /\ ~due
  /\ due' = TRUE
  /\ UNCHANGED <<posted, plugins, added, prev, view, reload, last, edits>>

ProcessEnds ==
  /\ prev' = 0
  /\ view' = [v \in Views |-> Closed]
  /\ reload' = [r \in Reloads |-> Idle]
  /\ last' = None
  /\ UNCHANGED <<posted, due>>

(* A bug for Restart: the row of _added is not read again.                 *)
RestartForgets == Edit /\ ProcessEnds /\ added' = {} /\ UNCHANGED plugins

Restart == Edit /\ ProcessEnds /\ UNCHANGED <<plugins, added>>

(* The process ends inside update(), between the rows of _added and of     *)
(* _plugins: comment i of the page is in the first and not in the second.  *)
CrashInUpdate(r, n) ==
  LET js == PageOf(reload[r].page, n) IN
  /\ Runs(r)
  /\ Edit
  /\ \E i \in DOMAIN js :
       LET w == Considered(Started(r), js)[i - 1] IN
       /\ Log[js[i]].key # None
       /\ Verified(w, js[i])
       /\ IsNew(w, js[i])
       /\ added' = w.added \cup {Log[js[i]].src}
       /\ plugins' = w.plugins
  /\ ProcessEnds

Next ==
  \/ \E v \in Views : Open(v) \/ Refresh(v) \/ Close(v)
  \/ \E r \in Reloads : RequestFails(r)
  \/ \E r \in Reloads : \E n \in reload[r].asked..posted : Answer(r, n) \/ CrashInUpdate(r, n)
  \/ \E s \in Sources : RemovePlugin(s) \/ InsertLibrary(s)
  \/ Post
  \/ HourPasses
  \/ Restart

Spec == Init /\ [][Next]_vars

-----------------------------------------------------------------------------
(* Properties.                                                             *)

(* The key of the first comment that has a token: the one it publishes.    *)
Author ==
  LET signed == {j \in DOMAIN Log : Log[j].key # None} IN
  IF signed = {} THEN Own
  ELSE LET c == Log[CHOOSE i \in signed : \A j \in signed : i <= j]
       IN  IF c.pub = None THEN Own ELSE c.pub

(* Comment n, the one whose token it signs, the one that one signs, ...    *)
Path[n \in 0..Len(Log)] == IF n = 0 THEN {} ELSE {n} \cup Path[Log[n].signs]

(* The author's key signed all of them.                                    *)
Trusted(n) == \A j \in Path[n] : Log[j].key = Author

(* And signed none of their tokens twice: the chain does not fork there.   *)
Alone(n) ==
  /\ Trusted(n)
  /\ \A j \in Path[n] : \A m \in DOMAIN Log :
       Log[m].key = Author /\ Log[m].signs = Log[j].signs => m = j

(* The sources the comments js have to offer.                              *)
SourcesOf(js) == {Log[j].src : j \in {k \in js : ~Log[k].ignore}}

(* Nothing is added that the author did not announce, whatever pages of    *)
(* however many reloads are verified against the one _prev.                *)
OnlyAnnounced == added \subseteq SourcesOf({j \in 1..posted : Trusted(j)})

(* _prev is a token of the author's, and every source announced on the way *)
(* to it was added, also when the token was left there by a page of        *)
(* another reload.                                                         *)
PrevIsListed == Trusted(prev) /\ SourcesOf(Path[prev]) \subseteq added

(* When a page stops to show that it loads, and its reload was the last to *)
(* reset _prev, every source announced when it asked for its last page was *)
(* added, however many reloads of other pages moved _prev on meanwhile,    *)
(* but for what follows a token the author signed twice: of two such       *)
(* comments the first to be looked at wins.                                *)
LastReloadIsComplete ==
  [][\A r \in Reloads :
       Runs(r) /\ ~Runs(r)' /\ last' = r /\ ~view'[reload[r].view].loading =>
         SourcesOf({j \in 1..reload[r].asked : Alone(j)}) \subseteq added']_vars

(* A source the issue brought and the user removed comes back by hand      *)
(* only: it is remembered for ever, by reloads that overlap and across     *)
(* restarts, and none of them lists it again.                              *)
RemovedStaysAway ==
  [][/\ added \subseteq added'
     /\ \A s \in added \ plugins : s \in plugins' => InsertLibrary(s)]_vars
=============================================================================
