# Verification of Kinoko

Kinoko is a comic reader: plugins written in JavaScript list chapters and
pictures, the Flutter application (`src/lib`) shows them, keeps their files in
a cache, downloads chapters, checks favorites for news and keeps histories.
This directory holds TLA+ modules of its core, the TLC runs that check them on
small instances and theorems that the TLA+ proof system proves for every
instance.

    tlc -config Downloads.cfg MCDownloads      # a run
    tlapm Downloads_proofs.tla                 # the proofs of a module

## 1. Inventory

| Part | Files in `src/lib` | State it keeps | Operations | What is hard |
|---|---|---|---|---|
| Picture cache | `utils/neo_cache_manager.dart` | one file per picture, Flutter's in-memory `ImageCache` | `_loadAsync`, `exist`, `reset`, `clearCache` | loads run on after their entry was evicted; files are written in place; a file is trusted once it exists |
| Picture widgets | `widgets/images/*.dart` | the stream listened to, the error flag | `_updateImage`, `reload`, `dispose` | reload races a load in flight |
| Download queue | `utils/download_manager.dart` | the items, the row `download_items`, one coroutine per start | `add`, `start`, `stop`, `remove`, `removeKey` | `stop` only marks a coroutine, which runs on while the item is started again; crash between a change and its save |
| Chapter list | `utils/plugin/manga_loader.dart` | the row `processor:<key>`, the list in memory, the flags `loading` and `disposed` | `load`, `setData`, `setDataAt`, `save`, `dispose` (`reload` is never called) | the plugin answers after `dispose`; two processors of one row |
| Reader | `utils/picture_data.dart`, `pages/picture_viewer.dart` | current, next and previous processor; the viewer's copy of the loading flag | `goNext`, `goPrev`, `_loadAll`, `dispose`, `onOverBound` | fields read after an await while pages turn; a flag that is copied and not read again |
| Preload queue | `utils/preload_queue.dart`, `fetchImage` in `utils/download_manager.dart` | entries, one in flight | `set`, `stop`, `_checkStart` | callbacks after `stop`, replaced entries, a URL that does not parse |
| Favorites | `utils/favorites_manager.dart`, `pages/favorites_page.dart` | items, the row `favorite_items`, a loop that asks for news | `add`, `remove`, `clear`, `clearNew`, `checkNew`, `automaticCheckNew`, import, move to the front | an index kept over awaits; answers for items that were removed |
| Background task | `utils/background_task.dart` | a second isolate with its own favorites, its own Glib | `_callback`, `_checkFavorites`, `_fetchPlugins` | both isolates write the row; Glib is destroyed while the loop goes on |
| History, rows | `utils/history_manager.dart`, `utils/key_value_storage.dart` | at most 200 entries; each storage's copy of its row | `insert`, `clear`, `update` | several copies of one row |
| Plugins | `utils/plugins_manager.dart`, `utils/plugin/plugin.dart`, `pages/libraries_page.dart` | installed plugins, the token chain `_prev` | `update`, `add`, `remove`, `findPlugin`; `reload` of the page | two reloads share the field `_prev` |
| Native bridge | `plugins/glib/lib/core/core.dart`, `gcore/core`, `gcore/script` under `plugins/glib/src` | wrappers, instances, reference counts, `_objectDB` | `allocate`, `retain`, `release`, `delayRelease`, `dart_toDart`, `dart_freeObject`, `dart_destroyLibrary` | a wrapper nobody owns is released by a timer; addresses are used again |
| Native database | `application/models/KeyValue.cpp`, `application/utils/database` under `plugins/glib/src` | rows, a queue of statements, one mutex | `KeyValue::get`, `KeyValue::set`, `exce`, `checkQueue` | a thread executes the statements of others; a set is a select and a write |

The parts interact like this. The download queue makes a `Processor` for a
chapter, whose row says whether the list is complete, and asks the picture
cache for one picture after the other. The reader holds a `Processor` for the
chapter shown and for each neighbour, over the same rows, and a preload queue
that asks the cache ahead of the page; its widgets ask the same cache for the
same pictures. The settings page clears the cache while all this goes on. The
favorites ask plugins through a `Processor` of their own. All of them keep what
a restart needs in rows of the native database, which they reach through the
bridge. The application runs on one event loop, so code between two awaits is
atomic; what interleaves are coroutines at their awaits, callbacks of image
streams, the user, and the end of the process. The background check is a second
isolate, with an event loop and a thread of its own, over the same native
database.

What makes each part correct, in a sentence each:

- cache: who listens to a picture hears how its load ends, whatever is evicted
  or reloaded meanwhile; what is on disk can be shown;
- queue: an item that downloads can be stopped; each picture is counted once;
  what is counted is on disk; what is saved is what is shown; a coroutine that
  was stopped keeps still;
- reader: a processor in use is not disposed, the neighbours are the chapters
  next to the current one, what is held comes to be loaded, a saved list does
  not shrink;
- preload queue: nothing is loaded after `stop`, an entry is marked loaded when
  a picture listed there was fetched;
- favorites: what an isolate knows is what it has saved, whoever saves next; a
  new chapter is noticed;
- plugins: what is installed was announced by the author of the chain, and all
  of that is, once; what the user removed stays away;
- rows: a get or a set is atomic, whichever thread executes it;
- bridge: an object lives as long as somebody refers to it, every handle leads
  to its object, nothing is freed twice.

The list of hazards, each at its line and with the properties that would catch
it going wrong, is in `PROJECT.json`.

## 2. Plan

In order of what matters most to a user; what is done is marked.

1. `NeoCache` (done): files, cache entries, loads, widgets.
2. `Downloads` (done): the queue, its coroutines and its row over `NeoCache`.
3. `Downloads_proofs`, `DownloadsFiles_proofs` (done): types, stoppable items,
   the saved row, a patient user, canceled coroutines; whoever waits for a load,
   progress on disk and the refinement of `DownloadList`.
4. `PictureReader` with `PictureReader_proofs` (done): the controller with its
   three processors, page turns against pending loads, the rows the lists are
   saved in.
5. `PreloadQueue` with `PreloadQueue_proofs` (done): the reader's queue over
   `NeoCache`.
6. `Favorites` with `Favorites_proofs` (done): the list, overlapping checks, the
   loops of two isolates, the row they share.
7. `Plugins` with `Plugins_proofs` (done): the token chain under overlapping
   reloads.
8. `DownloadList` (done): the abstract queue that `Downloads` implements, as a
   property of two runs, and proved.
9. `Bridge` with `Bridge_proofs` (done): wrappers, instances and counts.
10. `Database`, `KeyValueRows` with `Database_proofs` (done): the queue of
   statements implements atomic rows, checked and proved.
11. Left: callbacks across the bridge; the creation and migration of tables;
   errors of sqlite; the queue's `Processor` beside the reader's over one row.

A run asks a question of its own: runs of one component that differ only in a
flag are one.

## 3. Modules

### NeoCache

| TLA+ | Code |
|---|---|
| `file[p]` | the file of picture p: absent, cut short, written to its end with bytes that do not decode, good |
| `entry[p]` | Flutter's `ImageCache`: no entry, pending with a load, ready, failed. An entry whose load failed stays until it is evicted |
| `loader[l]` | a run of `_loadAsync`: the await it is in and its picture |
| `view[p]` | the widget of p: closed, the load it waits for, or the outcome |

`CheckFile`, `BeginWrite` and `EndLoad` are the steps of `_loadAsync` between
its awaits. `EndLoad` covers every way it ends: a file read and decoded or
not, a request that fails or answers an error status, a write that ends or
fails. `ViewOpen`, `ViewReload` and `ViewClose` are `_updateImage`, `reload`
and `dispose` of the widget; `MemoryEvict` is the limit of the `ImageCache`.
A load whose entry was evicted keeps its identity and its listeners.

Abstracted: a picture is the pair of its cache directory and its URL, so the
hash that names a file and the search for the cache root are left out, and so
is the progress of a transfer. A file that was cut short may still decode
(decoders show what they have), which is why both outcomes are allowed.

### Downloads

| TLA+ | Code |
|---|---|
| `queue`, `state`, `loaded`, `downloader` | `DownloadManager.items` and the fields of each `DownloadQueueItem` |
| `saved` | the row `download_items` as `toData` writes it |
| `worker[d]` | a run of `DownloadQueueItem.start` with its `_PictureDownloader`: its item, the await it is in, `canceled`, the position of the scan, `needToLoad`, the local `loaded` |
| `src[d]` | the image stream that `_loadImage` awaits |
| `listed[c]` | the row of the chapter's `Processor` says complete |
| `clearing` | the directories a running `clearCache` has still to delete |

| Action | Code |
|---|---|
| `Start`, `Stop` | the buttons of the download page: `start()`, `stop()` |
| `AddDownload` | `add` and `start`, as `addDownload` calls them for each entry of its list |
| `Remove` | `remove`, `removeKey` |
| `ListLoaded` | `processor.load()` ends with a complete list |
| `ListFails` | it ends without one, or the scan throws at a picture whose URL is null or does not parse |
| `Scan`, `ScanEnds` | one `await cacheManager.exist` of the scan; the last one goes on to the check of `canceled` |
| `PictureEnds` | the end of a load: each listener has its outcome |
| `ImageLoaded`, `ImageFailed` | the handler of one coroutine, a step of its own: count and go on, or evict, go round the retry loop and resolve anew |
| `ClearCache`, `ClearDirectory` | the button of the settings page and the loop of `clearCache` |
| `ReaderSaves` | the plugin saves the chapter's list through the `Processor` of a reader |
| `Restart` | the end of the process and the constructor of `DownloadManager` over what is on disk |

`Exit` shared by `Proceed` and `ListFails` is the tail of
`DownloadQueueItem.start`: it sets the state and clears `_downloader` whoever
owns it by then. `Proceed` is everything the coroutine does from one await to
the next, the listener that publishes and saves the progress included.

When a load fails that two coroutines wait for, their handlers run one after
the other: the first evicts and resolves anew, the second evicts whatever the
entry is by then, which may be the pending load of the first, and starts a
second load of the same picture. `WaitsOnItsPicture` is about all who listen
then: the load that lost its entry still runs for its own listeners.

Simplifications, each on purpose:

- the `error` and `total` shown beside an item are left out, nothing reads them
  back; so is the branch of `start` for a plugin that is not installed, which
  sets only the error;
- all chapters have N pictures, N at least one, and a plugin that saves a list
  as complete saves it whole (see "Known defects" for one that does not);
- the application is a release build, where a `ValueNotifier` that is set after
  `dispose` stays silent;
- two rows saved one after the other without an await are one step;
- an item that was removed is a new object when it is added again, so an item
  of the model can be added again only when no coroutine knows the old one;
- `reloadAll`, called once when data of version 2 is dropped, is not modelled.

### PictureReader

| TLA+ | Code |
|---|---|
| `open`, `currentIndex`, `held`, `last` | a `RemotePictureController` on the screen, its `currentIndex`, its fields `current`, `next`, `prev`, and the chapter `_sideInit`, `goNext` and `goPrev` report as opened last |
| `proc[p]` | a `Processor`: its chapter, how many pictures its list has, and its flags |
| `row[i]` | the row `processor:<key>` of chapter i: how many pictures, and whether it says complete |
| `call[r]` | a running call of the plugin's `load` that a `_loadAll` awaits: the processor, how many pictures the plugin has, and the processor `_loadAll` goes to next |
| `spinner` | `_PictureViewerState.loading` |
| `queue` | what the last controller has put in its preload queue |

| Action | Code |
|---|---|
| `Open` | the constructor of the controller, `_sideInit`, `_loadAll` up to its first await, and `initState` of the viewer |
| `GoNext`, `GoPrev` | `onOverBound` with `goNext` and `goPrev`: dispose the far neighbour, move the others, make the new one, `_loadAll` |
| `Close` | `dispose` of viewer and controller |
| `Deliver` | an answer reaches the plugin, which hands its pictures over (`setData` or `setDataAt`) and saves; with the last one the call ends and its `_loadAll` goes on |
| `GiveUp` | the call ends without an answer, because the plugin saw `disposed` or its request failed; an exception ends its `_loadAll` too |
| `Restart` | the end of the process; the rows stay |

`LoadAll` is the rest of `_loadAll`: it reads the three fields anew after each
await, as the code does, so a run begun for one chapter goes on with the
processors of another. What plugins do is not in `src/lib`.
`docs/plug-in_v3.md` has them call `setData` or `setDataAt`, and
`save(complete, state)` from `load`, whose `state` is for a load that starts
again, and says that `unload` is called in `dispose`. The model assumes more of
a plugin than that: that `load` sets `loading` before its first await and clears
it at its end, that it continues after the pictures it has, and that it saves
straight after it hands pictures over. The document says nothing of `loading`
and `disposed`. `Setters` and `Fails` (the chapters whose requests may fail) are
constants, and so is `ChecksDisposed`: that a plugin looks at `disposed` after
each await is an assumption of the run and of `RowsOnlyGrow`, which names it.

Abstracted: a list is its length, since a plugin lists the pictures of a
chapter in one order; what happens in the microtasks of one user event is one
step; a processor that is disposed and that no call refers to is an identity
that is free again, and which of the free ones is taken is a `CHOOSE`. The page
position, its row, and the controller of local pictures, which has no chapters
to turn to, are left out.

### PreloadQueue

| TLA+ | Code |
|---|---|
| `queue[k]` | a `PreloadQueue`: entries with their picture and their flag `loaded`, `offset`, `_canceled`, `_loading` |
| `shown` | the queue of the open controller |
| `fetch[f]` | a run of `DownloadPictureItem.fetchImage` and `getSingleFile`: its await, its picture, the entry its callback is to mark |

| Action | Code |
|---|---|
| `Update` | the whole loop of `RemotePictureController._update`: one `set` per listed picture, which ends at an exception |
| `OnPage` | the `offset` that `onPage` sets |
| `Turn`, `Open`, `Close` | the queue of a page turn (the old one is stopped), of a new viewer, and of a viewer that is closed (its queue goes on) |
| `Look` | `await exist`, then the file or the image stream |
| `Callback` | the callback of `fetchImage`: the entry is marked and `_checkStart` picks the next |
| `PictureEnds` | the end of a load, heard by every fetch that waits for it |
| `Restart` | the end of the process |

`SetItem` is one call of `set`, and `Filling` the loop: a recursive function
that gives what the first i calls leave, as the proofs need it.
`CheckStart` sets `_loading` before `fetchImage` parses the URL, so a URL of
`Malformed` leaves it set for ever, as in the code; the properties say what
still holds then. When the exception is thrown under a callback, `fetchImage`
calls the callback again as failed, which comes to the same state.

A plugin may replace the URL of a picture while it is fetched: `set` puts the
new one in the place and `loaded` back to false, and the callback of the old
fetch marks the place, not the picture. `LoadedIsCached` says what is left
then: one of the pictures listed in a place taken for loaded was tried.

### DownloadList

What the queue promises, without coroutines, listeners, files or rows: a list,
what each item shows, and which pictures are kept. `Finish` is possible only
when every picture of the chapter is kept, a kept picture stays, and `Reopen`
(the end of the process and the next start) pauses what was downloading, loses
no item and no completion and adds at most the items of old versions.
`Downloads` states `KeepsPromise` with the mapping `list <- queue`,
`status <- state`, and `kept` the pictures whose files `exist()` finds. An item
that shows Complete after a restart although it was not complete before is
allowed: the row counts what a coroutine of an earlier start has loaded.
`KeepsPromiseFairly` adds that no item downloads for ever.

### Favorites

| TLA+ | Code |
|---|---|
| `items[p]`, `row`, `writer` | `FavoritesManager().items.data` of the isolate p, the row `favorite_items`, and who wrote it last |
| `loop[p]` | `automaticCheckNew`: waiting for a check, between two items, between two passes, or dead |
| `checks` | calls of `checkNew` that wait for the plugin: of a loop, of the alarm, or the first of a new item |
| `shown`, `import` | an item the page still shows after a plugin removed it; the books of an open import dialog |
| `alarm`, `lib`, `ready` | `_callback` of the background isolate, its `Base.scriptHandler`, its `PluginsManager._root` |
| `latest[b]` | the last chapter the server has |

| Action | Code |
|---|---|
| `LoopAgain`, `LoopNext` | a pass begins; its next item, ten seconds later. An index beyond a list that became shorter throws outside the `try`: the loop is dead |
| `Arrive`, `CheckFails` | the end of `checkNew`, with the caller that goes on |
| `FirstAlarm`, `NextAlarm`, `PluginsReady`, `AlarmEnds` | the callback of the alarm: set-up, the items in turn, the plugins' directory, `Glib.destroy` |
| `Add`, `RemoveBook`, `ClearNew`, `Clear`, `MoveToFirst`, `MoveShown`, `ImportOpen`, `ImportConfirm`, `ImportCancel` | what the user and the plugins do in the app |
| `Publish`, `Restart` | the server; the end of the process |

An item has an identity, since an answer changes the object it was asked for,
listed or not, and `_itemUpdate` saves only when the object is listed. What the
model follows in the code although it surprises: before `PluginsManager` has
its directory `findPlugin` throws, which the loop catches and the alarm does
not, so that the first alarm may end without `Glib.destroy`; after
`Glib.destroy` the next `Glib.setup` returns at once (`_isStatic`), so the
background isolate goes on without rows, and `s_call` does nothing; moving an
item to the front puts it back when a plugin has removed it meanwhile; an
import adds a book a second time when it was added while the dialog was open.
The half hour in which an item is not asked again is a choice of the loop for
an item that was ever checked.

### Plugins

| TLA+ | Code |
|---|---|
| `posted` | how many comments of `Log` the issue has |
| `plugins`, `added` | the sources of `_plugins` and `_added`, in memory and in their rows |
| `prev` | `_prev`, as the number of the comment whose token it is |
| `view[v]` | a state of `LibrariesPage`: open, its flag `loading`, its `TokenContainer` |
| `reload[r]` | a run of `reload()` that waits for a page, and how many comments there were when it asked |
| `last` | history: the reload that reset `_prev` last |

`Answer` is a page of comments and all `update()` does with it, and what
`reload()` does next. `Consider` is the body of the loop for one comment, and
`Considered` what the first i comments of a page leave. Signatures are the
pairs they stand for: a token is verified when it was signed with the key and
signs the token in `_prev`, and a token signs one that was there before
(`SignsAssumption`). A comment without a token throws before the key is chosen,
one that does not verify leaves `_prev`. Rows of `_added` and `_plugins` are
written one after the other, and `CrashInUpdate` is the end of the process
between them. What the author and title of a plugin show is left out; so are
the checkout of its repository and its scripts.

The properties compare with definitions that know nothing of pages or reloads:
`Path[n]` is comment n, the one whose token it signs, and so on back to the
first; `Trusted(n)` says that the author's key signed all of them, and
`Alone(n)` that it signed none of their tokens twice. The last is needed: of two
comments that sign one token, `update()` takes the one it comes to first and
none that follows the other, and which that is depends on where `_prev` stood
when a page arrived. The proof brought this out. A log in which the author signs
a token twice, on different pages, broke an earlier form of these properties,
which had named one chain beforehand; the log of the run now has such a pair.

### Bridge

| TLA+ | Code |
|---|---|
| `lib` | `Base.scriptHandler` is set |
| `count[o]`, `holds[a]` | the reference count of a native object; what a native array refers to |
| `target[i]` | the object of the `DartInstance` at address i, none when it was freed |
| `wrapper[w]` | a `Base`: `_id`, `_retainCount`, `_destroyed`, and whether its `delayRelease` is due |
| `db` | `_objectDB` |
| `corrupt` | history: a freed address was passed to `dart_freeObject` |

| Action | Code |
|---|---|
| `Allocate` | `allocate()` and `dart_createObject`, or a native method that returns a new object |
| `Find` | an element of an array that has no instance is converted (`dart_toDart`, `DartClass::create`, `_createNativeTarget`) |
| `Put`, `Erase` | `push_back` and `erase` of an array, through a wrapper that is not destroyed |
| `Retain`, `UserReleases`, `DelayedRelease` | `AutoRelease`; anybody who knows a wrapper may call them, destroyed or not |
| `Forget` | the garbage collector takes a destroyed wrapper |
| `Destroy` | `Glib.destroy`, `Script::clear` |

`Free` is the destructor of instances: each lets go of its object, which is
deleted with its last reference and lets go of what it holds. Arrays hold
objects that hold nothing, so two levels are enough. An array is the
set of what it refers to: that one object is in an array twice, each time with
a reference of its own, is left out. So is a call through a wrapper after
`Glib.destroy`, which the code does not refuse (see "Known defects"), and so
are callbacks from the native side, maps, and the conversion of strings and
numbers.

### Database and KeyValueRows

`KeyValueRows` is what the rows promise: each get or set takes effect at one
moment between its beginning and its end (`Read`, `Write`), a set may be
overwritten at the same moment by another (`Write(t, ss)`), and a call the end
of the process interrupts may or may not have had its effect.

| Variable of `Database` | Code |
|---|---|
| `rows[k]` | the rows with key k, in the order of their identifiers: the table has no unique index |
| `queue`, `mutex` | `Database::queue`, `Database::mtx` |
| `pc[t]`, `stage[t]`, `call[t]`, `row[t]` | where a thread is in `exce` and `checkQueue`, with which statement, in which call, and the row its select found |

`Push`, `Lock`, `Execute` and `Unlock` are `exce` and `checkQueue`: between the
push and the lock another thread may execute the statement. `Call`, `Saves` and
`Return` are `KeyValue::get` and `set`; a set of the value the row already has
writes nothing. The mapping (`Promise`) says when a set has had its effect: when
its write is executed, when there was nothing to write, and, for a set that
found no row and is about to insert, as soon as another set has inserted one:
its own row will be behind that one and never be read.

Assumed: the table exists, the file can be opened and written, every statement
that is executed has its effect, the `Database` object stays (see "Known
defects").

### The MC modules

`MCNeoCache`, `MCDownloads`, `MCPictureReader`, `MCPreloadQueue`, `MCFavorites`,
`MCPlugins`, `MCBridge` and `MCDatabase` give the constants their values for
TLC, and the symmetry of the safety runs. `MCPlugins` has the comments of the
issue: one that publishes the author's key and that another key signed, two of
the author's chain, one to be ignored, and one, on a page of its own, that signs
the same token as the one to be ignored.

## 4. Runs

| Run | What it shows |
|---|---|
| `NeoCacheReload.cfg` | violated: a file that does not decode stays, so `reload` never recovers (`ReloadRecovers`) |
| `Downloads.cfg` | two items of one chapter with two pictures, one of them in the old collection, two coroutines, two loads, all faults but clearing: a downloading item can be stopped, the row is current, counts and files agree, who waits has a load, a canceled coroutine is silent, and the whole implements `DownloadList` (`KeepsPromise`) |
| `DownloadsPatient.cfg` | with a widget on the picture, a cache that is cleared, three loads, and a user who starts an item again only when its last coroutine is gone: a paused item is quiet, a complete item stays complete, and whoever waits, widget or coroutine, has a load |
| `DownloadsLive.cfg` | one item, two coroutines, two pictures: every coroutine ends, and no item downloads for ever (`KeepsPromiseFairly`) |
| `PictureReader.cfg` | three chapters of two pictures, two loads at once, requests of the last chapter that fail, page turns, closing and restarts against pending answers: the controller holds the chapter shown and its neighbours, no processor is loaded twice at once, rows only grow, the preload queue is of the chapter shown, and what is held and not behind a failing chapter comes to be complete |
| `PreloadQueue.cfg` | two queues and two fetches beside a widget, all faults of the cache, a late first picture, one whose URL is replaced and one that does not parse: one fetch per queue, none begun after `stop`, what is marked loaded was tried, who waits is served |
| `PreloadQueueLive.cfg` | failing requests: every picture listed comes to be tried, every spinner of the widget ends |
| `Favorites.cfg` | both isolates, two books of the old collection, all kinds of edits and faults: the row is the whole list of who wrote it last |
| `FavoritesNews.cfg` | two edits around the passes of the app's loop over up to three items, failing requests, restarts: each item with a new chapter is asked about and gets its dot, unless the loop has died or a first check records the chapter |
| `Plugins.cfg` | two pages that reload, failing requests, removals, restarts and a crash between two rows: what is added was announced, `_prev` is a token of the author's with nothing missing behind it, the reload that began last adds all that no other comment rivals, what was removed does not come back |
| `Bridge.cfg` | two arrays, two other objects, three addresses, three wrappers: counts are exact, handles agree, nothing is freed twice |
| `Database.cfg` | three threads that get and set one key, and crashes: calls are atomic, only sets that race add rows |

Bounds of the cache and the downloads. Two coroutines are the first number with
an overlap of a stopped and a started one; two loads let both wait, for one
picture or for two; two pictures give a scan that is interrupted and a list
that is half loaded. Two items of one chapter are the removed item, whose
coroutine runs on, and the one added after it. `Faults` names what may go wrong
in a run; each kind occurs in some passing run. `Workers` and `Loaders` also
bound how many run at once: a start or a load beyond the bound is not taken in
the model. Two coroutines and a widget that listen to one failed load take three
loads between them, which the run with the widget has; there, one picture is
enough, and the run is symmetric in coroutines and in loads, of which no
definition singles one out.

Bounds of the reader. Three chapters have one with both neighbours, and turns
that dispose a processor whose call runs. Two pictures make a list that is
incomplete between two answers. Two calls are a `_loadAll` begun before a turn
and one begun after it; five processors are the three held and those two calls
keep alive when both are of chapters left behind. Two preload queues are the
stopped one, whose fetch runs on, and the next; two fetches and two loads let
both wait, for one picture or for two. The safety run is symmetric in queues,
fetches and loads. Its three lists are one whose first picture is not there yet,
the whole one, and one that has another picture in the first place, so a URL is
replaced before, while and after it is fetched; a page is never turned to in it
(`Pages`), which only moves the offset. The live run has that, no symmetry, a
plugin that keeps its URLs, and one queue, which is opened and closed again:
what a second queue adds is a fetch that runs on, and that is in the safety run.

In the reader's run the requests of one chapter of three may fail, which lies
before, behind or beside what is shown as the user turns, so the others show
what `_loadAll` comes to and what a failure keeps it from.

Bounds of the others. Two books with two chapters, up to three items and two
edits around the passes of the loop give every pair of edits: an addition and a
removal, which shifts the index or ends the list under it, a move, an import
over an addition (two items of one book), an edit after a restart. In the run
with both isolates the list has two items from the start, so the alarm and both
loops go from one to the next, and one edit falls anywhere between; an index is
wrong only when a list became shorter or moved, which one edit does. Two pages
and two reloads overlap in every way the shared `_prev` can see; five comments
in pages of two are three pages, the last not full. `Overlap = FALSE` says that
a page is not pulled again while it loads: the page hands its flag to the widget
`DRefresh`, of another package, which shows that it loads and is assumed to take
no pull then; `reload()` itself has no guard. With two reloads of one page the
second replaces the container of the first, which would choose its key anew from
a comment in the middle of the issue; `OnlyAnnounced`, `PrevIsListed` and
`LastReloadIsComplete` are about the page as it is. Two arrays and two other
objects give an object held by one, both or none; three addresses and wrappers
give a freed address that is used again while another wrapper is late.
`MaxRetain` 2 is one retain beyond the wrapper's own. Three threads are one that
executes, one whose statement it executes and one that pushes meanwhile; one key
is enough since keys share only the queue; the two values are the empty string,
which an absent row answers too, and another.

Patient. Without it, `PausedIsQuiet` and `CompleteIsFinal` do not hold: the end
of a stopped coroutine sets the state of an item that was started again, whose
new coroutine then goes on behind a paused item. No document says otherwise,
so this is recorded as a hazard. `DownloadingHasWorker` holds all the same.

Fairness. Coroutines and callbacks run on as the event loop does (weak fairness
of `WorkerStep` and of the steps of a load). A request that is not answered ends
because Dio has a connect and a receive timeout (`neo_cache_manager.dart:304`).
That a body which has begun goes on or breaks off is an assumption: one that
stalls has no timeout in the code, and would keep its coroutine, fetch or
spinner waiting. `DownloadsLive` needs more: the retry loop has no bound in
effect (`count` is never incremented), so a coroutine ends only when requests
succeed; strong fairness of `BeginWrite` says that a server that is asked for
ever answers at some time. The plugin's promise of a list is assumed to settle.
For the reader, `FairSpec` is weak fairness of each pending call of the plugin:
that it ends is assumed of plugins. A fetch of the preload queue runs on as the
event loop does (`Look`, `Callback`), and its load as above. `ReloadSpec` adds a
user who keeps pressing reload and a server that keeps answering well, so its
violation is not for want of either. For the favorites, `FairSpec` says that the
timers of the app's loop fire (weak fairness), and for each item that its check
is answered or fails (weak), that an item the loop comes to for ever is past its
half hour at some time and is then asked about (strong fairness of `Asks`), and
that of its checks some are answered (strong fairness of `Arrive`). Nothing is
assumed of the background isolate. `Plugins`, `Bridge` and `Database` have
safety properties only; the refinement in `Database` is of a safety
specification.

Refinement. `Downloads` implements `DownloadList` and `Database` implements
`KeyValueRows`: the abstract specification, instantiated with a mapping, is a
property of a run. Both are proved as well (`QueueKeepsPromise`,
`CallsAreAtomic`), the one of the downloads when nobody clears the cache, which
is how the run has it.

`CHECK_DEADLOCK FALSE` stands where the system may rest: the favorites when the
edits are used up and the loop has died, the bridge when the library is gone and
every wrapper forgotten.

## 5. Proofs

The proofs hold for any chapters, number of pictures, items, coroutines, loads,
processors, calls, lists and logs, under the assumptions on constants named in
the modules: a downloaded picture is a chapter and a number from 1 to N with N
at least 1, every item has a chapter, two items of the old collection have
different chapters, and the words used for outcomes are not loads; a book has
at least one chapter and a chapter at least one picture; `None` is none of the
things it stands for; a token signs an earlier one, and a page has at least one
comment; addresses and arrays of the bridge are finitely many and arrays are not
other objects; threads are finitely many and the empty string is a value.

- `TypeCorrect`, `CountsCorrect` (`Downloads_proofs`). `TypeOK` is not
  inductive: the count of a coroutine stays within N only because what it has
  counted and what it has still to load add up to what it has looked at. The
  invariant is `TypeInv`: types, `CountsEachOnce`, and a running coroutine has
  an item. Lemmas give the types of the shared parts (`Begin`, `StopItem`,
  `Exit`, `Subscribe`, `Proceed`), then each action follows.
- `DownloadingIsStoppable`. Inductive with the types: a coroutine has one item,
  so what ends or marks the coroutine of one item leaves every other's alone.
- `SavedRowIsCurrent`. Every action that changes the
  queue, a count, or completes an item writes the row again; the exception path
  only pauses, and a coroutine of a removed item changes no saved item.
- `PausedItemsAreQuiet`, `CompletionIsFinal`. Both are
  conditional on a patient user. The invariant `PatientInv` is that an item has
  one coroutine at most, none when it is complete, and that one which is not
  canceled is of an item shown as downloading. `DownloadingHasWorker` is needed
  for `stop`: the coroutine it cancels is the item's only one.
- `CanceledWorkersAreSilent`. A count changes where a
  coroutine of the item that is not canceled has looked at a picture, or in a
  restart; it follows from the types, action by action.
- `NobodyWaitsInVain` (`DownloadsFiles_proofs`). Inductive with the types: nobody
  listens to an idle load, so a new load under its name has only new listeners;
  the end of a load tells all that listen; and an error handler that evicts the
  pending load of another listener takes only its entry. The load runs on for
  those who listen to it (`ImageFailedStreams`), and the entry leads to the new
  one.
- `ProgressCorrect`, `QueueKeepsPromise` (`DownloadsFiles_proofs`). Both are
  about a cache that nobody clears, so a file that exists stays. The invariant
  `FilesInv` follows the file through the code: a load that writes has created
  it, what is ready in memory has one, and so has each picture a coroutine has
  looked at and does not list any more. A count of n therefore means n
  different files, by `CountsEachOnce`: what is not listed is counted, and what
  is listed are `Len(todo)` pictures at most. Items and rows take their counts
  from there. For the refinement each action maps to a step of `DownloadList`
  or a stutter; `Finish` is allowed since a complete item has all its files,
  and `Reopen` since the row is current and no chapter is in it twice.

- `TypeCorrect`, `NeighboursCorrect`, `CallsCorrect` (`PictureReader_proofs`).
  None of the three is inductive alone. A call lists at most `Size` pictures
  only because it has handed over what its processor holds, which is less, and a
  whole list is complete, so that no call starts for it (`CallsFit`,
  `WholeRowIsComplete`); the
  processor a page turn makes is new only because exactly the held ones and
  those of running calls are in use (`HeldInv`). Both page turns are one lemma,
  `TurnStep`, with the direction as its parameter.
- `LateAnswersTakeNothing`, `PreloadsWhatIsShown`
  (`PictureReader_proofs`). The first is conditional on a plugin that
  looks at `disposed`, as the run is. The invariant adds `RowsFit`: a live
  processor shows what its row holds, and either is complete exactly when it is
  whole. This is where two processors of one chapter matter: only one is live.

- `RowIsItsWriters` (`Favorites_proofs`). The row is
  the list of the isolate that wrote it last, through every edit and answer. The
  invariant adds that each check belongs to an isolate and that the background
  isolate has not written before its library is up; the lemma that needs care is
  `SameEncoding`: an answer that is not saved changes nothing that is saved.
- `CountsCorrect`, `HandlesCorrect`, `NothingFreedTwice` (`Bridge_proofs`). The
  three are proved together: a count is exact through a release only because the
  address released is the wrapper's own, and that is so only because nothing was
  freed twice. The invariant `IInv` is types, the three properties, and
  `DestroyedHasNone`: while the library is there, a destroyed wrapper has no
  address. Lemmas say what one more and one less holder does to the cardinality
  of `Refs` and `Holders`, and `FreeCounts` what the destructor of any set of
  instances does.
- `CallsAreAtomic`, `RacersAreBounded` (`Database_proofs`). The refinement is
  proved step by step: each action of `Database` is mapped to `Begin`, `Read`,
  `Write`, `Return` or `Crash` of `KeyValueRows`, or to a stutter. The
  invariant says that a thread waits in the queue at most once and only when it
  has pushed, that who drains holds the mutex, and that a row a set has found
  is still there. The insert is the step that needs care: the sets it overtakes
  become effective with it. `RacersAreBounded` counts the threads that may
  still insert together with the rows there are.

- `TypeCorrect`, `OneInFlightHolds`, `LoadedIsCachedHolds`,
  `FetchesAreServedHolds`, `StoppedIsQuietHolds` (`PreloadQueue_proofs`). The
  loop of `_update` is treated as a program's loop would be: `FillingUnfolds`
  says that the recursive function does what its equation says, `Reached` is the
  loop invariant (no entry is lost, nothing new counts as loaded, at most one
  fetch has begun), and `Filled` is an induction by the least i that fails it
  (`Least`). The invariant `IInv` adds to the types what a load that writes and
  a picture in memory have on disk (`FilesInv`), who listens to which load
  (`Heard`), that the place a fetch is to mark exists and was given the picture it
  loads (`QueueFits`), though it may have another by now, and that what a fetch has
  waited for was tried (`FetchFits`). What was tried stays so: a file stays, a
  failed entry goes only for a new load, and the end of a load leaves one or the
  other (`CacheGoesOn`).
- `TypeCorrect`, `RemovedStaysAwayHolds` (`Plugins_proofs`), whatever reloads
  overlap. Each comment only adds to the lists, and adds a source only when it
  was never added before (`ConsiderGrows`); induction over the page carries that
  to an answer and to a crash after any comment of it (`PageGrows`).
- `OnlyAnnouncedHolds`, `PrevIsListedHolds`, `LastReloadIsCompleteHolds`
  (`Plugins_proofs`), with the hypothesis that a page that loads is not
  refreshed (`~Overlap`, see the bounds). The invariant `ChainInv` says that a
  page has one reload at most, that its container holds the author's key or none
  while no comment with a token was looked at, that `_prev` is a trusted comment
  with its whole path added, and that the reload that reset `_prev` last has
  caught every `Alone` comment before the page it waits for. `ConsiderFollows`
  is the step that needs care: an `Alone` comment that does not verify is
  already behind `_prev`, since `_prev` has passed the token it signs and only
  this comment could have brought it on (`PathsFit`). Other reloads move `_prev`
  on only, which is why they do no harm; one that resets it becomes the last.

Only model-checked: the liveness properties, which are out of the prover's
reach (`AllPreloaded`, `SpinnerEnds`, `WorkersEnd`, `KeepsPromiseFairly`,
`HeldIsLoaded`, `NewsArrive`); and the violation. Every other property of the
runs is a theorem, some under a condition that the run has as well. What a
recursive function computes is proved by induction on a number, in the form of
the lemma `Least`, and not by the library's induction theorems, whose operator
parameter the prover cannot instantiate.

## 6. Known defects

Met while modelling. The first is a finding with a run of its own; the others
are in the models, the properties that hold are stated so that they do, and no
property claims the contrary.

- A file that does not decode is read again at every reload
  (`neo_cache_manager.dart:295`; run `NeoCacheReload.cfg`).
- A file cut short by the end of the process counts as downloaded
  (`neo_cache_manager.dart:335`, `download_manager.dart:86`), so a complete item
  may lack a picture offline.
- An item of the old collection comes back at the next start after it was
  removed (`download_manager.dart:401`); `Reopen` of `DownloadList` allows it.
- A plugin that does not look at `disposed` and saves after its reader was
  closed leaves a row that is complete and lacks pictures
  (`manga_loader.dart:93`): with `ChecksDisposed = FALSE` the model takes `Open`,
  `Close` and the answer, whose `setData` is ignored and whose `save` is not.
- An item that is stopped and started again at once is shown as paused when its
  first coroutine ends, while the second goes on (`download_manager.dart:323`).
- A picture whose URL is replaced while it is fetched is not fetched under the
  new one (`preload_queue.dart:41`); the widget that shows it loads it.
- A first check that still runs when a chapter appears records it without a red
  dot (`favorites_manager.dart:124`).
- A page of plugins whose reload throws shows its indicator until it is opened
  again (`libraries_page.dart:491`).
- The viewer copies `loading` and reads it again only when the list changes:
  after a failed load it turns to no next chapter (`picture_viewer.dart:881`).
- A favorite removed during a pass may end the loop of the app until the next
  start (`favorites_manager.dart:285`): the exception of `NewsArrive`.
- The two isolates overwrite each other's favorites (`background_task.dart:45`).
- The end of the process between two rows leaves a plugin that counts as added
  and is not listed, for ever (`plugins_manager.dart:202`).
- Of two comments that sign the same token only the one that is looked at first
  is taken, with what follows it (`plugins_manager.dart:184`).
- Where the database cannot be opened, a row reads as absent and the next set
  inserts a second one, which is never read (`SQLite.cpp:212`); the set-up of
  the background isolate replaces the shared `Database` object while the app
  may be inside of it (`DBMaker.cpp:27`); the pointer to a new table is set
  before its `CREATE TABLE` has run (`Model.h:295`). The results of
  `sqlite3_prepare_v2` and `sqlite3_step` are ignored (`SQLite.cpp:227`, `256`,
  `485`), so where the disk is full a set is lost without a word. The model of
  the database has none of these.
- A wrapper used after `Glib.destroy` passes a freed instance to the native side
  (`core.dart:210`); the model has no such call.

## 7. Not modelled

- Local pictures and imports, notices, pages, themes, localisation, the web
  view plugin and the picture cache of version 2: little state of their own,
  calls straight into the operating system, or no longer used.
- The list of the history: at most 200 entries, changed by one isolate without
  awaits, written whole each time. Its row is one of those of `Database`.
- The scripts of plugins and the git checkouts they come from.
- Of the native code: sqlite, secp256k1, the headers of V8 and QuickJS, and the
  hashes are vendored, and the engines of `gcore/script` other than Dart are
  not compiled. The application itself is written in Dart; its native share
  that runs and keeps state is the bridge and the database. The map therefore
  covers the application's own files and a small part of the native lines.
