# A verification development of beasy

beasy is a GTK+ program that watches a work queue and tells its user when there is something in
it. Its core, `liboul`, is a fork of libpurple: signals, preferences, plugins, notifications,
connections through proxies, HTTP, port mappings. Its user interface, `beasy`, shows popups, windows
and a tray icon. What it watches is the business of plugins; `qmon` is the one that polls the queue.

This directory holds TLA+ specifications of the parts in which events, timers, threads, failures or
restarts can meet in an order nobody tried, the TLC configurations that check them on small
instances, and proofs, checked by TLAPS, of theorems about them for every instance.

All paths below are relative to the repository (`src/`).

## 1. The system

### 1.1 Processes and the main loop

There is one process and one thread that runs almost everything: the GLib main loop, which dispatches
timers (`oul_timeout_add`) and file descriptor watchers (`oul_input_add`). A handler runs to its end
before the next one starts, so a handler is one action of a model, and what can go wrong is what
happens *between* handlers: a timer that outlives what it works on, a watcher that was already
triggered when its owner was freed, an answer that arrives after a cancellation. The exceptions are

* the threads of `qmon`, one for each poll, which share a structure with the main loop without a lock;
* handlers that call back into a list they walk (unloading plugins, emitting signals, telling of a
  changed preference);
* termination signals, a crash, and a disk that fails in the middle of a save.

### 1.2 Components

| Component | State | Operations | Correct when |
|---|---|---|---|
| Proxy connections, `liboul/proxy.c` | list `handles` of attempts; per attempt: remaining addresses, socket, watcher, write and read buffer, stage of the handshake, DNS query; the static `gpi` with the settings | `oul_proxy_connect`, `_socks5`, `_cancel`, `_cancel_with_handle`, `oul_proxy_uninit`; handlers for lookups, connected sockets, writable and readable sockets | originator told exactly once and never after a cancellation; sockets and watchers exact; requests sent whole; socket handed over only when the proxy agreed; every attempt ends |
| DNS query, `liboul/dnsquery.c` | query with a timer or an answer awaited from the user interface | `oul_dnsquery_a`, `oul_dnsquery_destroy`, `resolve_host`, `oul_dnsquery_resolved` | no answer after destruction |
| HTTP fetch, `liboul/http.c` | URL, connection attempt, socket, watcher, request and how much of it was sent, buffer with its length and capacity, redirects so far | `oul_http_fetch_url_request_len`, `_cancel`; handlers for connected, writable, readable | body intact; buffer never overrun; uses proxy.c as proxy.h demands; told once; ends |
| Plugins, `liboul/plugin.c`, and their dialog, `beasy/gtkplugin.c` | lists `plugins` and `loaded_plugins`; per plugin: flag, error, `dependent_plugins`; rows of the dialog, the saved list | load, unload, reload, destroy, `oul_plugins_unload_all`, `oul_plugins_destroy_all`, probe, load the saved ones, toggle, configure | dependencies of loaded plugins loaded; lists agree; walking a list survives its changes; calls return; one plugin of a name; what is on comes back |
| Work queue monitor, `plugins/qmon` | the monitor (status, timers, `httpbody`, `httpdone`), its options, one thread for each poll | menu actions, poll timer, check timer, thread body, unloading | answers noticed once and whole; timers follow the status; no memory error |
| Preferences, `liboul/prefs.c`, files `liboul/util.c` | tree of values, `save_timer`, `prefs_loaded`, callbacks; `prefs.xml` | add, set, load, save, callbacks, uninit | file always the whole of one moment; what was set reaches it; plugins come back |
| Life cycle, `liboul/core.c`, `beasy/beasy.c`, `beasy/beasyaux.c` | where startup or quitting has got to | init, load saved plugins, quit, signal handler | order of saving and tearing down |
| Popups, `beasy/gtkntf_*.c` | list `displays`; per popup: state, timer, frame, size, place; the plugin's details | a `notify-*` signal, frames, clicks, moving to another edge | timers owned; stacked without overlap; limit kept; every popup goes |
| Notification windows, `liboul/notify.c`, `beasy/gtkntf.c` | list `handles` of (plugin, window) | open, close, close for a plugin, Close button | windows of an unloaded plugin gone |
| Signals, `liboul/signals.c` | per instance: signals with sorted handlers | register, connect, disconnect, emit | handlers called once, in order, although they disconnect |
| Router, `liboul/upnp.c`, `nat-pmp.c` | `control_info`; per discovery: socket, watcher, timer, retries; list `discovery_callbacks`; mapping requests | discover, map, unmap, public and internal address; handlers for answers, timeouts, fetches | whoever waits is answered; discoveries end unless a router that accepted a connection stays silent |
| Listening and the public address, `liboul/network.c`, `stun.c`, `dnssrv.c` | listen requests with their retry; `nattype` with the server it came from | listen on a range, ask for the address; handlers for SRV and DNS answers, STUN's reply and timeout | address of the configured server; lookups end as discoveries do; requests freed once |
| Statuses, `savedstatuses.c`, `status.c` | list of saved statuses, table by creation time, the current one, a save timer | make, change, delete, activate, expire, save, load | a status is found by its creation time and title; what changed is going to be saved |
| Sound and email, `gtksound.c`, `gtkemail.c` | time of the last sound, child processes | play, send | no process but its own is killed |
| Tray icon, `gtkdocklet*.c` | icon, embedding timeout | create, embedded, destroyed | re-created once |
| Popup themes, `beasy/gtkntf_theme*.c`, `gtkntf_notification.c`, `gtkntf_item*.c`, `gtkpref_theme.c` | probed and loaded themes, rows of the preference page, saved names; a theme's notifications and items | probe, load, unload, copy, install, refresh, save; draw items, backgrounds and texts | loaded themes come back and follow their files; a copy is the same theme; what is drawn stays inside the popup |
| HTML widget, `beasy/gtkhtml.c` | text with format tags; counters and a stack while a message is read; clipboard | append, type, delete, toggle formats, copy, cut, paste, drop, write markup | formats nest as the message asked; markup read back gives the same text and formats |
| Conversion of text, `liboul/util.c` | a few flags and a stack over one input | HTML to XHTML and text, strip, link | what the user reads stays the same; what is written in place stays behind what is read |
| XML trees, `liboul/xmlnode.c` | nodes with parent, first and last child, next | build, change, copy, free, write, read | links consistent; written and read is the same tree |
| Ciphers, NTLM, `cipher.c`, `ntlm.c` | registry of ciphers; a context's partial block, count, chaining; messages | append, digest, reset, encrypt, decrypt, answer | independent of how data arrives; decryption inverts; a cipher in use stays |
| Messages and reports, `msg.c`, `qmonreport.c`, `gtkntf.c` | a plugin's details, the table of a window | parse a page, filter, write and read the document, show, open a link | the window shows the rows asked for, each field under its heading |
| Preference dialogs, buffers, images, main loop glue | widgets, bytes | – | – |

### 1.3 How they interact

* `http.c` holds one connection attempt of `proxy.c` at a time; `upnp.c` and `gtkemail.c` hold fetches.
* An attempt holds one query of `dnsquery.c`; the originator is called back from the main loop, except
  that `oul_proxy_connect` may return NULL without calling back, after which `http.c` tells its
  originator at once.
* The public address is asked of STUN, which looks up its server, listens on a port and for that asks the
  router for a mapping, which may have to be discovered first, with a broadcast and a fetch.
* Loading a plugin calls it; unloading it closes its windows (`oul_notify_close_with_handle`),
  disconnects its signals and preferences, and unloads those that depend on it.
* `qmon` emits `notify-info`; `gtkntf_event.c` is connected to it and opens a popup; a click on the
  popup opens a window for the plugin through `notify.c`.
* `savedstatuses.c` and UPnP read and write their files as XML trees; the tray icon follows the current
  saved status; the proxy's handshakes use digests and NTLM.
* Setting a preference calls the callbacks of the preference and of its parents; the callback at the
  root schedules the saving of `prefs.xml`.
* Quitting saves and disconnects the preferences *before* the plugins are destroyed, and the user
  interface sets the list of loaded plugins once more after that.

## 2. What is modelled

| Module | Code | Abstract specification |
|---|---|---|
| `ProxyConnect` | `liboul/proxy.c`, `liboul/dnsquery.c` | `ConnectPromise` |
| `HttpFetch` | `liboul/http.c` | `ConnectPromise`, twice: as what it uses and as what it promises |
| `Plugins` | `liboul/plugin.c` | – |
| `QmonMonitor` | `plugins/qmon/*.c` | – |
| `Preferences` | `liboul/prefs.c`, `util.c` (writing a file), `core.c`, `beasy.c`, `beasyaux.c`, `gtkplugin.c` (toggling) | `SavedSettings` |
| `Notices` | `beasy/gtkntf_*.c`, `gtkntf.c`, `liboul/notify.c` | – |
| `PortMapping` | `liboul/upnp.c`, listening in `liboul/network.c` | – |
| `PublicAddress` | `liboul/stun.c`, the address in `network.c`; composed with `PortMapping` | – |
| `Signals` | `liboul/signals.c` | – |
| `SavedStatuses` | `liboul/savedstatuses.c` | – |
| `PrefTree` | the tree of `liboul/prefs.c`, its callbacks and its text | – |
| `PluginFiles` | probing and saved plugins in `liboul/plugin.c`, `beasy/gtkplugin.c` | – |
| `Reports` | `plugins/qmon/qmonreport.c`, `liboul/msg.c`, tables and links in `beasy/gtkntf.c` | – |
| `Digests`, `Encryption`, `Ciphers` | `liboul/cipher.c` | – |
| `Ntlm` | `liboul/ntlm.c` | – |
| `CipherSuite` | composes `Digests`, `Encryption` and `Ntlm` | – |
| `XmlTree` | `liboul/xmlnode.c` | – |
| `Markup` | markup in `liboul/util.c` | – |
| `ThemeFiles`, `Themes`, `PopupDrawing` | `beasy/gtkntf_theme*.c`, `gtkntf_notification.c`, `gtkntf_item*.c`, `gtkpref_theme.c` | – |
| `HtmlFormats`, `HtmlWidget` | `beasy/gtkhtml.c` | – |
| `TrayIcon` | `beasy/gtkdocklet*.c` | – |
| `ProxyConnect_proofs`, `HttpFetch_proofs`, `Plugins_proofs`, `QmonMonitor_proofs`, `Preferences_proofs`, `Notices_proofs` | theorems about the module each is named after; `Plugins_proofs` also has those about `PluginFiles`, `Notices_proofs` those about `Reports`, `HttpFetch_proofs` those about `CipherSuite` | – |
| `PublicAddress_proofs` | theorems about `PublicAddress` with `PortMapping`; `Preferences_proofs` also has those about `PrefTree` | – |
| `Library_proofs` | theorems about `Signals`, `TrayIcon`, `Ciphers`, `SavedStatuses` and `Themes` | – |
| `MCLibrary` | composes the modules from `Signals` to `TrayIcon` | – |
| other `MC*` | the instances TLC runs | – |

The proof modules are proved, from nothing, by `tlapm`; section 5 says what they state and how they argue.

Each definition has its lines in `PROJECT.json`, "map". The definitions named `X_Y`, next to `X`,
are versions of `X` with a plausible mistake; the properties are shown to notice them.

### 2.1 ProxyConnect and ConnectPromise

`conn[c]` is the record of attempt `c`, an `OulProxyConnectData`:

* `st`, `handle`, `own`: whether the attempt exists, whose it is, and whether it owns its proxy
  settings (`oul_proxy_connect_socks5`); `to`: whether it looked up the proxy or the destination;
* `query`, `hosts`: the lookup under way, the addresses not tried yet;
* `fd`, `inpa`: the fields of the same name, a watcher being ⟨condition, callback, socket⟩; `open`
  and `watches`: what the kernel and the main loop hold because of the attempt. That the two pairs
  agree is a property, not a definition;
* `read_cb`, `msg`, `written`, `got`: the handshake. A request is a message of a length, a partial
  write leaves `written` in the middle of it. `skipped` and `lost` record what the code loses: bytes
  of a request that were never sent, a byte of an answer that was overwritten;
* `owes`, `said`, `rounds`: what the proxy at the other end has to answer, what it last said, how
  many rounds of authentication there were;
* `clean`: the 10 ms timer of a socket that connected at once; `calls`: the callbacks made.

`got` counts pieces rather than bytes, up to `MaxPieces`.

`gpi` is the proxy type in the static structure that the next `oul_proxy_connect` overwrites;
`handles` is the list of the same name, which follows from the records: an attempt enters it when it is made
and leaves it only when it is freed. That a handler never gets an attempt that has left it is GLib's doing, which
dispatches no removed watcher, so the test at `proxy.c:455` always succeeds; the timer of finding 1 makes no such test. Actions: `Connect`, `ConnectSocks5`, `Refuse` (returns NULL),
`ResolveHost` (timer of the built-in resolver), `UiResolved`, `SocketReady`, `CleanConnect`, `DoWrite`,
`ReadShort` (a piece that is not enough), `ReadReply` (the piece that completes an answer), `Drop` (end
of file, error), `Cancel`, `CancelWithHandle`, `Uninit`. The handlers of the handshakes keep their
names: `http_canread`, `s4_canread`, `s5_canread`, `s5_readauth`, `s5_readchap`, `s5_canread_again`.
An address that fails goes on with the next one inside the same handler (`Failed`), as
`oul_proxy_connect_data_disconnect` does.

`ConnectPromise` is what `proxy.h` says to originators: an attempt is refused, or pending until it is
answered or cancelled; nothing follows an answer or a cancellation.

### 2.2 HttpFetch

`fetch[f]` is an `OulHttpFetchUrlData`. A server's answer is a header length, a body length, an
announced length and whether it redirects; reads cut it anywhere, up to the size of the buffer.
`pos` is what was read, `len`, `data_len`, `cap` are the length held, the field `data_len` and the
size of the allocation, `good` counts the bytes held that are the right ones in the right place.
`outcome[<<f, k>>]` is the state of the connection attempt made after `k` redirections: proxy.c as
`ConnectPromise` describes it. `reading` is the fetch whose receive handler is between two reads of
its loop. Actions: `Request`, `ConnectCb`, `ConnectFailed`, `SendCb`, `ReadSome`, `ReadAgain`,
`ReadEof`, `BreakOff`, `Cancel`.

### 2.3 Plugins

Loading and unloading recurse through `plugin->dependent_plugins` while they change it, so the model
has a stack of frames, one for each call that is not finished, and an action for each stretch between
two calls. An element of a list is ⟨plugin, number⟩ so that two elements for the same plugin differ,
as list nodes do; `at` is the node a loop saved as the next one. `ret` is the value just returned.
`mayfail` says which plugins may fail to load or refuse to unload. `Begin` is a call from outside.
A new element takes a number that neither the list nor a loop on the stack has (`Serial`), so numbers are used
again as addresses are.

### 2.4 QmonMonitor

`monitor` is the static pointer of `qmonplugin.c`. A thread appends pieces to `body` and then sets
`httpdone`; the handler of the check timer is cut into `CheckHttp`, `Report`, `Cleanup`, `Free`,
because a thread may step in between. `fault` records the first memory error, after which the program
does nothing (`main = "down"`): nothing is claimed of a program whose memory is corrupt. The options hold strings of the
preferences: `stale` says that the preferences may have freed them, `lost` that destroying the options did, by unloading or
after a refused login. `happened`
records circumstances (overlapping polls, a broken transfer, an edited preference, ...), so that
properties can say which of them an error needs.

### 2.5 Preferences and SavedSettings

`mem` and `file` are the preferences in memory and in `prefs.xml`, each with the list of loaded plugins
apart from the others; `temp` is the temporary file. `phase` is where the main loop is: starting,
running, in the save timer's handler, or in one of the two stages of quitting. `Die` is a crash or a
termination signal at any moment. `SavedSettings`, the abstract specification, has only the settings
and what is saved: saving saves all of one moment, and a session starts from what is saved.

### 2.6 Notices

`displays` is the list of popups, `popup[p]` a `GtkNtfDisplay` with its `GtkNtfEventInfo`, `timers` the
timers the main loop holds, with their callbacks, `vertical` whether the stack runs along a vertical
edge. Sizes are in pixels; the size of a frame follows the code's arithmetic (`DELTA_SIZE`, ratio
4/3). `handles` is the list of `notify.c`, entries of which stay when a window is destroyed by its Close
button, and `window` says what is at each address. `extra[p]` is `plugin->extra`, the details of the
plugin's last report, which a click shows. `Removed`, `Positioned` and `Change` are what the functions of the same
purpose make of list, popups and timers together; the entries left when windows close keep their order (`InOrder`).

### 2.7 PortMapping and PublicAddress

`dd[d]` is a `UPnPDiscoveryData`: socket, watcher `inpa`, timer `tima`, `retry`, the fetch of the description;
`late` is the 10 ms timer whose id is not kept. `info` is `control_info`. `listen` is the only
`OulNetworkListenData` there can be, with `retry` and `adding`, and `ar`, what its mapping request
waits for: the list `discovery_callbacks` (`waiting`), the failure timer, the router's answer to a request
(`fetch`), or, without mapping, the next turn of the main loop (`soon`). Since handlers of these files call
each other before they return, they are operators from a state to the set of states they may leave, and a
request that fails before the call that made it returns is a value of its own (`refused`), after which
the caller's store into freed memory is recorded in `touched`. `spoilt` records that a request could not be sent at all
(`Unsent`), which frees it under the hands of `upnp.c`. `PublicAddress` adds `nat`, which is `nattype` with
the stage STUN's discovery is at and the server it asks (`asked`), and the preference `server`, and makes the steps: a handler of `PortMapping`
together with STUN's callback when the listener is told. Actions: `GetMyIp`, `EditServer`, `TimePasses` (the
five minutes of the caches), `SrvAnswer`, `DnsAnswer`, `Reply`, `Timeout`, and a step for each handler of
`PortMapping`. Addresses are only known or not; the public address the router tells is only ever returned.

### 2.8 Signals, PrefTree

Both are about a walk over a list of callbacks, during which a callback may do almost everything. In
`Signals` `emits` is the stack of emissions under way, each with the node it saved as the next one;
`Step` calls the next handler, `Finish` ends a walk, and between them any operation may come, as from the handler.
Handlers leave a list by their places in it, from the last to the first. The
contract of a callback is the module's header: it may disconnect itself, no other handler of the signal being emitted.

`PrefTree` has the preferences by full name, each with kind, value, children in order and callbacks in order.
`SetOrAdd` starts a walk from the preference to the root; `CallbackReturns` goes on from the list node of
the callback. `prefOwed` is a ghost: callbacks that have not been told the present value. The contract is the
opposite of that of signals: a callback may disconnect others but not itself, since `do_callbacks` reads
the next node after the call. `PrefMarkup` and `ReadPrefs` are `prefs.xml` as a sequence of elements, read with the stack
of the parser's handlers; `ToAttribute` and `FromAttribute` convert file names, of which some have no UTF-8 form and some are none in the
encoding of another session (`PrefForeign`). When the file is written, and that writing may fail, is the subject of `Preferences`.

### 2.9 SavedStatuses

`saved_statuses` is the list in its order, `creation_times` the table that finds a status by when it was
created (clashes are resolved by counting up), `default_status` what the preference names, `status_xml` what is on disk.
An operation is an operator on a record of list, table, timer and preference (`New`, `Deleted`, `Activated`), because handlers
ask for the current status first, which may make one (`WithCurrent`). `Sorted` and `Expired` give the elements that stay their places (`Arranged`).
Time passes by `Tick`; transient statuses expire in `oul_savedstatuses_uninit` (`Expired`). The program may end with or without
it, and with or without the preferences.

### 2.10 Digests, Encryption, Ciphers, Ntlm

The rounds of a cipher are one function of block and state: `Digests` keeps the list of blocks compressed, and
`Encryption` takes any permutation of blocks for each key. What is modelled is everything around the rounds: the partial
block, the counter in two words that overflow, padding that needs one block or two, HMAC's two passes, ECB and CBC with
their vector, RC4's two indices. Block and word sizes are constants; a word counts a whole number of blocks, as 2^32 does. `Ciphers` has the registry, the counts of uses and the life of
contexts, one inside the other for HMAC. The list of ciphers is a set: no two have a name, and the list is only searched
by name, so its order says nothing. `InitCiphers` registers the built-in ones one after the other; users register and
unregister between. `Ntlm` has the offsets and lengths of the fields and the three keys from a password. `CipherSuite` puts the three without
shared state together.

### 2.11 XmlTree, Markup

`XmlTree` has nodes by address with the links of the code, so that freed nodes and stale links show. Writing gives
markup with entities and layout; reading ends early when the file does. `Markup` has one behaviour for each input: `input` grows by a token, and the invariant compares what each conversion
makes of it with what a reader sees.

### 2.12 ThemeFiles, Themes, PopupDrawing

`ThemeFiles` reads a theme, copies it, writes the copy, and reads that: records with optional attributes stand
for elements. `Themes` has paths and contents of files, the lists of probed and of loaded themes, the saved names and the
rows of the page; files change behind the program. `PopupDrawing` has one step for each thing drawn, from the sizes and
offsets to what is painted; characters are columns.

### 2.13 HtmlFormats, HtmlWidget

`HtmlFormats` has the operators on the record of a widget: cells with their tags, the formats the next text gets, counters, the
stack of fonts, text not yet inserted. `asked`, a ghost, is the set of formats that the open elements ask for. `HtmlWidget` has the actions: reading a
message token by token, and every operation of the user.

### 2.14 TrayIcon, PluginFiles, Reports

`TrayIcon` has the two halves of the code, `docklet` with its timer and `tray` with what it was told, and the tray as the environment: it takes
the icon in, resizes it, dies. `PluginFiles` has files by what probing tells apart of them (`Meta`), the lists of `plugin.c`, the rows of the
dialog and the windows with preferences. `Reports` follows an update from the cells of the page over filters, document and details to the window, and a
link to the browser; a popup knows whose details a click shows, and the signal opens it before the details are stored.

### 2.15 MCLibrary

The modules of 2.8 to 2.14 share no variable, and the code calls from one to the other are part of the operation that makes
them. `MCLibrary` instantiates them together: `part` is the one that runs, the others stay as they start. One run checks them
all; interleaving them would multiply states and show nothing, since no step of one reads what another writes.

## 3. What is checked

States are distinct ones; all runs are exhaustive for their constants.

| Run | States | Checks | Question |
|---|---|---|---|
| `proxy_http` | 1,006,474 | `TypeOK`, `NothingLeaks`, `RouteIsKept` | Do two attempts through every kind of proxy keep their sockets and watchers exact? |
| `proxy_promise` | 71,153 | `GrantedAsAsked`, `PromiseKept` (refinement), `EveryAttemptEnds` (liveness) | Does proxy.c implement the contract of proxy.h? |
| `http_fetch` | 44,173 | `FetchIsSound`, `BodyIntact`, `ContractsKept` (two refinements), `EveryFetchEnds` (liveness) | Does a fetch get the body right however the answer is cut? |
| `plugins` | 16,333 | `PluginsAreConsistent`, `NextStillLinked`, `CallsReturn` (liveness) | Does recursive loading and unloading keep the lists right? |
| `qmon` | 276,265 | `MonitorIsSound`, `NoticeOfOneAnswer`, `EveryUpdateNoticed` (liveness) | What does sharing without locks rely on? |
| `preferences` | 975,783 | `SettingsAreKept`, `DurablePromise` (refinement), `SetIsSaved` (liveness) | Do settings survive crashes, failing disks and quitting? |
| `notices` | 64,872 | `PopupsAreSound`, `UnloadedHasNoWindow`, `PopupsGo` (liveness) | Do popups and windows come, stand and go as they should? |
| `public_address` | 614,005 | `LookupsAreSound`, `AddressOfServer`, `EveryLookupEnds` (liveness) | Does everybody who waits for the router or for STUN get an answer, and the right one? |
| `library` | 707,620 | see below | Is each part of the library and the interface right by itself? |
| `proxy_late_timer` | – | `ToldOnce`, violated | finding 1 |
| `http_one_byte` | – | `BodyIntact`, violated | finding 2 |
| `plugins_freed_next` | – | `NextStillLinked`, violated | finding 3 |

Invariants that are about one thing are named parts of one: `GrantedAsAsked` is `RequestSentWhole` and
`ConnectedMeansGranted`; `FetchIsSound` is `TypeOK`, `HoldsWhatItAwaits` and `RoomForNul`; `PluginsAreConsistent` is `TypeOK`,
`DependenciesLoaded` and `DependentsNoted`; `MonitorIsSound` is `TypeOK`, `FaultsHaveACause` and
`TimersFollowMonitor`; `SettingsAreKept` is `TypeOK`, `ChangesAreScheduled` and `PluginsComeBack`; `PopupsAreSound` is `TypeOK`,
`TimersAreOwned`, `Stacked` and `AtMostThrottle`; `LookupsAreSound` is `TypeOK`, `SomebodyAnswers` and `StoredInTime`.

What `library` checks:

| Property | Module | Says |
|---|---|---|
| `EmissionsAreSafe` | `Signals` | the saved next handler stays linked, and every handler connected throughout an emission is called once, in order of priority |
| `PrefsAreTold` | `PrefTree` | when a change and all that callbacks made of it is over, every callback was last told the value there is; names and tree agree |
| `StatusesAreKept` | `SavedStatuses` | a status is found by creation time and by title; what the file lacks is scheduled to be saved |
| `CiphersAreRight` | `CipherSuite` | a digest is that of the whole message however it is cut, also keyed; decryption gives the plain text back; NTLM's fields are where the header says |
| `InUseIsAlive` | `Ciphers` | a cipher in use is in memory and counted rightly; nothing is left when a computation returns |
| `TreesSurvive` | `XmlTree` | links of nodes agree, no freed node is reached; written and read is the same tree |
| `TextSurvives` | `Markup` | the text a user reads is the same after each conversion, XHTML nests, in-place writing stays behind reading |
| `FilesReadBack` | `PrefTree`, `ThemeFiles` | what is written of the preferences reads back as a sound tree with the same names, order and values, but for file names that cannot be converted (`FileMeansTree`); the copy of a theme reads back as the theme, in one directory (`CopyIsTheSame`) |
| `ThemesComeBack` | `Themes` | (action property) a start loads what was loaded at the last end; a refresh follows the files |
| `DrawnInside` | `PopupDrawing` | what is painted lies inside popup and item, the tiles cover the popup once; a text fits, keeps the ends its clipping keeps and loses no more than it must; a token that is not offered leaves no trace |
| `FormatsSurvive` | `HtmlFormats` | formats are those the open elements ask for; markup reads back as the same text and formats; one tag of each class |
| `TrayIconIsTrue` | `TrayIcon` | an icon in the tray is known, true to status and size, and no old timer takes it down |
| `PluginsAreFound` | `PluginFiles` | one plugin of a name, a good one when there is one; saved ones are loaded; the dialog tells the truth |
| `ReportsAreTrue` | `Reports` | the window shows the rows of the last report that the options ask for, each field under its heading; a link is opened once or the user is told once |

### 3.1 Bounds, and why they are enough

* **proxy.** Two attempts meet in the list, in `gpi` and in `CancelWithHandle`, and nothing else is
  shared; the second already shows every interference. Two addresses let a failure in each stage go on
  to another address and then to none. Two pieces may come before the one that completes an answer. One round of authentication reaches the second request and the
  refusal of a third. `proxy_promise` has one address and the types `none` and `http`, because of the
  liveness properties, and `Immediate = FALSE`, because of finding 1; SOCKS5 is in it all the same, by
  `oul_proxy_connect_socks5`, which does not ask the settings.
* **http.** One fetch: fetches share nothing. A buffer of 3 units against answers of up to 9 makes it
  grow twice and makes reads end just before, at and behind each boundary; header lengths 2 and 3 and
  body lengths 0, 1, 4, 6 against announced lengths 0, 1, 4, 20 give every order of the three; four
  redirections are needed to reach the limit of the code.
* **plugins.** Three plugins in a diamond, the smallest shape in which unloading one plugin unloads
  another by two ways, which is what makes the saved next element dangerous. Four list elements at most.
* **qmon.** Two polls of two pieces: overlap, a torn answer, and an answer that begins with the rest of
  the last one.
* **preferences.** One preference the user interface adds and one that a plugin adds, two values, two
  plugins; saving, crashing and starting again any number of times.
* **notices.** Three popups with limits of one and two: pushed out, standing, arriving. Three frames,
  so that there is a first, a middle and a last one. One plugin and windows of others; one window
  address, so that addresses are used again; two entries.

* **public_address.** Two discoveries: one beside another whose socket failed; a third would need a third
  failure within 10 ms. `NUM_UDP_ATTEMPTS` and STUN's two repetitions are the code's. A usable name, a blank
  one and a short one for the server. After an edit the freed string may read as any of them.
* **library.** A part's bounds are in `library.cfg` and in the first half of `MCLibrary`:
  two signals with two handlers each at a time and emissions two deep, so that a handler works on the list that
  is walked; two walks of preferences nested, two callbacks, on the preference and above it, a path and a list of paths with a name that does not convert; two statuses
  of one title; blocks of 4 bytes, a length word of 8 values and messages of up to 9 bytes, so that padding takes one block and two and
  the length overflows into the second word; blocks of three bits with keys whose order matters; four nodes for trees, the smallest with
  a child before, the one removed and one behind; four tokens of markup; three theme files, one a copy, and one change from
  outside; popups and items of widths below, at and above each other; four tokens of a message and three edits; six plugins, two of a name,
  one that needs another, a loader and its script; pages of two rows and of one with half a row behind it.

### 3.2 Fairness

Weak fairness only, and only of what the code's environment does provide:

* `ProxyConnect`: of `Progress(c)` for each attempt: the main loop dispatches watchers and timers, the
  resolver answers, sockets connect or fail, and a proxy that owes an answer gives one or drops the
  connection. A proxy that owes nothing stays silent: so an attempt that waits for a proxy which waits
  for the rest of a request does not end, and `EveryAttemptEnds` would fail.
* `HttpFetch`: of the fetch's handlers; the servers close the connection at the end of their answer.
* `Plugins`: of the steps of a call, which nothing interrupts.
* `QmonMonitor`: threads run, transfers end or break off, the main loop dispatches the check timer.
  Nothing makes anybody poll.
* `Preferences`: the save timer is dispatched and its handler runs; nobody has to start the program
  or set a preference.
* `Notices`: of the timers of each popup.
* `PublicAddress`: of timers and of the SRV and DNS lookups. Neither a router nor a STUN server has to answer, and
  nothing is assumed of fetches: `upnp.c:430` removes its timeout before it fetches the description and `http.c` has none, so a router that
  accepts the connection and stays silent leaves the status DISCOVERING for ever. `EveryLookupEnds` therefore has the premise
  that no fetch stays unanswered for ever (`RouterAnswers`), and says nothing of behaviours in which one does.

Cancelling, clicking, quitting, crashing and failing are never assumed to happen.

`library` has safety properties only.

Deadlock is checked in `preferences`, `notices` and `public_address`, which never stop. In the other models the clients
may have nothing left to ask for (bounded attempts, fetches and polls, a monitor that is gone, a list
that reached its bound), which is not an error; in `library` an input that is read is read.

## 4. What the runs assume, and what happens otherwise

The properties above are claimed under conditions, some of which the code does not ensure. Where it
does not, the property fails in the model when the condition is dropped, and the code shows why.

Findings, each with a run that ends in a counterexample:

1. `proxy.c:558`: when `connect()` succeeds at once a timer of 10 ms is installed and its id is not kept.
   `oul_proxy_connect_cancel` within that time frees the attempt and the timer then uses it: the
   originator is called after it cancelled (`proxy_late_timer`).
2. `http.c:268`: when a read ends exactly one byte behind the header, this byte is lost, since the code
   takes over what it has read of the body only when there are two (`http_one_byte`).
3. `plugin.c:564`: the element saved before the recursive call is the one this call frees, after a
   failed load has left a stale element and a plugin has refused to unload (`plugins_freed_next`).

Conditions of the passing runs:

* `RouteIsKept` holds while the system's proxy settings do not change between the start of an attempt
  and the end of its lookup (`Volatile = FALSE`). They are read once per attempt into one static structure
  (`proxy.c:1748` reads it again after the lookup), so with other settings an attempt can connect to the
  proxy and take it for the destination.
* `RequestSentWhole` holds with one address for each lookup, all the built-in resolver ever returns. With
  two, the SOCKS5 greeting on the second address starts where the first one stopped (`proxy.c:1664`).
* `ConnectedMeansGranted` is claimed of HTTP, SOCKS5 and direct connections. A SOCKS4 answer that comes
  in two pieces overwrites its own start (`proxy.c:994`).
* `EveryAttemptEnds` is claimed without Basic authentication, whose request lacks the empty line
  at its end (`proxy.c:787`); no stage has a timeout.
* `EveryFetchEnds` is claimed of servers that close. With a server that keeps the connection open, a
  fetch ends by the announced length only when the last byte arrives together with the header or fits
  the buffer (`http.c:304`).
* `EmissionsAreSafe` is claimed of callbacks that keep the contract of `Signals`, as all in the program do: the saved next
  handler (`signals.c:437`) is freed when a callback disconnects it. `PrefsAreTold` likewise: a callback that disconnects
  itself frees the node `do_callbacks` is at (`prefs.c:106`).
* `FileMeansTree` says what becomes of file names that cannot be converted: one without a UTF-8 form is written without a value
  (`prefs.c:431`, `prefs.c:439`) and is NULL in the next session, and so is one that the encoding of the next session does not
  have (`prefs.c:170`, `prefs.c:205`). With the same encoding every other value is read as it was written.
* `StatusesAreKept` leaves out the counting of uses at activation, which schedules no save, and
  `oul_savedstatus_unset_substatus`, which returns before it schedules one and has no caller.
* `CiphersAreRight` is claimed of contexts that are reset before they are used again, of keys that are not empty, of pieces of data no longer
  than a word counts, since `md5_append` would lose a carry (`cipher.c:240`), and of ASCII names in NTLM.
* `TextSurvives` excepts HTML in which a bare `<font>` is closed: its end closes a span that was not opened
  (`util.c:1133`).
* `CopyIsTheSame` is claimed of files without a negative width of text, which is not written back, and without text
  items whose clipping is unknown, which are destroyed twice.
* `DrawnInside` excepts texts whose ellipsis or offset is wider than the room, with which the loop does not
  end (`gtkntf_item_text.c:567`), and texts not wider than the popup, which are not clipped although an offset pushes them out.
  Clipped in the middle, a text loses one character more than it must, since it is halved once more after the loop.
* `FormatsSurvive` is claimed of the text that comes while elements nest, with at most two fonts inside each other and
  no format set by two kinds of element (`plain`); `</s>` without `<s>` and bold inside a bold span toggle the format.
  Rules are left out of what reads back, since each brings line ends along.
* `PluginsAreFound` is claimed with one loader, and plugins that need one other at most, which needs none. It excepts files of the name of
  a loader (`FoundBySearch`): a loader that fails is destroyed after the directories were read (`plugin.c:1281`), and the file that was passed
  over for it is not looked for again; and saved plugins whose dependency is only found by its own entry in the list, which may come later
  (`plugin.c:1211`), since `oul_plugin_load` looks among the plugins that are known.
* `ReportsAreTrue` is claimed of rows that are whole and of fields that are not empty where they are compared; a page whose table has no row
  frees the table twice (`qmonreport.c:422`). The text of a field is compared up to its first ampersand, where `xmlNewChild` cuts it, since
  the result of the replacement in `qmonreport.c:33` is thrown away.
* `DependenciesLoaded` and `DependentsNoted` are claimed of plugins that do not refuse to unload: one
  that refuses has been taken off the lists of its dependencies before it was asked (`plugin.c:597`), stays
  on `loaded_plugins` when it is destroyed (`plugin.c:702`), and makes `oul_plugins_unload_all` repeat for
  ever (`plugin.c:1138`). `plugins` has runs in which none refuses and runs in which none fails to load. The name in a stale element belongs to
  a module that may be closed (`plugin.c:771`): looking it up (`plugin.c:566`) is then undefined, and modelled as not finding it.
* `FaultsHaveACause` is itself the list of the conditions under which the monitor's memory is safe.
  The others are claimed while the circumstances they name did not happen: polls that overlap, transfers
  that break off, invalid options.
* `ChangesAreScheduled` and `SetIsSaved` leave out preferences that were only added (`prefs.c:653` calls
  no callback) and changes since a write failed: a failed write is not retried before the next change.
* `AtMostThrottle` says the highest limit that was ever set is kept to: lowering it while popups are on the
  screen removes only one for each new popup.

* `StoredInTime` excepts the order in which the router confirms the removal of a mapping before the
  connection that tells the internal address is made. `oul_upnp_set_port_mapping` then fails before
  it returns, the listener is told and freed, and `network.c:194` stores the request in it. A listener that
  waited for the discovery always gets there, since its first request fails for the same reason
  (`upnp.c:941` says so).
  It also excepts requests that cannot be sent, since the control URL does not parse or the fetch is refused at once: the
  callback frees the request, in which `upnp.c:881` then stores the fetch.
  After a URL that does not parse (`upnp.c:674`) the code goes on to fetch, and the callback is called again with freed memory; this second call is left out.
* `SomebodyAnswers` and `EveryLookupEnds` except a STUN server whose name is blank, whose SRV record has port 0,
  or whose name was edited during the SRV lookup, which keeps the preference's own, then freed, string
  (`stun.c:412`): `oul_dnsquery_a` refuses these without calling back, and STUN stays DISCOVERING.
* `AddressOfServer` excepts an edit during the SRV lookup. The lookup is given the preference's own string (`stun.c:412`); an edit frees
  it and stores the new name (`prefs.c:894`), perhaps in the same place, so that `do_test1` asks the new server while `nattype` keeps the old name.
  When the name is edited back, the other server's answer is passed on as the configured one's; with `asked` in place of the
  exception TLC finds this in a few steps, although `stun.c:375` says it deals with a changed name.
  It also passes on an empty address when a STUN answer has no mapped address, or has it as its
  last attribute, which `stun.c:203` skips.

Further observations made while reading, which no property expresses: `proxy_pref_cb` compares with
another prefix than the one it is connected for (`proxy.c:2059`); `plugin.c:505` notes a plugin with its
dependencies before its own load function has succeeded; cyclic dependencies recurse without end
(`plugin.c:487`); `pref_full_name` has an assignment for a comparison (`prefs.c:537`); the Close button of
formatted windows does not tell `notify.c` (`gtkntf.c:332`), so the callback `notify.h` describes would not
be called; a popup that then cannot be drawn has pushed another one out (`gtkntf_display.c:945`); two
popups of one plugin share one slot of details; `expire_old_child` kills a process number that `waitpid`
has just released (`gtksound.c:277`); a connection that failed counts as one that tells the internal address
(`upnp.c:786`); `oul_upnp_cancel_port_mapping`
walks on from an element it freed (`upnp.c:911`); the sockets of `nat-pmp.c` are not closed; a STUN answer whose `recv` fails clears the byte before
the buffer (`stun.c:163`) and is then ignored, since no length equals it; a refused login leaves the header of the session freed (`qmonsession.c:55`); nobody emits
`network-configuration-changed`, so an address once found is kept for ever.

Of the parts of `library`:

* *Life of the program:* `oul_core_quit` calls neither `oul_savedstatuses_uninit` nor the end of the network, although
  `core.c:133` says "Save .xml files, remove signals, etc."; `oul_ciphers_init` is never called, so the list of ciphers is empty; the
  callbacks of status scores are all registered for one status, and `status.c` is otherwise stubs.
* *Plugins and dialog:* `oul_plugin_register` calls a plugin's load function when it is found, though `plugin.h` says it is prepared for loading, so it runs
  twice and without an unload; a plugin that somebody was noted to need, even somebody whose load failed, cannot be turned off in the dialog,
  since the question to the user is commented out (`gtkplugin.c:281`); a second loader of the same suffix that fails destroys the first one's scripts.
* *Themes:* a copy of an image item is NULL (`gtkntf_item_copy` tests for icons twice); a theme's master is set before the notification
  is found invalid; a theme is installed in another directory than the ones that are probed; a row is ticked although its
  file could not be loaded; an item that sticks out on both sides is drawn too little; `%S` falls through to the title.
* *HTML widget:* the background outlives the message that set it; a colour keeps 7 characters; a rule gains line ends
  at each saving; a title that is not shown takes the text before it along; dropped HTML toggles the formats of the selection.
* *Tray:* the list of pending messages is always empty, so it never blinks; the timer of embedding keeps its id when it is over, and a later removal
  is of a stale id; quitting destroys an icon only when it was embedded; changes of status never reach the icon.
* *Messages:* an SR without analyst or number is compared as NULL; an empty list of SRs reports nothing, since the branch that
  would copy all cannot be reached; an older popup shows the newest details, and a second click nothing;
  `xmlmsg_to_oulmsg` destroys an uninitialised message when the document does not parse; when the remote command of a browser cannot be
  started, the plain one is not tried; an unknown browser leaves the command NULL.
* *Others:* a full and wrapped circular buffer overwrites its oldest bytes when it grows (no caller); the count of uses of an
  image is one byte; `xmlnode_from_str` leaks the ancestors of where parsing failed; removing a UDP mapping by NAT-PMP asks for TCP.

## 5. What is proved

TLAPS checks the theorems below for every value of the constants that satisfies the named assumptions of the modules
(`ConstantsAssumption`, `HttpAssumption`, ...), which say what kind of value a constant is: any number of attempts, addresses,
fetches, plugins, popups, any lengths, any shape of dependencies. A few theorems have a hypothesis of their own:
each is one of the conditions of section 4, without which the property is false.

| Theorem | Module | Says | Under |
|---|---|---|---|
| `TypeCorrect`, `NoLeak`, `NoStaleWatch` | `ProxyConnect` | `TypeOK`; no socket or watcher leaks; no closed descriptor is polled (`WatchesOpenSocket`) | |
| `ToldOnceIfPrompt` | | originators are told exactly once (`ToldOnce`) | `~Immediate`: finding 1 |
| `KeepsPromise` | | `PromiseKept`: every step is one of `ConnectPromise` or a stutter | `~Immediate`: finding 1 |
| `RouteKept` | | `RouteIsKept`: no proxy is taken for the destination | `~Volatile`: settings that stay |
| `AskedAndGranted` | | `GrantedAsAsked`: requests whole, sockets only after the grant | `Narrow`: one address for each lookup, no SOCKS4 |
| `SoundFetch` | `HttpFetch` | `FetchIsSound`: the buffer has room, the fetch holds what it waits for | |
| `WholeBody` | | `BodyIntact` | `~OneByteTail`: finding 2 |
| `BothContracts` | | `ContractsKept`: proxy.c is used as `ConnectPromise` says, and a fetch keeps the same promise | |
| `ConsistentPlugins` | `Plugins` | `PluginsAreConsistent`: between calls, what is loaded has its dependencies loaded, and is noted with them | `AllWilling` |
| `NextLinked` | | `NextStillLinked`: the element saved before the recursive call is still in the list | `AllWilling`: finding 3 |
| `FoundAndShown` | `PluginFiles` | `PluginsAreFound` | |
| `SoundMonitor`, `OneNoticeOneAnswer` | `QmonMonitor` | `MonitorIsSound`, `NoticeOfOneAnswer` | |
| `KeptForever` | `Preferences` | `SettingsAreKept` | |
| `Durability` | | `DurablePromise`: every step is one of `SavedSettings` or a stutter | |
| `ToldInAnySession` | `PrefTree` | `PrefsAreTold` in sessions that start from any sound tree (`SessionsSpec`) | |
| `EverybodyIsTold` | | `PrefsAreTold` in sessions that start from the file | `FileMeansTree` at all times, which `library` checks within `FilesReadBack` |
| `SoundPopups`, `NoWindowLeft` | `Notices` | `PopupsAreSound`, `UnloadedHasNoWindow` | |
| `FoundIsShown` | `Reports` | `ReportsAreTrue` | |
| `SoundLookups`, `RightServer` | `PublicAddress`, `PortMapping` | `LookupsAreSound`; `AddressOfServer`, whose server may be edited at any time but not without consequence during the SRV lookup | |
| `EmissionsSafe` | `Signals` | `EmissionsAreSafe` | |
| `TrueIcon` | `TrayIcon` | `TrayIconIsTrue` | |
| `UsedCiphers` | `Ciphers` | `InUseIsAlive` | |
| `ComputationsLeaveNothing` | | (action property) a computation leaves registry and contexts as they were, on every way out | |
| `CiphersRight` | `CipherSuite` | `CiphersAreRight`, from the next three | |
| `DigestsRight` | `Digests` | `DigestsAreRight`: digests, also keyed, are those of the whole message | |
| `PlainBackAgain` | `Encryption` | `PlainComesBack`: decryption gives the plain text back, a stream depends on its key alone | |
| `FieldsInPlace` | `Ntlm` | `FieldsAreWhereAnnounced` | |
| `StatusesKept` | `SavedStatuses` | `StatusesAreKept` | |
| `BackAgain` | `Themes` | `ThemesComeBack`, an action property: every step is `ComeBack` | |
| `DrawnWhereItFits` | `PopupDrawing` | `DrawnInside` | |

`AllWilling` says that no plugin refuses to unload, which holds of both plugins of the repository: their unload functions
return TRUE (`src/plugins/example/example.c:137`, `src/plugins/qmon/qmonplugin.c:94`). Plugins may fail to *load* in any way,
and dependencies may even be cyclic: a cycle recurses for ever, as in the code, and never gets to a state that is wrong.

### 5.1 The arguments

Hardly any of the properties is inductive: a property speaks of what others see between two handlers, an inductive
invariant of every field a handler relies on. Each proof module starts with its invariant; what it adds, and why:

* **`ProxyConnect`.** A handler that fails on one address closes the socket, drops buffer and watcher, opens the next socket and
  perhaps at once writes, fails again, and so on to the callback, all in one step. `Inv` says that every record is `Sound`: `fd` names
  the open socket and `inpa` the only watcher (`Loose`, which also holds between giving the socket away and freeing the record);
  a watcher that writes has a message to write and a reader to go on with; a record that is not live has nothing; without
  immediate connections, the originator was called exactly if the record was freed (`Told`). The proof is local to a record: one lemma for
  each operator (`RemoveWatchLoose`, `DisconnectedSound`, ..., `ReplySound`) shows that it turns a `Sound` record into `Sound` ones.
  `Fitting` adds where the attempt goes (`Route`) and what it has asked so far (`Asked`); for it each operator has a frame lemma that says
  which fields it leaves alone. `KeepsPromise` maps a record to what its originator knows of it (`Outcome`): an action moves one record from stage to
  stage as `ConnectPromise` allows, `CancelWithHandle` and `Uninit` being cancellations of several at once.
* **`HttpFetch`.** `HttpInv`: a fetch is `Connecting` or it `Reads`, and one that reads has counted its bytes right (`Counted`),
  has room for one more (`Room`) in the capacity it knows of (`Sized`), and holds the bytes that were sent (`Intact`). The header is seen in the very read that completes
  it (`HeaderAhead`). What it believes of its attempts is what `ConnectPromise` has of them (`Attempted`), which makes both refinements
  follow step by step.
* **`Plugins`.** Unloading walks a list that the calls below it shorten. That the saved element survives depends on the *order* of the
  lists: there are times of loading such that a plugin is later than all it depends on, and every list of dependents has the latest first
  (`Ordered`; the times are not in the model, the invariant says that some exist). What a call unloads was loaded after what the call below it
  unloads (`Falling`), so a recursive call takes away elements *before* the saved one or stale ones, and what a loop has passed holds
  nothing that is loaded but the plugin it is unloading (`Passed`). A plugin that refuses stays loaded in the passed part, which is finding 3.
* **`PluginFiles`.** `PluginFilesSound` adds to the property what it rests on between two steps: the lists hold no plugin twice and agree with what probing says
  of each (`SoundLists`); what was found and can be loaded is `Represented` by one of its name; a loader waits in the queue or is loaded (`LoadersWait`), and
  after the queue it is loaded (`LoadersDone`). The loops over the search path, the queue and the saved plugins are folds, each with an invariant of its own by
  induction on the turns (`Searched`, `QueueSoFar`, `SavedSoFar`): nothing that can be loaded gets lost (`Follows`), what has been read is represented, and what
  has been tried is loaded or cannot be. The queue is done after `Turns`, since each turn takes one and only the one loader adds what the paths hold.
* **`QmonMonitor`.** `QInv`: past circumstances leave traces; without overlapping polls thread and handler take turns (`OneAtATime`); then
  the body is what one transfer has received (`BodyOfOne`), and what is ready was not reported before (`Told`). Each conjunct holds only under its
  circumstances, and each fault is shown to need its own.
* **`Preferences`.** `Kept` says for each phase of the program what its next save, or its end, relies on: which names the list of plugins must hold
  while running (`Running`), between the two stages of quitting (`Quitting`), and at the start of the next session (`InFile`).
* **`PrefTree`.** `PrefsInv` says of a change under way that whoever has not been told its present value is `Later` in some walk: behind the callback
  the walk is at, in its list or in the list of a preference above. No callback is connected twice (`IdsOnce`), so a place in a list is known by its
  callback. Connecting, disconnecting and adding keep that order (`KeepsOrder`, one lemma for what grows and one for what shrinks), the walk that calls a callback goes on to the
  next one above (`GoesOn`), and a walk that starts owes everybody above the preference (`FirstFromIs`). Reading a file is recursive over its text, so
  the sessions of `SessionsSpec` start from *any* tree that is sound (`MayBeRead`), and `EverybodyIsTold` shows that those of the program are
  among them where reading gives such a tree.
* **`Notices`.** `PopupsInv`: the timers pending are exactly those the popups know of (`Timed`), a popup in use is in the list once
  (`Listed`) and stands where the sum of the extents before it ends (`Placed`). `Span` is a fold; that it is a sum of natural numbers, and does
  not change with what is behind, is proved by induction over the list. `WindowsInv`: a window that is on the screen has an entry.
* **`Reports`.** `ReportsInv`: details that wait are those of the last report (`DetailsWait`), and once they are shown the window has a row for each SR that was found
  (`WindowHasRows`). That the SRs found are the rows asked for, in the order of the page, is induction over the list a filter goes through (`Picks`, `FilteredIs`).
* **`PublicAddress`.** The handlers of `upnp.c` and `network.c` call each other before they return, so the lemmas are about operators from states to sets of
  states: a discovery that is `Alive` goes on by exactly one of timer, late timer and fetch (`Goes`); whoever waits for a discovery waits for one that is
  alive (`Sound`); while the waiting are being told only the first half holds (`Under`). `Fine` says the same of STUN, `Linked` that it waits for a port exactly while one is being mapped.
* **`Signals`.** `Walk`: what an emission has called is in order and before the node it saved, and what was there at the start and was not called is not
  before it. Any number of emissions are under way, each on a list of its own. One lemma (`WalkStays`) serves connecting and every way of
  disconnecting: a list that only loses handlers, keeps their order and gains new ones behind their equals keeps a walk that keeps its node.
* **`Ciphers`.** `Orderly`: the count of a cipher is the number of its contexts; names are unique. `Owned`: the contexts in memory are those held and their hashes, each hash
  with one owner. A computation composes making, using and destroying; that it gives back the very registry it started from (`UsedIs`, `UsedTwiceIs`) makes the
  action property hold on every way out.
* **`Digests`.** `DigestsInv`: a context that is ready has been `Given` exactly the bytes since it was made ready, behind the inner key of HMAC: the chain is the
  whole blocks of them, the buffer `Holds` what is left, and the counters are the length modulo the word. Appending keeps it whether the piece fits the buffer
  (`LessIs`) or fills it (`FillIs`), and the carry into the second word is right (`CarryIs`); SHA-1 goes on byte by byte. Padding gives the padded
  message the reference cuts (`Pads`), so a digest of what was given is the reference (`Digested`). For each of the three hashes this is one lemma for appending and one for the digest.
* **`Encryption`.** Decrypting undoes a block (`BlockBack`) and the combining with the block before (`XorBack`); a chain is decrypted from the blocks as they were written
  (`CbcIs`), which cutting what was joined gives back (`JoinedIs`). The bytes of a stream in two calls are those of one (`TakenTwice`).
* **`Ntlm`.** Fields stand one behind the other by induction over them (`FilledInExists`, `FieldsStandWhere`), which is where the header announces them.
* **`SavedStatuses`.** `Filed` says of a *set* of statuses and the table that they belong together: an address and a time for each, titles that differ. The
  operations either change the order only, which the set does not see (`SortedIs`, `InsertIs`), or add, remove or replace one element (`FiledMore`,
  `FiledLess`, `FiledOther`). That a free address, time or title is found is a matter of counting (`FreshIs`, `UniqueTimeIs`, `UniqueTitleIs`): the table
  has no more entries than there are statuses, so the first free number comes within the range searched. Sorting ranks the elements of a strict order (`RanksAre`);
  loading is induction over the file (`LoadIs`).
* **`Themes`.** `ThemesSound` adds that no list has a file twice, the saved names included, and that a row that says "not loaded" is right. A list is
  known by what `LoadedAs` says of each file, so a file that is read anew and moves to the end changes nothing about the others (`ProbeIs`). The loops over the
  directories and over the saved names have an invariant for each turn (`Probing`, `Loading`), the second of which also has the order.
* **`PopupDrawing`.** Each step draws one thing, so the work is in the functions. The width of a text is a sum (`WidthOfJoined`), so what is shorter at either end is
  not wider. After i turns the loop that shortens holds what `Kept` says of i characters less (`OneLessIsKept`, `HalvesOfKept`), the empty text at last, so it
  stops at the first that has room, or never when nothing has (`ShortenedIsKept`). The text of a format without a token that is not offered is made by the same states but two (`TokenLeavesNothing`).
* **`TrayIcon`.** Inductive as it stands.

Induction over the length of a list is needed in `PluginFiles`, `Themes`, `Notices`, `Reports`, `Signals`, `Ciphers`, `Digests`, `Encryption`, `Ntlm`, `SavedStatuses` and `PopupDrawing`, and over the length of a path in `PrefTree`. The induction theorems of the library take an operator, which none of the provers
at hand can instantiate; `Induct` states induction for a *set* of numbers instead (if a set holds 0 and with i also i + 1, it holds every number),
proved from the least-element principle, and the set is defined by the property at hand. That a function defined by recursion exists is
proved in the same way (`PartialsExist`, `RegisteredExists`, `ReadExists`, `TurnsExist`, `LoopExists`, `FilteredIs`, `AfterEachExists`, `TakenExists`, `FilledInExists`).

### 5.2 What stays with the model checker

* Liveness under fairness (`EveryAttemptEnds`, `EveryFetchEnds`, `CallsReturn`, `EveryUpdateNoticed`, `SetIsSaved`, `PopupsGo`, `EveryLookupEnds`), which is
  out of the proof system's reach.
* What is recursive over data: `FilesReadBack`, `TreesSurvive`, `TextSurvives` and `FormatsSurvive`
  compare two computations over trees, text or files, built with folds or recursive operators.
* `PluginsAreConsistent` and `NextStillLinked` where some plugin refuses to unload. Both hold in `plugins`, where plugins refuse or fail to load but not both;
  the proofs' order of loading is lost with the first refusal.

## 6. What is not modelled

* Text that only passes through: URLs, headers of HTTP, the wording of messages. Lengths matter where buffers are filled,
  tags and entities where they are converted.
* The rounds of the ciphers on words, and random numbers: functions of bytes without control.
* Widgets without a state of their own: preference pages, the menu, tooltips, the editor of themes, which no window opens; scaling and
  colours of popups; smileys and images in the HTML widget, which nobody registers.
* Buffers and images (`circbuffer.c`, `imgstore.c`): one owner, or no caller.
* Sound and email, which start something and keep no state but a time; time and encodings in `util.c`.
* What an HTTP proxy sends behind the header of its refusal: `proxy.c:681` reads it byte by byte, counting a read that would block as a byte, so that
  the rest stands before the next answer, and a length below what was read already makes some 2^32 turns of the loop. The
  attempt then still ends in a refusal or a grant.
* The undefined behaviour that follows a memory error; memory that `g_realloc` does not get (`http.c:264`), which ends the program; a termination signal that interrupts a list
  operation.
* The kind of NAT, what NAT-PMP remembers (its functions are stubs where the program is built on Linux), and cancelling a listener, which
  nobody does.
* The scores and presences of `status.c`, which are stubs, and values and C calls by type in `signals.c`.

`PROJECT.json` lists every part with its status, and under "hazards" the places that are hard to test, with
the properties that watch over them.

## 7. Plan

Done, in this order, most important first: attempts and their promise, with proofs; fetches on top of the
promise; plugins; the monitor; preferences and the life of the program; popups and windows; the router and the public address;
then the parts of the library and the interface: signals, saved statuses, ciphers, XML, text, themes, the HTML widget, the tray icon, files of
plugins, the tree of preferences, reports.

Then proofs: the safety properties of the seven modules with a run of their own, the two refinements between modules, and of the parts of the
library those whose state is small: signals, the tray icon, the registry of ciphers, the saved statuses, the tree of preferences, the files of plugins, the loaded themes, the drawing of popups, the reports;
at last the functions of the ciphers and NTLM.

Nothing of this plan is left. `XmlTree`, `Markup`, `HtmlFormats` and the contents of files are recursive over data, and stay with TLC.

## 8. Running the checks

    tlc -workers 2 -config proxy_http.cfg MCProxyConnect
    for m in *_proofs.tla; do tlapm $m; done

A configuration is named after its run, "runs" in `PROJECT.json` says which module it belongs to. Every run
ends within three minutes on two cores, and every proof module within eight.
