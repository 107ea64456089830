# Verification of the passive network monitor

TLA+ models of the program in `src/` of the repository (a passive network monitor: it captures packets, keeps a register of
the devices it sees, stores events and raises alerts), their model checking with TLC and proofs checked by TLAPS.
Paths below are relative to the repository root; C++ files are under `src/`.

## 1. The system

| Part | State | Operations | Talks to |
|---|---|---|---|
| Configuration (`config/config.cpp`) | environment, `.env` | `load_dotenv`, `from_env` | read once by `main` |
| Capture loop (`main.cpp`, `capture/pcap_reader.cpp`) | mode, `g_reader`, `current_pcap`, per-file counters | live capture; passes over the stable file; uploads in between | calls the tracker for every packet; shares `PcapQueueManager` with the REST workers under one mutex |
| Parsers (`parsers/`, `util/binary_reader.cpp`) | none | bytes to ARP, DHCP, mDNS, SSDP, DNS records | called by the packet callback |
| Asset tracker (`tracker/`) | `cache_`, `ip_to_mac_`, `pending_events_`, `last_db_update_`, `event_debounce_` | `process_arp/dhcp/mdns/ssdp/dns`, `flush_events`, `expire_assets` (never called) | database calls that may throw; `on_event_` callback to the detection engine |
| Enrichment (`enrichment/`) | OUI table, signatures | lookups | called by `refresh_enrichment` |
| Detection engine (`detection/`) | the rules; `RuleArpSpoofing::window_`; the watchlist copy of `RuleWatchlist` | `on_event` | inserts alerts |
| Database (`db/db_manager.cpp`) | tables assets, events, alerts, watchlist; one connection per `DbManager`, never reopened | one transaction per call | PostgreSQL through libpqxx |
| REST server (`api/rest_server.cpp`) | its own connection, `running_`, `thread_` | queries, acknowledging, watchlist edits, upload, status | worker threads; the upload queue |
| Start and shutdown (`main.cpp`, `RestServer::start/stop`) | `g_running`, `g_reader`, `g_api_server` | signal handler | breaks the capture, stops and joins the server |
| Dashboard (`web/app.js`) | current page and filter of each list, badge, `lastKnownAlertCount` | load, page, acknowledge, poll | the REST API |
| HTTP library (`api/httplib.h`, vendored), scripts, sample captures | | | |

What is hard here, and hard to test:

* every database call inside a packet handler may throw, its commit may be in doubt, and the process may die between
  two calls, while cache and table must keep telling the same story;
* `cache_[mac]` in the name-service handlers creates entries without a row;
* events are buffered, written in batches of up to 500 of which one bad event loses all, and flushed after a pass only;
* rules run on the capture thread in the middle of a handler, on events that are not stored yet;
* the ARP rule refreshes entries in place and prunes from the front, and a debounce of its own stands before it;
* the watchlist rule works on a copy while the table is edited;
* `last_seen` is written at most every ten seconds, and expiry judges by it;
* REST workers share one database connection without a lock, and race with the capture loop on the upload queue and on the
  files behind it;
* lists are paged with `LIMIT`/`OFFSET` over tables that change between two queries, and the numbers overflow;
* lengths in four nested headers, in DNS names and records and in DHCP options come from the network and need not agree;
* signals arrive at any time, and the handler stops and joins threads;
* the dashboard's answers arrive in any order.

`PROJECT.json` lists the hazards at their lines and the properties aimed at each.

What makes each part correct:

* tracker: a device is recorded once, announced at most once in its life and only when recorded; nothing is stored
  about a device that was not announced; cached and stored address agree; every first contact is announced and its
  event stored in the end; an event without a row takes a handler that was cut short;
* presence: the row lags behind the packets by the throttle at most; going and returning are announced in turn;
* ARP rule: the alert is raised exactly when enough devices claimed the address within the window; what is announced
  reaches the rule;
* watchlist rule: a row that has been in the table for the time to live matches, one that left it long ago does not;
* enrichment: cached and stored vendor and guess agree; a signature is recognised for its own system;
* capture loop: every accepted upload is processed once, whole, in order, before further stable passes, and its events
  are flushed before the next file; the status tells what is going on;
* REST API: no transaction outlives its handler, a lone request is answered on its own merits, what is confirmed is stored;
  the pages of a list leave no gap;
* parsers: no byte outside the window is read, and what is read is what the format says;
* shutdown: a signal ends the process, drained, flushed and in order;
* configuration: the environment comes before the file and the file before the default;
* dashboard: the page shows what was asked for once requests stop overlapping, the badge counts the open alerts in the end.

## 2. Modules

| Module | Models | Code |
|---|---|---|
| `AssetRegistry` | abstract: register, announce, store, alert | what `AssetTracker` promises |
| `AssetTracker` | tracker, the database calls it makes, event buffer, new-device rule, start, stop, crash | `tracker/asset_tracker.cpp`, `db/db_manager.cpp`, `detection/detection_engine.cpp` |
| `AssetPresence` | `last_seen`, throttle, `is_active`, expiry, going and returning | `tracker/asset_tracker.cpp`, `db/db_manager.cpp` |
| `Enrichment` | vendor lookup, OS votes, cache against row | `enrichment/`, `AssetTracker::refresh_enrichment` |
| `RuleArpSpoofing` | sliding window of one address | `detection/rule_arp_spoofing.cpp` |
| `ArpClaims` | extends `RuleArpSpoofing` with the tracker before it: which frames become claims | `tracker/asset_tracker.cpp` |
| `RuleWatchlist` | the rule, its copy, the edits of the table | `detection/rule_watchlist.cpp`, `api/rest_server.cpp` |
| `UploadQueue` | abstract: accept, begin, finish, in order and once | what the upload endpoint promises |
| `CaptureLoop` | main's loop, REST upload workers, status endpoint | `main.cpp`, `api/rest_server.cpp`, `api/rest_server.hpp`, `capture/pcap_reader.cpp` |
| `Shutdown` | signal handler, start and stop of server and capture, workers, destruction | `main.cpp`, `api/rest_server.cpp`, `api/httplib.h` |
| `RestConnection` | handlers on one shared connection | `api/rest_server.cpp`, `db/db_manager.cpp` |
| `ListPages`, `PageNumbers` | a client paging through a changing list; the arithmetic of pages in `int` | `db/db_manager.cpp`, `api/rest_server.cpp`, `web/app.js` |
| `PacketPath` | windows from the frame to the call of the tracker | `main.cpp`, `parsers/ethernet_parser.cpp`, `ipv4_parser.cpp`, `udp_parser.cpp`, `arp_parser.cpp` |
| `DnsName`, `DnsRecords` | compressed names; questions and answers | `parsers/dns_message.cpp` |
| `MdnsSummary` | what the answers of an mDNS message say of a device | `parsers/mdns_parser.cpp` |
| `DhcpOptions`, `SsdpHeaders` | option walk; lines and headers | `parsers/dhcp_parser.cpp`, `ssdp_parser.cpp`, `util/binary_reader.cpp` |
| `Configuration` | `.env`, environment, defaults, choice of the source | `config/config.cpp`, `main.cpp` |
| `AlertsPage` | alerts page, badge and poller of the dashboard | `web/app.js` |
| `Process`, `KnownDevices`, `Rules`, `Rest`, `Parsers` | put the modules of one area side by side, see below | |
| `MCAssetTracker`, `MCCaptureLoop`, `MCRuleArpSpoofing`, `MCProcess`, `MCKnownDevices`, `MCRules`, `MCRest`, `MCParsers` | the constants of TLC's instances | |
| `MCAlertsPage` | `AlertsPage` under the bounds that four questions need, one a behaviour | |
| `..._proofs` | proofs about the module of that name and those it puts together, constants arbitrary | |

Composition: `AssetTracker` implements `AssetRegistry` and `CaptureLoop` implements `UploadQueue` (refinement, checked and
proved); `ArpClaims` extends `RuleArpSpoofing` and uses its variables and actions; `DnsRecords` rests on the contract that
`DnsName` is shown to keep (a name ends behind its start and inside the message); `AlertsPage` takes a page as one answer,
which `ListPages` takes apart. The aspects of the tracker (records, presence, claims, enrichment) are modules of their own,
each with the fields it needs, because they share no guard: a handler passes through all of them whatever the others decide.

Five modules put modules side by side that model one area and share no state: `Process` holds `Shutdown` and `Configuration`;
`KnownDevices` holds `AssetPresence` (with a working and with a failing database) and `Enrichment`; `Rules` holds
`ArpClaims` and `RuleWatchlist`; `Rest` holds `RestConnection`, `ListPages` and `PageNumbers`; `Parsers` holds `PacketPath`,
`DnsName`, `DnsRecords`, `MdnsSummary`, `DhcpOptions` and `SsdpHeaders`. The variable `part` says which of them a behaviour
follows; the variables of the others stand still. Nothing is lost by that: where the modules share no variable, every product
of their behaviours satisfies the same properties, and it is far larger. Each extends the first module of its area, and where
the theorems are about that module's own specification, `ProcessIsShutdown` and `RestIsConnection` carry them over.

### AssetTracker

The capture thread is alone in the tracker, so handlers do not interleave with each other. They are cut where something
can happen: **one action per database call**. `pc` names the next call of the running handler, `pkt` and `isNew` are its
locals. A call either works or throws; a throw ends the handler (`Return`), because each `process_` function catches
everything. What a handler changed before the throw stays, which is the point of the model.

| Action | Code |
|---|---|
| `ProcessArp`, `ProcessDhcp` (`BeginUpsert`) | entry of the handler, `is_new`, `ip_to_mac_[ip] = mac` in `upsert_asset` |
| `FindByMac`, `InsertAsset`, `Publish` | the path of `upsert_asset` for a device that is not cached |
| `Touch`, `AddVia` | the path for a cached one |
| `Enrich`, `Announce`, `RunRules` | `refresh_enrichment`, `log_event("new_asset")`, `DetectionEngine::on_event` |
| `ChangeIp`, `LogIp`, `LogLast` | `update_asset_ip`, `ip_change` or `dhcp_ack`, the last event of a handler |
| `ProcessMdns/Ssdp/Dns` (`Resolve`), `FindByIp`, `RefindByMac` | resolution of the source address, `cache_[mac]`, the second lookup |
| `Flush`, `WriteBatch` | `flush_events`, `insert_events_batch` with its swallowed exception |
| `Start`, `Stop`, `Crash` | constructor, return from `main`, death of the process |

Failures are a constant set: a *statement* error aborts one transaction; a lost *connection* makes every later call
throw, since nothing reconnects, and leaves the commit that was under way in doubt (it may have taken effect); a *crash*
forgets everything but the tables. The id of a row is represented by its mac, and id 0 by `NoMac`. An entry keeps the
fields the properties tell apart: id, address, protocols. `newCount`, `probed` and `failed` are history variables; `failed`
has the devices of which a handler was cut short, by a call that threw or by a crash, or about which a rule failed. Three
properties except just these devices: a failure about one device must not show in another.

Abstractions: `is_active`, `last_seen` and the ten-second throttle are gone, because `expire_assets` is never called and
every row stays active; a debounced event may be skipped at any time; the rows that share an address are read back in
any order after a restart (the code orders by `last_seen`).

### RuleArpSpoofing

An event touches only the window of its own address, so one window is the whole rule. `Evaluate` is one call of the
rule: prune, track, count. `Tick` is the steady clock. `lastClaim` is a history variable: what an unbounded memory would
know.

### CaptureLoop

Every access to the queue or to `current_pcap` is one critical section and one action; between them the capture thread and
the workers interleave freely. A worker stamps a path, creates (truncates) the file, writes it, pushes the path. main
takes a path or starts a stable pass, opens the reader (which may throw), runs it, flushes, clears `current_pcap`. The mode
is chosen once, in `Init`. The idle mode of the source sits in the branch for a non-empty `PCAP_FILE` and looks for an
empty one: it is unreachable and left out. `processed` and `overtaken` are history variables.

### Shutdown

`pc` is where `main` is; `frames` is the stack of handlers that interrupt it, each at a step of `signal_handler` and
`RestServer::stop`; main moves only when the stack is empty, which is what a signal on the main thread means. `Bind`,
`Listen`, `StopAccepting`, `EndListen` are the thread of the server, `AcceptConn`, `LockQueue`, `AnswerQueue`, `CloseConn` its
workers. `OpenFails` is a file or an interface that cannot be opened, `EndCapture` the end of `pcap_loop` by the flag, by the end
of the file, or by an interface that goes down. `SignalPoints`, `ReadyFirst` and `Nested` choose where signals are let in: `process`
has them while packets are read, after the server is up, one after the other; `shutdown_locked` has one while main holds the
mutex. Without a signal, a live capture that cannot be opened or goes down ends `main` while the server runs: the try block
destroys the queue first, and until `~RestServer` has drained the workers a request may use it. `QueueOutlivesRequests`
therefore speaks of ends by a signal. Left out: signals delivered to another thread or during static destruction.

### AssetPresence

Times are ages up to `Cap`. `Upsert` (ARP, DHCP) and `SeeName` (mDNS, SSDP, DNS) are the two ways to be seen; `Reactivate`,
`Refresh`, `ChangeIp` are the database calls that follow, `FindStale`, `SetInactive`, `InsertGone` those of `expire_assets`,
`Throw` a call that fails. `note` remembers the last of `asset_gone` and `asset_returned`.

### ArpClaims

`Frame` is an ARP frame for the one address: new device, changed address or debounced announcement decide whether the rule's
`Evaluate` is called. `Lease` changes the cached address without a claim. Restarts and failures are left out: they are in
`AssetTracker`.

### RuleWatchlist

`Evaluate` takes an event, `Reload`/`ReloadThrows` replace the copy, `Match` compares, `InsertAlert`/`InsertThrows` write;
`PostEntry` and `DeleteEntry` are REST edits between any two of them. `inAge` and `outAge` are history. Rows that are equal
count once.

### RestConnection

A handler is a number of calls, each `Test` (no transaction registered), `Register`, `Execute`, `Commit`. It may throw before
the first (`Reject`: an id beyond `int`, a body that is no JSON), because the database refuses its statement (`Refuse`: a
filter that is no SQL, a negative offset), or because the connection is lost or in use (`Fail`). `refused` remembers the first
two, which are the request's own fault; `alone` that no other request was there at the same time. `Test` and
`Register` are separate because libpqxx keeps the pointer in plain memory; two workers that pass the test together share one
session. What the library and PostgreSQL do is external and only as detailed as the callers can tell: a data race has here the
outcomes "refused" and "shared", none worse.

### ListPages and PageNumbers

`Open`, `Turn` are the client; `Count`, `Data` the two statements of a page; `Insert`, `Touch`, `Acknowledge` what happens in
between. `list` says which list is walked, since they change differently: events come several in a transaction (up to `Batch`),
assets are touched, alerts acknowledged. Rows of equal time come in any order that the sorting allows, another one in each
query. Ties are usual: the rows of a transaction have one time, and the query for alerts orders by its output column, a text
that ends at the second, so `Now` may be the time of the transaction before. A row is `Settled` if it stood still and no other
row has its time. `PageNumbers` computes with integers of the range `-Half..Half - 1` that wrap, for every page, page size and
total in it.

### The parsers

In `PacketPath` each action is one parser: it gets a window, checks its length, chooses the header fields from all values and
hands a window on. The fields of fragmentation are not looked at, as in the code. In `DnsName` the message is any sequence of
bytes and a step is one turn of the loop in `parse_dns_name`; the stack of calls is bounded by `StackLimit`, which stands for
the stack of the thread. `DnsRecords` chooses counts, lengths and name ends when they are read; a TXT string is bounded by the
message, not by its record, as in the code. `DhcpOptions` walks any bytes option by option. `SsdpHeaders` reads lines
of pieces. `MdnsSummary` reads the answers one by one and keeps the first offer of each kind; only the model hint is overwritten.
The properties compare what was read with a definition of the format that does not follow the loop.

### Enrichment

`Refresh` is `refresh_enrichment` for a packet with its signals; `Guess` is `OsFingerprint::guess` over the ballots. Weights
are in hundredths and the arithmetic of `float` is taken for exact; a confidence is a fraction of two naturals, compared by
cross-multiplication. `MCKnownDevices` has the real DHCP signatures. No handler passes a TTL, so none does here.

### Configuration

`ReadLine` is a line of `.env` (`setenv` without overwriting), `FromEnv` reads the variables, `Choose` is the decision of main:
live, a stable file, or no source.

### AlertsPage

Each request has a slot: `Handle` is the server, `Fail` an error, `Arrives` what the function does after its `await`, with the
filter and page number as they are then. `OpenPage`, `SetFilter`, `GoPage`, `Refresh`, `Acknowledge` are the user, `Poll` the
interval. The slots suffice whatever is clicked, which is part of what is proved. `crossed`, `disturbed`, `resolved`,
`refused`, `polled`, `alarm` are history. Requests overlap freely in the model; what the properties except is the time in which
they do: `crossed` is about the last list that was asked for only, and so is `polled.lapped` about the last poll. That an
empty first page means no alerts holds whatever overlaps (as far as count and rows are one answer, see `ListPages`). The
filter by severity, which is handled as the other one, and the other pages, which use the same list code, are left out. `MCAlertsPage` follows one of four parts, each a question with bounds of its own:
two clicks at a time, requests that fail, the badge, the toasts.

## 3. Runs

| Run | Instance | Shows |
|---|---|---|
| `tracker_faults` | one device, two addresses, flush at 2 events, every failure, restarts without limit | `TypeOK`, `SavedHasRow`, `IpCoherent`, `NoOrphanEvents`, `ViaStored`, and that `AssetTracker` implements `AssetRegistry` |
| `tracker_clean` | two devices, one address, flush at 2, no failures, fair | `FirstContactAnnounced`, `EventuallyStored` |
| `rule_arp` | three devices, window 2, threshold 2, clock up to 7 | `TypeOK`, `TrackedOnce`, `ClaimantsTracked`, `NoMissedAlert` |
| `capture_loop` | three uploads with names of their own in one millisecond, both modes, files that cannot be opened, fair | `StoredBetweenFiles`, `OvertakenOnce`, `UploadProcessed`, and that `CaptureLoop` implements `UploadQueue` |
| `process` | two workers, two requests a connection, two signals one after the other; two lines of `.env` over three keys and four values | `ExitsInOrder`, `StopIsComplete`, `SignalEnds`, `SourceAsConfigured` |
| `known_devices` | two devices with timeout 3 and throttle 1, restarts, any call failing; one device with all DHCP lists of the real table | `PresenceKept`, `ComesAndGoes`, `EnrichmentKept`, `FirstGuessStays` |
| `rules` | a watchlist of up to two rows over one device and one address, time to live 2, calls that throw; two devices on one address, window 2, debounce 1, clock up to 3 | `AlertIsRecent`, `SeasonedRowMatches`, `AnnouncersAlerted`, `TakeoverAlerted` |
| `rest` | two workers and one alert on a connection that may be lost or refuse a statement; each list with 4 to 6 rows in pages of 2, all ties, two changes, up to two rows a transaction; every page, size and total up to 9 in integers of six bits (`Half` is 32) | `ReleasedInTheEnd`, `AloneIsServed`, `EveryRequestAnswered`, `PagesAddUp` |
| `parsers` | header fields on both sides of every boundary; DNS names of up to 5 bytes, DHCP options of up to 6, SSDP text of up to 5 pieces, two mDNS answers, records with counts up to 65535 | `WindowsNested`, `CalledOnSubstance`, `PaddingStaysOut`, `InBounds`, `AsTheFormatSays`, `MessagesEnd` |
| `alerts` | two alerts in pages of one, two calls or two polls at a time, up to two lost requests | `PageTellsTruth`, `BadgeSettles` |

Why the instances are large enough:

* devices interact in the tracker through the address index, an address that two rows hold, the shared buffer and the
  connection. `tracker_clean` has two devices fighting over one address, `tracker_faults` one device that moves between two
  under every failure. A flush limit of 2 makes both the batch that fills up inside a handler and the flush between packets
  happen. Two devices with failures are too large to keep as a run; all invariants were checked once for two devices on one
  address with statement errors (flush at 2, 12.8 million states) and with all failures (flush at 1, 9.3 million), and the
  theorems cover any number;
* three devices against a threshold of 2 leave one behind a refreshed entry, and a clock of 7 spans three windows;
* three uploads are one running, one waiting and one being written. `OvertakenCap` bounds a counter of a history variable
  one above the value the property allows;
* two workers are the least that drain in different states, and the second signal finds the server stopped or stopping;
* a timeout of 3 with a throttle of 1 leaves room for a refresh that is spared just before the timeout; `Cap` keeps ages
  apart beyond the timeout. The watchlist needs one device, since a row matches by itself: the second row makes a copy that
  is not empty, the case in which the age of the copy counts;
* four rows in pages of two are two pages, and two changes push or pull a row over the border between them while a third page
  comes or goes. Beyond the run, five rows with room for seven, and three changes, were checked once for each list;
* six bits wrap in every way in which 32 do, as the code compares with zero and one only;
* the lengths in `MCParsers` are one below, at and one above each of the checks; the bytes of a message are one of each
  class the code tells apart (among the DHCP codes all that the parser knows), the start line of SSDP is each of the three the
  parser accepts and one that it does not, and the longest messages hold two of what can be repeated (two labels, two options, two
  headers) or a pointer behind a label;
* of requests of the dashboard two at a time suffice for an answer that overtakes another.

Two runs are expected to find a violation of what the repository says:

| Run | Statement | What happens |
|---|---|---|
| `tracker_probe` | the new-device alert fires exactly once (`detection/rule_new_device.hpp:7`, `docs/design.md:57`) | an ARP probe puts the device into the cache and returns; the next ARP packet finds it there, so `new_asset` never comes |
| `shutdown_locked` | the handler can stop the API (`main.cpp:36`) | the signal arrives while main holds the queue mutex; the handler joins the server, whose worker waits for that mutex: deadlock |

More disagreements between documents and code came up. The modules hold the properties that state them, commented with
the document's line; no run is kept for them, but each fails within seconds with the constants named here.

| Property | Instance | The code |
|---|---|---|
| `AssetTracker!RulesAfterWrite` | any | rules run when the event is buffered (`detection/detection_engine.hpp:26`: after it was written) |
| `AssetTracker!IpChangeNamed` | two addresses | a lease moves a device with `dhcp_ack` only (`README.md:140`: `ip_change` by ARP or DHCP) |
| `AssetPresence!SilentGoesInactive` | `ExpireRuns = FALSE`, as in the program | nothing calls `expire_assets` (`README.md:144`) |
| `AssetPresence!AllAlternate` | a device with names | name-service packets reactivate a row without `asset_returned` (`README.md:144`) |
| `AssetPresence!InactiveAnnounced` | `Faults = TRUE` | a row goes inactive, the insert of `asset_gone` throws and is never repeated |
| `Enrichment!SignatureRecognised` | the real table | the row for iOS 18 repeats one of macOS with the same weight and never decides (`enrichment/os_fingerprint.cpp:31`) |
| `Enrichment!VotesCount` | any two signals | one packet brings one signal, so the first guess is certain of itself and stays (`docs/design.md:51`: weighted voting) |
| `RuleArpSpoofing!AlertMeansWindow` | as `rule_arp` | a refreshed entry keeps its place, and stale ones behind it are counted (`detection/rule_arp_spoofing.hpp:12-14`) |
| `ArpClaims!ActiveClaimsAlerted` | as `rules` | devices that go on answering for a cached address make no claims (`docs/design.md:65`) |
| `ArpClaims!AllAnnouncersAlerted` | with leases | the debounce has no address in its key (`README.md:148`) |
| `ArpClaims!AnnouncersAlertedSoon` | `Window < Debounce` | a window below 60 seconds may never hold two announcements (`README.md:78`) |
| `RuleWatchlist!ImmediateAlert` | two rows | the copy is up to 30 seconds old (`README.md:147`: at once) |
| `RuleWatchlist!AnySpellingMatches` | two spellings | a mac in lower case never matches (`README.md:147`) |
| `CaptureLoop!OwnContents` | two uploads of one name in one millisecond | one path, one overwrites the other (`api/rest_server.cpp:404`) |
| `CaptureLoop!StatusTruthful` | one upload | while it is read and nothing waits the mode is `stable_loop` (`docs/runtime_flow_and_demo.md:190`) |
| `CaptureLoop!UploadProcessedInEveryMode` | live mode | an accepted upload is never read (`docs/runtime_flow_and_demo.md:138`) |
| `Shutdown!SignalStopsReader` | `SignalPoints` before the reader | live capture starts after the signal (`main.cpp:36`) |
| `Shutdown!SignalStopsApi` | `ReadyFirst = FALSE` | `Server::stop` ignores a server that does not run yet, and the join waits for ever |
| `Shutdown!StopsOpenSocket` | `Nested = TRUE` | a second signal stops the draining server again (`api/httplib.h:11462`, assertion) |
| `RestConnection!AckIsStored` | as `rest` | two transactions on one session: the rollback of one undoes the acknowledgement of the other (`README.md:162`) |
| `RestConnection!DisconnectedMeansLost` | as `rest` | another request in work makes `/health` say disconnected (`README.md:156`) |
| `RestConnection!HealthAlwaysAnswers` | `MayLose = TRUE` | with a lost connection `/health` throws before it pings (`README.md:156`) |
| `ListPages!NothingMissed` | as `rest` | rows of one time, pushed rows and moved rows are on no page of a walk (`README.md:157-161`) |
| `PageNumbers!RequestInPlace` | as `rest` | the offset and the number of pages overflow (`api/rest_server.cpp:114`) |
| `DnsName!JumpsLimited` | a pointer to itself | each call counts its own jumps, so the limit is never reached (`parsers/dns_message.cpp:14`) |
| `MdnsSummary!HostIsNoService` | as `parsers` | the answer to a query for all services gives the label of a service as the name of the device (`parsers/mdns_parser.cpp:36`) |
| `Configuration!ListedFileTaken` | `PCAP_FILE` not set | the directory is searched in a branch that is not reached then (`docs/runtime_flow_and_demo.md:46`) |

Fairness:

* `AssetTracker!FairSpec`: a handler that started goes on (weak fairness on `Continue`, straight-line code) and the flush is
  not put off for ever (strong fairness on `Flush`): in file mode every pass is finite and ends with `flush_events`. In live
  mode only a full buffer or the end of the capture flushes, so `EventuallyStored` speaks of file mode.
* `CaptureLoop!FairSpec`: main keeps running; nothing is assumed of clients.
* `Shutdown!Fairness`: each thread that can go on does; a file comes to its end, and so does a connection, whose requests and
  silence are bounded by the library. Signals and connections need not come. The mutex is given up because its holders are
  straight-line code, which is weak fairness of the steps after it.
* `RestSpec`: weak fairness of each worker's step; no request has to arrive.
* `ParsersSpec`: weak fairness of the parser, a sequential loop.
* `MCSpec` of `MCAlertsPage`: for the badge, weak fairness of the interval of the poller and of each request, which the server
  handles and whose answer, or failure, arrives.

Deadlock is checked except in `parsers`, where the behaviours of a parser end, and in `shutdown_locked`, where the deadlock is
the finding.

Every property of a passing run has a mutant in `PROJECT.json`: a definition of the code with a plausible defect, marked
"Defect" in the modules, under which that run reports the property violated.

## 4. Proofs

All proofs are for arbitrary constants, under the named assumptions of the modules, which keep sentinels apart from values
and numbers in their ranges.

`AssetTracker_proofs` (any sets of devices and addresses, any flush limit, any choice of failures):

* `InductiveInvariant`, with the corollaries `TypeCorrect`, `SavedHasRowCorrect`, `IpCoherentCorrect`. None of these is
  inductive alone: that a row exists for every saved entry depends on where the running handler is (between insert and
  publish); that no device is announced twice depends on what `isNew` means at each step and on every announced device
  staying in the cache until the process dies; that the table stores announced devices only depends on what waits in the
  buffer. `IndInv` is `TypeOK`, `HandlerOK` (packet, cache and table at each `pc`), `EntryIds`, `SavedHasRow`, `AnnouncedOK`
  and `IpCoherent`.
* `RegistryImplemented`: every step maps to a step of `AssetRegistry` or to none.
* `NoOrphanEventsCorrect`, `ViaStoredCorrect`, `FirstContactAnnouncedCorrect`, under every failure, each for the devices none
  of whose handlers was cut short. The strengthening is `UncutInv`, inductive beside `IndInv`: of such a device every entry
  has a row, with its id and its protocols; every row is cached while the process is up, unless it is being published; the
  index leads to rows; the handler in work has what its step needs; a recorded device that was not probed first is announced
  unless its handler is still on the way; and what is in the buffer may be there (`EventsBuffered`). What remains of
  asset 0: a lookup that fails leaves an entry without a row, and a later ARP packet takes it for known and logs events that
  no batch can store (`db/db_manager.cpp:49` requires a row). `NoOrphanEvents` says that it takes such a failure and is never
  the announcement of a device.

`Rules_proofs`, of the spoofing rule (any finite network, window and threshold): `TypeCorrect` (never more entries than
devices), `TrackedOnceCorrect`, `ClaimantsTrackedCorrect`, `NoAlertMissed`. The inductive invariant is types, `TrackedOnce`
and `ClaimantsTracked`: pruning drops stale entries only (`PruneFacts`), tracking keeps the others (`TrackFacts`). That the
loop of `prune` stops somewhere is the least-element principle, from the well-foundedness of inclusion on finite sets
(`LeastNat`). Of the tracker in front of the rule (`ArpClaims`, any debounce time, thresholds up to two):
`AnnouncersAlertedCorrect` and `TakeoverAlertedCorrect`. `ClaimsInv` adds that the last claim of a device is older than its
last announcement by the debounce time at most, unless a lease came between (`ClaimedSince`), and that the second of two
claims within the window raised the alert (`PairsAlerted`). `BothAnnouncersAlerted` and `TakersAlerted` take these results
over to `Rules`. Of the watchlist: `CopyIsSnapshotCorrect`, `AlertIsRecentCorrect`, `SeasonedRowMatchesCorrect`. The link is
`CopyIsFresh`: a row that the copy lacks has been in the table for no longer than the copy is old, and one it has too much
has left no earlier.

`Rest_proofs`: of the connection (any workers) `ReleasedInTheEndCorrect`, `AloneIsServedCorrect`. `SessionOK` says whose
calls hold the connection; `LoneOK` that a handler that was alone so far finds nothing of others on it. So a request that was
alone is answered with an error if and only if it is malformed or its own statement was refused. `PagesAddUpCorrect` is about
the walk and the numbers, for any page size, number of rows and range of `int`, with any ties. That the pages of a walk leave
no gap is not inductive: what the next page shows depends on the rows that come before it in the order, not on those that
were shown. `WalkInv` adds `ToCome`: a settled row that was not shown has at least as many newer rows before it as the pages so
far had places. New and touched rows come in front and push it back; an acknowledged one leaves from the page on the screen,
which is loaded again. Of a row that shares its time with another this is false (`ListPages!NothingMissed` above); of those
`Undisturbed` says that while nothing changes, all rows of a time are on the page that holds the whole time (`Belongs`).
`FirstRowsAre` turns the rows the database may give into ranks by `Cardinality`. Of the numbers, `RightIffFits` is exact: the
answer is the page that was asked for if and only if two numbers fit into `int`, so overflow is neither assumed away nor
hidden.

`Parsers_proofs`, of the path (any captured length and header fields): `WindowsNestedCorrect`, `PaddingStaysOutCorrect`,
`CalledOnSubstanceCorrect`; inductive together with `CallsOK`, one call a packet and only from the last window. Of the
messages (any length, content, counts in a header): `InBoundsCorrect`, that no parser of a message reads outside of its
window; for names the invariant (`Inside`) says of every call on the stack that it is in the message. `AsTheFormatSaysCorrect`
compares the loops with definitions of the whole message. For records and the mDNS summary an invariant over the answers read
so far is enough. Names and options are defined by recursion over their pieces, so the invariants (`NameRead`, `OptionsRead`)
speak of a walk: a function `f` from piece to piece, the same for the message however far the loop has come, of which the
loop has read the pieces up to some `k`. `Recursion` shows that such walks exist and are the recursive functions; `Induction`
states induction over the naturals with a set, both from `LeastNat`. Two arguments are not local. A pointer may lead anywhere,
but a walk that comes to a place twice never ends (`SameAgain`), so one that ends does so within as many steps as the message
has bytes (`EndsInTime`). The labels of a name are split over the calls on the stack; `Gathered` says that the
parts which the calls hold are consecutive. For headers (`HeadersRead`) a line begins wherever `read_line` comes to, and it is
the next one in the text.

`Process_proofs` (any number of workers, requests, connections and signals): `NothingLeftInBuffer`, whenever signals come;
`StopWaitsForWorkers` and `NoThreadLeftJoinable` for signals that come once the server has a thread to be joined
(`AfterStart`); `ComesDownInOrder`, for which the stop in `~RestServer` is not interrupted by another one, either
(`NotInDestructor`). The hypotheses are needed, as TLC shows with `SignalPoints` that hold the places they exclude: a signal
before the server runs finds none to stop, so `main` ends while requests may still use its queue; one between `running_ =
true` and the assignment of `thread_` finds nothing to join, so `stop` returns with workers at work, and the thread assigned
afterwards ends the process by `std::terminate`; and one inside the destructor after a capture that ended by itself comes
when the queue is gone already. The invariant (`StopInv`) says that whoever is past the join has joined, that no stop ends
and no member is destroyed before that, and that no worker outlives the thread of the server; `QueueInv` adds that the queue
goes after all of it. `CapturesAsConfigured` is about `Configuration`, for files of any length: what the environment holds
is explained by what was given and by the first line read for that key.

`KnownDevices_proofs` (any devices, timeout, throttle, tables): `PresenceKeptCorrect`, `ComesAndGoesCorrect`. Whatever
fails, a write is not noted without its row, and an inactive row is due to be written (`Due`); while the database works,
row, note and cache follow the packets, but for the device that the running handler or the expiry is at work on
(`Following`). `CacheInTableCorrect` and `FirstGuessStaysCorrect` from `EnrichedInv`: a packet brings one kind of signal, so
its guess has all the votes (`Certain`), and nothing exceeds that. `EnrichmentKeptCorrect` assumes of the table of signatures
that those of different systems lie apart (`SignaturesApart`); `MCKnownDevices` states that of the real table and TLC
evaluates it. With such a table every vote for another system is lighter than the one for the signature shown.

`CaptureLoop_proofs` (any number of uploads): `TypeCorrect` and `StoredBetweenFilesCorrect` from `IndInv`: what is queued or
taken was accepted, and the buffer holds events of the file in work only. `OvertakenOnceCorrect`, `ReadsWholeFileCorrect`
and `ImplementsUploadsCorrect` assume `DistinctNames`: two uploads of one name in one millisecond share a path, and then
they are false (`OwnContents` above). With names of their own no two uploads have one path (`OwnOK`), what one wrote stays,
and a queue of paths maps to a queue of contents.

`AlertsPage_proofs` (any page size, any number of alerts, clicks, polls and failures): `PageTellsTruthCorrect`. Each part
needs to know what is under way. `CallsOK` gives every request its shape, for the table as it is or was, and bounds the
requests by what was clicked, an acknowledgement counting for the two requests that follow it, so that there is a slot for
each. `AckOK` says that an acknowledgement that was answered is in the table unless the server refused it, `PollOK` that of
the alerts which a poll counted no more are open than it counted, so that a higher count means a new one. `ListOK` says that a
list asked for with none under way stays the only one, for the page as it is. That such a list is not empty while there are
alerts (`EmptyOK`) is about pages: while nothing is acknowledged a list only grows, so a page that a button of the bar leads to keeps
being there (`HasPageGrows`), and a page that is there has rows (`RowsOfPage`), because the rows of a list have each rank once
(`RankIsEach`). The first page needs none of that: `FirstOK` holds of every answer, however requests overlap. The hypotheses
are about the last list and the last poll only, and are needed, as TLC shows: while two lists overlap, the rows may be those
of one and the page number that of the other, and no document says otherwise.

Where a definition chose with `CASE` between guards that overlap, the prover could not tell which one is taken, and rightly
so: the language leaves it open, although TLC takes the first. Two were of that kind (`TtlVote`, and the service behind a
UDP port) and are chains of `IF`, as in the code.

Only model-checked:

* liveness (`EventuallyStored`, `UploadProcessed`, `SignalEnds`, `EveryRequestAnswered`, `MessagesEnd`, `BadgeSettles`):
  fairness and `ENABLED` are outside what the proof system supports. Every invariant and every action property of a passing
  run is proved.

## 5. Not modelled

* `api/httplib.h`: third-party and four fifths of all code. What the models need of it (start and stop, accepting, the pool that
  drains, connections that are kept alive) is in `Shutdown`, mapped to its lines; its parsing of HTTP is taken for correct.
* Queries, filters and JSON of the REST API beyond the paged lists, and the CRUD calls of `db/db_manager.cpp` that only build
  SQL: one statement each, without state of their own. What their order and failures do is in `RestConnection`.
* Reading the OUI table from its file, the connection string, log levels, the printing of addresses, wording.
* The other pages of the dashboard, which use the list code of the alerts page; charts and layout.
* Signals that another thread gets or that come during static destruction; failures before the API is started.
* `std::ofstream` failing in the middle of an upload, whose result the code does not look at; uploads that wait in memory when
  the process dies: the code promises nothing about either.
* IP fragments: the parsers do not look at them, and neither does `PacketPath`.
* Which of several devices owns a stored address after a restart: the order of the rows decides, and the tracker model lets
  any of them.
* Scripts and sample captures: no state of the system.
