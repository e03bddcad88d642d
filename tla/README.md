# A verification project for the ESP32 CYD head unit

The firmware under `src/` turns an ESP32-2432S028R ("CYD") into the head unit of a
telemetry system: a companion MCU sends measurements over UART, the board shows
them on its display, serves them over HTTP and logs them to an SD card.  It is a
set of FreeRTOS tasks on two cores that share C statics, some behind a mutex, many
behind nothing.  This directory holds TLA+ models of it, the TLC configurations
that check them and TLAPS proofs about them.

## Inventory

| part | state | operations | interacts with | what is hard | what makes it correct |
|---|---|---|---|---|---|
| `data_hub` | table of channels, each a ring of samples; `s_mutex` | `publish`, `get_latest`, `get_history`, `list_channels` | written by `uart_rx` (and `sim_data`), read by logger, UI, httpd | ring arithmetic in three places, table full, eviction under a slow reader | a ring is a sliding window of what was published; readers agree; names unique |
| `logger` | running flag, current path, backup path, bookmarks | task: flush, rotate; `start`, `stop`, `init` | reads `data_hub`, writes `sd_storage`; called from LVGL, httpd and the clear task without a lock | the whole of it: paths and bookmarks change under the task, writes fail in parts, power goes | no row lost, none twice, every file starts with its header, bookmarks behind what is on the card |
| `sd_storage` | mounted FAT card; `s_mutex` around each operation | `write`, `read`, `erase`, `rename`, `format`, `exists`, `file_size`, `list_dir`, `get_info` | logger, httpd, UI | partial failures, `rename` that removes first, path buffers of 64 bytes | what a result code promises |
| `uart_link` | line buffer; pending query, its buffer, semaphore | RX task: collect and dispatch lines; `query` | publishes to `data_hub`; called by whoever queries (today the boot handshake) | timeout against the reply being handled on the other core, overlong lines | buffer never overrun, reader in step with sender, a reply goes to the caller that waits |
| wall clock (`web_server`) | 64-bit offset, set flag, source | SNTP callback, manual set, readers | logger (conversion of times), UI, HTTP | 64-bit access in two halves, three variables updated one by one | a time read is one that was set |
| Wi-Fi bring-up (`web_server`) | mode, SSID, IP, event group | bring-up task, event handlers | provisioning, httpd | address arriving as the wait times out | one of station or setup AP, and the status says which |
| `wifi_provision` | credentials in NVS, portal | load, save, clear, form, DNS | bring-up, settings screen, reboot | power loss between keys, a form of which one `recv` returns a part | what was entered is what is used, or an error |
| HTTP handlers | none of their own | data, logs, download, log control | logger, sd_storage, data_hub | check-then-act against other tasks, download against rotation, reads that fail | as stated in the handlers' comments |
| screens, `screen_nav` | registry, back stack, one-shot timers, armed buttons | register, push, pop, activate, timer callbacks | everything above, polled | timers that outlive a screen, a task drawing on a screen left | back goes where it came from; two taps needed to destroy |
| measurement, graph | running statistics, chart points | sample, reset, re-bin | data_hub | numeric edges | agree with their definition |
| `main` | loop counter | boot order, status LED | all | the UI runs before everything else is up | see logger |
| `lcd`, `touch`, `rgb_led`, web pages | handles | set-up, transfers | - | hardware | not modelled: hardware I/O and presentation |

## Modules

| module | what it is |
|---|---|
| `Filters` | the loops that copy the wanted entries of an array |
| `DataHub` | the channel table; readers as operators; the properties of the table |
| `TelemetryWindow` | what the table promises, without rings: per channel the last samples in order |
| `SdStorage` | the card and its operations with their faults |
| `Logger` | extends `DataHub` and `SdStorage`: the logger task and everything that drives it |
| `Download` | extends `Logger`: an HTTP download in chunks beside it |
| `UartRx` | bytes to lines |
| `UartLink` | extends `DataHub` and `UartRx`: lines to replies or samples, and `uart_link_query` |
| `Screens` | back stack, active flags, refresh and disarm timers, two-tap buttons, clear and forget tasks |
| `WifiBringup` | bring-up task, event loop, portal form, credentials in flash, status readers |
| `WallClock` | the offset in halves, SNTP and manual set, readers, the timezone and NVS |
| `Conversions` | pure computations: date, URL decoding, chart sizes |
| `Readouts` | extends `Conversions`: statistics, chart, axis and settings of the two read-out screens |
| `Entries` | extends `Readouts`: what users enter by hand, as inputs of the conversions |
| `FiltersProofs` | lemmas about `Filters`, and induction over the naturals |
| `DataHubProofs`, `LoggerProofs` (with `Download`), `UartProofs` (both UART modules), `ScreensProofs`, `WifiProofs`, `WallClockProofs`, `ReadoutsProofs` (with `Entries`) | theorems |
| `MC*` | instances for TLC |

A definition named `X_Something` above a definition `X` is a mutant of it: `X` with
a bug one could plausibly make.  It is not part of the model; replacing `X` by it
must break the property named for it in `PROJECT.json`, which shows that the
property can be broken.

### DataHub

`s_mutex` is held over the whole of every function, so a call is one step.  A
sample is its timestamp: times are read under the mutex and increase, so a
timestamp identifies the sample and orders it.  Value and unit travel with it and
are not looked at.  `Publish` has the three outcomes of the code: known channel,
new channel, table full.  `GetHistory`, `GetLatest`, `ListChannels` keep the index
arithmetic of the C functions, each its own.  Channel names are those a publisher
uses; `handle_push` has cut them to 15 characters, so `copy_str` keeps them whole
(two channels whose names share 15 characters are one channel to the hub).

### SdStorage and Logger

An operation on the card is one step of the calling task, since `s_mutex` is held
from open to close.  `Write`, `Rename`, `Erase`, `Format` state what is on the card
afterwards for every result, fault by fault: an open that fails, a write cut short, an
`fclose` that loses what `fwrite` took, a rename that fails before or after it removed
its target, an `unlink` or a format that fails; `Download` has the reads that fail or
fall short.  Paths are a name, a number of ".1"
suffixes and a length: the buffers (`s_log_path` and `s_backup_path` 64,
`build_path` 64 with "/sdcard/") decide by length.  Sizes count rows.

`Logger` splits the C functions where another task can see or change something:

| action | code |
|---|---|
| `Wake`, `FlushKnown`, `FlushNew`, `AddState`, `WriteBatch` | one cycle of `logger_task`: the look at `s_running`, the bookmark lookup, the read-modify-write of `s_state_count` in `find_or_add_state`, the append with the bookmark after it |
| `RotateCheck`, `RotateRename`, `RotateHeader` | `rotate_if_needed` |
| `StartResume`, `StartSwitch`, `StartCopy`, `StartBackup`, `StartExists`, `StartHeader` | `logger_start`; `TornName` is what a reader finds while `strncpy` runs |
| `Stop`; `DeleteCheck`, `DeleteErase`; `ClearStop`, `ClearFormat` | `logger_stop`; a delete from the dashboard or log manager; the clear task |
| `LoggerInit`, `PowerLoss`, `ClockSet`, `HubStep` | boot, reset, the wall clock becoming known, samples |

The initial state is that of `app_main` after `data_hub_init`: the UI is up, the
logger is not.  The card is mounted (without a card `logger_init` is not reached and
every operation returns an error).  `stored` and `excused` are history variables.
Times of rows keep their order across a restart: the wall clock is taken to be
right whenever it is set.

### UartRx and UartLink

`UartRx` is the loop of `uart_rx_task`, a byte a step (`RxSpec`: `UartProofs` has both
specifications).  `UartLink` takes its actions as steps of the RX task (`Byte`,
`Arrive`) and splits `dispatch_line` and `uart_link_query` at every access to
`s_query_pending`, `s_reply_buf`, the buffer and the semaphore.  `xTaskCreate` pins
`uart_rx` to no core, so the RX task and the callers interleave freely.  To dispatch,
a line is its number and what dispatch does with it.  `raced` is history: a query gave
up while the RX task had already taken a line for its reply; it lasts until a query
begins after that line has been dealt with.

### Download

`download_handler` reads a file by name, one `sd_storage_read` per chunk, and only the
single read holds the card's mutex.  `DownloadBegins` is the test that the file
exists, `ReadChunk` one read, possibly short, and the chunk sent, `ReadEnd` the read that
finds nothing more, `ReadFails` the one that fails, `SendFails` a client that has gone.  `Elsewhere` is any step of `Logger`.
`had` and `replaced` are history: how long the file was, and whether it was renamed
emptied or removed since.

### Screens

LVGL runs clicks and timer callbacks on one task under its lock, so a callback is
one step, except where it waits for the card: there `ui` remembers the wait.

| action | code |
|---|---|
| `tile_clicked_cb` .. `graph_config_open_cb` (`OpenScreen`), `measurement_back_cb` .. `timezone_back_cb` (`Back`) | the callbacks of the buttons that lead elsewhere, each with the flags it clears |
| `screen_push`, `screen_pop`, `Activate`, `FlagsOn`, `TilesOn`, `ArmedOn` | `screen_nav.c`, and what a screen's create function sets and resets |
| `Refresh(s)` | the periodic timers of the screens, which live for ever and look at `s_*_screen_active` |
| `Arm`, `ConfirmDelete`, `ConfirmClear`, `ConfirmForget`, `Disarm` | first tap, second tap, one-shot timer of the three two-tap buttons |
| `UseName`, `RedrawFiles`, `EraseFile` | Use in the log manager; callbacks that wait for the card |
| `ClearStop` .. `ClearEnd` | the clear task: stop, format, look at the flag, then the LVGL lock twice |
| `ChannelAppears`, `Restart` | a new channel in the hub; the reboot at the end of a forget |

A third tap on Forget starts a second forget task in the code; here
`forgetting = "task"` stands for all of them, and "asked" for a confirmed Forget whose
task was not created (`CreateFails` names the tasks that may not be).
What a screen draws is abstracted to what a tap on it does: the rows with a Delete
button, the label of a button, the tiles whose widgets exist.  `deadUse` names who
used a widget of a deleted screen in the last step.

### WifiBringup

| action | code |
|---|---|
| `Load`, `WaitEnds`, `StopDriver`, `StartAp`, `StartPortal`, `PublishAp` | `wifi_bringup_task`, one step per call that another task can see; the three fields of the status one by one |
| `HandleIp`, `HandleMode`, `HandleBit`, `HandleHttpd` | `ip_event_handler` on the event-loop task, in its order |
| `Associate`, `LoseLink`, `Reconnect` | the driver (external) and `wifi_event_handler` |
| `SaveBegin`, `SaveSsid`, `SavePass` | `portal_save_handler`, NVS string by string, then `reboot_task` |
| `ForgetBegin`, `ForgetErase` | `forget_wifi_task`, erasure by erasure |
| `Restart` | the reboot they ask for, or a power cut, at any step; flash stays |
| `GetStatus` | `web_server_get_status`, field by field |

A form stands for an SSID and the password typed in with it, so that half of one
and half of another can be told apart.  Both HTTP servers want port 80: the second
does not start.  `StartFaults` lets the driver refuse the AP and either server fail for
want of memory (`setupFault`, history).

### WallClock

A time is the number of the set it was made by.  A set by SNTP and one by the
Set-time screen go through the same four steps in different orders (`Steps`):
libc's time, the two halves of the offset in any order, the flag, the source.
`ReadBegins` is the look at the flag, `ReadHalf` one half.  `ApplyTimezone` and
`StoreTimezone` are the index in RAM and in NVS, which may refuse; `Restart` reloads.

### Conversions, Readouts and Entries

`Readouts` has the measurement screen (`MeasurementTick`, `measurement_run`,
`measurement_reset`), the graph (`OpenGraph`, `graph_sample_timer_cb`, `Axis`, `Shifted`) and its settings
(`OpenConfig`, `Roll`, `Apply`, `Back`).  Values are integers in thousandths, the
chart's in hundredths, and the cast rounds towards zero as C does: values that
differ and round to the same are what the axis has to cope with.  `taken` and `plotted`
are history, against which statistics and chart are checked.  `Entries` feeds every
date of the rollers and every pair of short texts through the date arithmetic, the
browser's escaping (external), the one `httpd_req_recv` of `portal_save_handler`, which
may return any beginning of the body (`Arrivals`), the form's fields and `url_decode`.

## Runs

| run | question | result |
|---|---|---|
| `data_hub` | does the table hold up with more names than entries and rings wrapping twice? | yes |
| `logger_serial` | calls one by one, task asleep, names not used before, only reads fail: are the files right, and what is downloaded? | header first, rows in order, files complete, capped, nothing lost; a download is the file's beginning, all of it if no read fails |
| `logger_crash` | power loss anywhere, faults, names too long: what is still true? | rows in order; the current file lacks only rows that a named event took; nothing but an old backup is discarded |
| `logger_overlap` | calls by two tasks at any time: what is still true? | the bookmarks stay behind what was stored |
| `logger_resume` | start and stop by two tasks at any time, one file: is the file well formed, and do samples get to the card? | both; that rows stay there is not claimed: two overlapping starts can both find no file, and the second header truncates rows of the first (`NothingLost` fails, see below) |
| `uart_link` | byte streams, queries and timeouts, on two cores | lines stay in step with those sent; replies are new and owned but for the race of a timeout with its reply, which spoils no query begun after it; queries return |
| `screens` | every walk through eleven screens, with timers that outlive them and a clear beside | Back, flags, labels and timers stay together; nothing destroyed on one tap; a clear ends, also beside a Forget that got no task |
| `wifi_bringup` | restarts at any step, late addresses, NVS, AP and HTTP servers failing | status together, forgotten stays forgotten; unless the AP or its form could not be started, never stranded and connecting ends |
| `wall_clock` | SNTP and a manual set at once, readers in halves | a first date is whole, clocks agree between sets, a saved timezone is kept |
| `readouts` | ticks, resets, settings in any order; dates and forms | statistics, chart and axis are those of the visit, entries that arrive whole are used as meant |
| `screens_format` | is the UI alive while the card is formatted? | no: counterexample, see `findings` in `PROJECT.json` |
| `uart_lines` | is an overlong line dropped up to its end? | no: its tail is dispatched; counterexample, see `findings` |

The type invariants are not listed in the runs: they are proved, as part of the
inductive invariants.

### Bounds

| run | instance | why it is enough |
|---|---|---|
| `data_hub` | 3 names for 2 entries, rings of 3, `MaxTime` 8 | table full, rings wrap twice |
| `logger_serial` | 1 caller, 3 calls, cap 4 rows, ring 2, `MaxTime` 5, chunks of 2 rows, two usual names and one of 62 characters | a switch, a refused one, a rotation, a download across appends with short reads |
| `logger_crash` | 3 calls, 1 restart, 2 faults, `MaxTime` 4, four names at the length limits | a fault before and after the power loss |
| `logger_overlap` | 2 symmetric callers, 3 calls, ring 1, `MaxTime` 3 | every pairwise race; a start followed by two calls that overlap; the ring wraps twice |
| `logger_resume` | 2 callers, 4 calls, 2 faults, the default file only | stop and start twice around a failed append and a failed rename |
| `uart_link` | 2 callers, 2 queries, 6 bytes, buffer 3 | an overlong line and its tail, or one that goes altogether and the next line; a timed-out query, its late line and the next query |
| `uart_lines` | buffer 3, 6 bytes, 2 characters | the shortest counterexample has five bytes |
| `screens` | 2 files, 2 timers and 2 clear tasks at once, the code's registry and stack sizes | a timer left over and one known; a clear while another ends |
| `wifi_bringup` | 2 forms, 2 restarts, all faults | credentials mixed from two forms, cut off and started again |
| `wall_clock` | 3 sets, 3 timezones and an index out of range | two sets at once and one after |
| `readouts` | 2 channels, values -15, 3, 7, two ticks, two spans, chart buffer 2, 3 samples | signs, values that round together, a span shorter than a tick, one longer than the buffer |
| `readouts`, entries | all dates; texts of up to 4 characters for fields of 4, bodies of up to 6 | a name and a password that just fit or just do not, one more that the driver's field cuts, every cut of the body |

One channel name is enough in `Logger`, as the channels of a cycle are flushed one
after the other and each has its own bookmark; `data_hub` has three names.
`logger_overlap` is symmetric in the callers and uses it (no temporal property).  Where
nothing is left to do once the bounds are reached or when nobody calls (`data_hub`, the `Logger` runs, `uart_link`, `uart_lines`) deadlock is not
checked; in the others it is.

Where the passing runs restrict calls (`Overlap`, `Reuse`) or faults, the
restriction is needed; the next section says what happens without it.

### Fairness

- `SamplesReachCard`: weak fairness of the logger task (FreeRTOS runs it when its delay
  is over; it waits for nothing but `s_mutex` of the card, which every holder gives
  back) and of a call that has begun.
- `QueryReturns`: of the RX task and of a call that has begun, whose waits all have
  timeouts.
- `ClearEnds`: of callbacks that wait for the card and of the clear task's own
  steps; strong fairness where the clear task waits for the LVGL lock, which is a mutex
  with a queue that the LVGL task releases after each callback.
- `ConnectingEnds`: of the bring-up task, whose wait is bounded, and of the event loop.
  Nothing is assumed of the network.

Calls, taps, samples, lines, addresses, faults and power losses are never assumed to
happen.  Card faults are transient (bounded): with a card that always fails nothing
can be promised.

## Where the code differs from what one would expect

The listed findings are `uart_lines`, that the tail of an overlong line is dispatched as
a line (`uart_link.c:155`, against the comment at `:154`), and `screens_format`: the clear
task formats the card with its mutex held, and the log manager's refresh then waits for
the card on the LVGL task with the LVGL lock held (`log_manager_screen.c:205`), although
the comment at `:128-137` has the task exist so that redraw and touch do not stall.

TLC finds these too, when the constants of a run are changed as named and the property
is checked alone:

| change | property that fails | behaviour |
|---|---|---|
| `LoggerOverlap`, `Faults` with "close" | `BookmarkBacked` | `fclose` fails after a full `fwrite` (`sd_storage.c:161`): the write is reported as done and the rows are skipped, against the comment at `logger.c:80-83` |
| `LoggerSerial`, `Overlap = TRUE` | `HeaderFirst` | a clear in the middle of a cycle: the next append makes a headerless file (`logger.c:153`), which the comment at `log_manager_screen.c:158-162` means to prevent |
| `LoggerSerial`, `Reuse = TRUE` | `RowsInOrder` | a switch from A to B and back writes A's rows again (`logger.c:194`; `logger.h:29-32` calls it resuming) |
| `LoggerSerial`, `Overlap = TRUE` | `NothingLost` | a switch in the middle of a cycle truncates the new file under the task's rows (`logger.c:198`; `logger.h:56-58`) |
| `LoggerSerial`, `LogNames = {other}`, `Ops = {"start"}`, `MaxCalls = 1`, `Overlap = TRUE` | `HeaderFirst` | Start before `logger_init` (`logger.c:233`) leads to a headerless default file, though `:245` says `s_running` stays false |
| `LoggerResume`, `Faults = {}` | `NothingLost` | two starts at once both find no file; the second header truncates what was logged since the first (`logger.c:197-198`) |
| `LoggerSerial`, `Overlap = TRUE` | `SoftCap` | a switch between the flush and the check of the size leaves the old file beyond its cap (`logger.c:122`) |
| `Screens` | `ClearTaskDrawsOnItsScreen` | the clear task looks at the flag before it has the LVGL lock and can draw on a screen that is gone (`log_manager_screen.c:147-149`, against `:141-146`) |
| `Screens`, `CreateFails` with "clear" | `ClearEnds` | if `xTaskCreate` fails `s_clear_in_progress` stays set (`:184`) |

Seen while modelling, and why the properties say what they say:

- A query's timeout can fall between the RX task's look at `s_query_pending` and its use
  of `s_reply_buf` (`uart_link.c:110-114`, against `:178-179`): the line is then copied
  into the buffer of a call that has returned (of `uart_link_init`, an array on its stack), and
  the signal given for it can complete the next query with an untouched buffer.  Hence
  `raced` in `BufferOwned` and `ReplyFresh`, which say that nothing else and nothing later
  is damaged.
- A file is compared with the active one before it is deleted, and not again:
  `web_server.c:499` right before the erase, the log manager when it draws the button
  (`log_manager_screen.c:238`), which `log_manager_delete_cb` does not repeat at the second
  tap.  A start in between has its file deleted, whatever `web_server.c:486-489` says;
  there is no property about it.
- A start refused for its name (62 or 63 characters) leaves the path switched and the old
  bookmarks (`logger.c:183-188`); a rotation whose header fails keeps them, too.  Hence
  `excused` in `CurrentFileComplete`, which also has what `fclose` lost and what users removed.
- A name of 54 to 61 characters has a backup path that fits `s_backup_path` and not
  `build_path`: with 54 or 55 the file is written and never rotated, so the cap does not
  hold for it (`SoftCap` says so); a longer one is refused by the card.
- Whoever downloads a file cannot tell a read that failed from the end
  (`web_server.c:395-398`); hence `DownloadWhole` promises the whole file only of `ReadEnd`.
- One `httpd_req_recv` may return a part of the form (`wifi_provision.c:207`), and that part
  is saved and joined with: a cut name, a cut password, or an escape cut in two.  Hence
  `whole` in `UsedAsMeant`.
- If the HTTP server of the portal cannot be started (`wifi_provision.c:291-294`) or the driver
  refuses the AP, the status stays CONNECTING until a restart; hence `setupFault`.
- A Forget whose SSID erasure NVS refuses restarts the device, which joins the network
  again; `ForgetSticks` is about those whose erasure succeeded.
- If the task of a Forget cannot be created, the button says "Forgetting..." until its
  screen is left or it is tapped on (`web_server.c:679`).
- A disarm timer left over from an earlier visit shortens a later confirmation window
  (`wifi_settings_screen.c:33` speaks of 3 s) and touches deleted widgets; hence
  `OnlyLeftoversUseDeleted` and `ArmedWillDisarm`.
- A third tap on Forget starts a second forget task.
- A reader across a second set of the clock can combine halves, two sets at once can
  leave a torn offset for good (`web_server.c:41-43`); hence `disturbed`, `overlapped`.
- An SSID of 32 characters loses its last to the driver's field (`web_server.c:213`), so
  does a key of 64 (`:214`); a password longer than its field in escaped form is cut
  without a word (`wifi_provision.c:219`); hence the conditions of `UsedAsMeant`.
- An address that arrives after the wait: both tasks publish and both servers
  want port 80 (`web_server.c:225`); hence `raced`.
- A download across a rotation continues in another file (`web_server.c:394`); hence
  `replaced`.
- Chart values beyond `int32_t` are undefined in C (`graph_screen.c:119`); the models have
  small values.
- A reply later than its query's timeout is indistinguishable from the next query's:
  the protocol has no request numbers (`uart_link.c:110`).

## Proofs

Every theorem is for all values of the constants that satisfy the module's named
assumption (`HubAssumption`, `LoggerAssumption`, `LinkAssumption`, `RxAssumption`,
`ScreensAssumption`, `WifiAssumption`, `ClockAssumption`, `ReadoutsAssumption` with
`ConversionAssumption`); those that assume more say so.  Each is of the form: the
initial states satisfy an inductive invariant, each action keeps it, it implies the
property.  Every safety property of the runs is proved, except the violated ones of
`screens_format` and `uart_lines`.

What the invariants add to the properties:

- **`FiltersProofs`.** `KeepIs`: `Keep` copies every wanted entry, no other, in order;
  `KeepAppend`: an entry more is one turn of the loop more.  Both are inductions.  The
  library's induction theorems take the formula as a parameter, which the provers cannot
  instantiate, so induction is stated over sets (`Climb`: a set that has 0 and is closed
  under successor has every natural; from `Least`, which comes from the library's
  well-foundedness of `<`), and the formula is put into a set.  A recursive function is a
  `CHOOSE`: that some function obeys the recursion (`LoopExists`) is the first induction.
- **`DataHubProofs`.** `HubTableCorrect`: type and shape of the table are inductive only
  together (a lookup by name needs unique names, a ring not yet full needs
  `head = count`).  `HubImplementsWindow`: the table implements `TelemetryWindow`; the heart
  is `PushSlides`: what `Oldest` reads after a `Push` is what it read before with the new
  sample appended and, if the ring was full, the first dropped.  `HubHistoryOrdered` is
  order in the abstract window carried over; `HubLatestIsLast` and `HubReadersAgree` that
  the three readers that compute the newest cell differently agree.
- **`LoggerProofs`**; the assumptions of its theorems are in the table below.
  `LoggerTyped`: the type needs to say which paths can stand in `s_log_path` and in a call
  (`MainPaths`: no backup, and one that fits) and which step of `logger_start` each caller is at.
  - `BookmarksBacked`: `Backed` adds what a batch read from the ring and not yet written
    holds: what lies between the bookmark found and its last sample, so that moving the
    bookmark there skips nothing, even when `s_state_count` was reset meanwhile.
  - `LoggerKeepsRows`: `Ordered` says that one call is under way at a time and
    only while the task waits, that the backup path is that of the current file, that no
    header is written over a file, and that a delete still names another than the active one.
  - `FileComplete`: `Complete` states completeness of the file also in the middle of a flush,
    a rotation and a `logger_start`, where `Quiet` is false.  `excused` is what makes it hold
    with every fault and name: it says which rows each failure leaves behind.
  - `HeadersFirst`: `Headed` says that the current file is there whenever rows may be
    appended, unless its name is one the card refuses.
  - `RowsOrdered`: `Sorted` says that what the bookmarks leave to be written is later than
    what the file has (`Ahead`), and so is the batch; that after a restart the rings hold
    nothing that is on the card; and that a file a switch goes to does not exist.
  - `CapHolds`: `Capped` bounds a file in the middle of a flush by the cap and a ring for each
    channel already flushed, for the files that can have a backup (`Limited`); `CycleFits`, that
    a cycle comes to every channel once.
  - `DownloadsWhole`: `Following` says that what was sent is the file's beginning up to the
    offset reached; `FileGrows`, that a step of the logger which does not replace the file
    only appends to it.
- **`UartProofs`.** `RxBuffer`: the line buffer is never overrun; the type is inductive.
  `RxInStep`: `Held` says that `line` holds what `Kept` leaves of the bytes since the last line
  end; the lemmas on `Ends` and `Lines` say what a byte more does to the lines sent.
  `LinkInStep` carries it over to `UartLink`.  `LinkReplyFresh`, `LinkBufferOwned`: `LinkInv` adds
  who holds the query mutex and ties it to the RX task: unless `raced`, it takes a line for a
  reply only while the holder waits, and a signal in the semaphore stands for a line that
  came after the drain; and when a query begins with neither a pending flag nor a line
  being handled, nothing is left of a race.
- **`ScreensProofs`**, assuming `RegistryMax >= 11` and `StackMax >= 3` (the code has 16 and
  8). `ScreensNavPath`, `ScreensActiveIsShown`, `ScreensTimers`, `ScreensOffers`,
  `ScreensRefreshLive`, `ScreensTwoTaps`: `ScreensInv` adds that the menus are a tree of depth
  three and the stack is the way in it (so the stack never overflows), that the tiles
  of the shown table have widgets, and that whatever is armed was tapped.  That flags and
  shown screen agree is proved callback by callback.
- **`WifiProofs`.** `WifiApHasPortal`, `WifiStatusTogether`, `WifiNeverStranded`, `WifiFlash`:
  `WifiInv` adds where the bring-up task is when the AP, the form or the station may be
  up, that no address can come once the driver is stopped unless one was already
  queued (`raced`), and that each field a reader has got so far is still current.
- **`WallClockProofs`.** `ClockDatedByOneSet`, `ClockAgreement`, `TimezoneIsKept`: the invariant
  says how far the one set under way has come and what it has put in place, and that the
  flag is up only when the first set is stored.
- **`ReadoutsProofs`.** `ReadoutsChartInAxis`, `ReadoutsChartIsTail`, `ReadoutsAverage`:
  `ReadoutsInv` adds that what is shown or can be selected has a sample, and that the
  axis is that of the extremes seen, which enclose the chart; the two agree because
  rounding keeps the order.  `ReadoutsStats`: `Summarised` is the property without the screen;
  `TotalAppend` is the step of the sum.  `EntriesAsMeant`: the date by closed forms of the
  calendar's recursions (`YearStartIs`, `MonthStartIs`, `DaysAre`), the form by where each
  character stands in what the browser sends (`LaidOut`) and induction from the end of the
  text, which is how `url_decode` goes (`DecodeForm`); a cut body leaves either the whole name
  or no password.  `EntriesOnReadouts` carries the
  theorems about `Spec` over to `EntriesSpec`.

What the theorems about the logger assume, and why it is needed:

| theorem | assumes | without it |
|---|---|---|
| `BookmarksBacked` | `fclose` reports nothing wrong after a full write | the code takes the rows as stored (`sd_storage.c:161`) |
| `LoggerKeepsRows` | calls do not fall into a cycle of the task (`~Overlap`) | the races of the section above |
| `FileComplete` | the same; every fault, name and restart is allowed | the same: a switch in the middle of a cycle leaves bookmarks of one file for another |
| `HeadersFirst` | `~Overlap`, or one file and only start and stop; no failing create, no short write and no `fclose` that loses rows; no restart | a header cut short by a failed write or a power loss |
| `RowsOrdered` | no short write; no file used again, with calls between cycles, or one file | a retry repeats what a short write left; a file returned to gets its rows again |
| `FilesWellFormed` | what the two before it do | |
| `CapHolds` | `~Overlap`, no restart, finitely many channels | a switch between the flush and the check leaves the old file as it grew; a restart returns to a file without looking at its size |
| `DownloadsWhole` | nothing | |

`LoggerSerial` and `LoggerResume` have constants that satisfy all of these for the
properties they check, `LoggerCrash` those of `RowsOrdered`, `FileComplete` and
`LoggerKeepsRows` with faults and a power loss, and `LoggerOverlap` those of `BookmarksBacked`.

Only model-checked: the liveness properties `SamplesReachCard`, `QueryReturns`, `ClearEnds`
and `ConnectingEnds`.  Fairness and `ENABLED` are beyond the prover.

## Not modelled, and why

- `lcd`, `touch`, `rgb_led`: hardware set-up and transfers; the one computation, touch
  calibration, is a linear map with a clamp.
- Web pages, JSON, text of labels and rows, number formats, keyboards and layout:
  presentation that no property is about.
- The captive DNS answer and the portal's page handlers: they keep no state.
- `sd_storage`: mounting (no card, no logging) and `get_info`; `exists`, `file_size` and
  `get_info` read the card without the mutex, which matters to FATFS and not to these
  models, where each is one step.
- The status LED in `main`: its colour is a function of two flags read at that moment.
- `sim_data`: a build-time option; one more publisher to the hub, which any step of `DataHub` may be.
- Value and unit of samples in `data_hub` and `logger`: they travel with the
  timestamp under the hub's mutex.

## What could follow

1. The rotation chain as a refinement of an abstract append-only log with one backup, from
   `Complete` and `Sorted`.
2. `RowsOrdered` for files returned to, in the weaker form that holds: no row is repeated
   that a power loss or a switch did not repeat.
