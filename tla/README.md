# Verification of the rides coordinator bot

This project models the rides coordinator bot in TLA+: its backend
(`src/backend`), its web front end (`src/frontend`) and the demo of the portfolio
(`src/portfolio`). TLC checks the models on small instances, and TLAPS proves the
central invariants, and two refinements, for every value of the constants.

The backend is one Python process: a discord.py client and a FastAPI server on
one asyncio event loop, APScheduler jobs on the same loop, an SQLite database
through SQLAlchemy, and a result cache (in memory, or Redis). Nothing runs in
parallel, but every `await` lets another task in, and the process may stop at
any of them. Three parties act on it: Discord (messages, reactions, deletions),
coordinators at the dashboard (HTTP), and the clock (jobs).

The front end is a React application over React Query. It runs on one thread
too, but the requests it sends are answered late, out of order or not at all,
other coordinators change what it shows, and a handler that runs when an answer
comes knows the values of some render, not those on the screen. Nearly all its
state is a copy of the server's, and its hazards are copies that are stale.

Paths below are relative to `src/backend` in the parts about the backend, and to
`src/frontend/src` in those about the front end, unless they start with `docs/`.

## 1. Inventory

For each component: its state, its operations, whom it talks to, what is hard
about it, and what makes it correct.

| Component | State | Operations | Hard behaviours | Correct when |
|---|---|---|---|---|
| **Ask-rides jobs** `bot/jobs/ask_rides.py`, `ask_drivers.py` | messages in three Discord channels | `run_ask_rides_all`, `run_ask_rides_wed` (scheduled), `run_ask_rides_manual` ("Send now") | ten or more awaits between the settings they read and the messages they post; a run meets an edit, another run, a refused send, a restart | what is due is posted, once; nothing is posted that a pause, a flag, the season or the calendar forbids |
| **Job pauses** `repositories/message_schedule_repository.py` | a row per job: paused, resume date | `set_pause`, `clear_pause`, `is_job_paused` (which clears dated pauses itself) | a check that writes, called by every run on every day; two clocks (host date, Los Angeles date) | a pause ends when its coordinator said, not before |
| **Send schedule** `services/ask_rides_schedule_service.py`, `cogs/job_scheduler.py`, `core/scheduler_control.py` | a row per slot, the live trigger | `update_schedule`, `reset_schedule`, rebuild at start | row and trigger are set one after the other; a trigger moved within the week | the live trigger is the saved schedule |
| **Fellowship season** `services/fellowship_season_service.py` | a global setting and two flags | `set_season`, in three commits | jobs between the commits | the flags of the season agree with it |
| **Feature flags** `repositories/feature_flags_repository.py`, `utils/checks.py` | a table and a class-level cache of it | toggle, lookup, `initialize_cache` | cache written before the commit and rolled back by dropping; writers of old values | the cache says what the table says |
| **Message templates** `services/ask_rides_messages_service.py` | a row per customised kind | save, reset, render | the duplicate check reads the rendered text back from Discord | every template keeps what others look for in it |
| **Ride coverage** `cogs/ride_coverage.py`, `services/ride_coverage_service.py`, `repositories/ride_coverage_repository.py` | the `ride_coverage` table | listeners for post, edit, delete; startup sync; forced sync | all of them at once on the same rows, from different versions of the messages; lost events | the table holds the passengers of the grouping messages that exist |
| **Result cache** `utils/cache.py`, `cache_backends.py` | values by key, a lock per key | wrapped call, invalidate, warm | the value is stored after the lock is released; the lock is dropped while others wait | a value is not served after it was invalidated |
| **Event threads** `services/thread_service.py` | registered threads, their members | create, end, add and remove a reactor | reactions while the thread is being made or another reaction is counted | members of the thread are those who reacted |
| **Reactions** `cogs/reactions.py`, `services/ride_request_service.py` | channels of new riders, reaction log | reaction added, removed | check, then create; one event, many consumers | one channel per rider, every reaction logged |
| **Live updates** `core/*_broadcaster.py`, `api/routes/reaction_log_stream.py` | subscriber queues | subscribe, publish, disconnect | slow or vanished clients | each client sees the events since it subscribed |
| **Locations** `services/locations_service.py`, `csv_sync_service.py` | people and pickup places | reads, replace-all import | cached reads | the import is all or nothing |
| **Grouping and routing** `services/ride_grouping.py`, `pickup_locations_service.py`, `route_service.py` | the pickup graph | shortest travel times, pickup times, routes | pure | the times and orders are right |
| **Accounts and sessions** `services/auth_service.py`, `user_accounts_service.py`, `repositories/auth_sessions_repository.py` | accounts, invitations, sessions | login, provision, revoke, expiry | several commits per operation, concurrent logins | no session outlives its account |
| **Agent** `cogs/agent.py`, `agent/ridebot_agent.py` | message buffer and history per thread | debounce, reply | a reply running when the next starts | no turn is lost from the history |
| **Startup** `core/lifecycle.py`, `core/database.py`, `main.py` | – | seed, load, connect | what a restart resets | – |
| Non-Discord rides, roles, whois, migrations | – | – | none beyond one call at a time | – |

The front end and the demo:

| Component | State | Operations | Hard behaviours | Correct when |
|---|---|---|---|---|
| **Reaction lists** `hooks/useReactionStream.ts`, `pages/Home.tsx`, `pages/ReactionLog.tsx`, `components/DriverReactions.tsx`, `ReactionDetails.tsx`, `RideCoverage*.tsx` | one event stream shared by all callers, with a debounce; the cached lists | mount, unmount, event, error, choose a day, refresh, force a sync | a module-level connection against the life of components; an event that comes while a list is fetched | the connection follows the page; what was heard is shown |
| **Messages editor** `AskRidesDashboard/MessageTemplatesEditor.tsx` | the fields of each card, dirty, conflict; the query | edit, save, undo, reset; stream message, refetch | a refetch while someone types; two coordinators | typed text is not clobbered; the cards show what is stored |
| **Ask-rides dashboard** `AskRidesDashboard.tsx`, `StatusCard.tsx`, `PauseControls.tsx` | dialogs, the status and season queries | pause, resume, send now, switch the season | a status read before the change it should show; a second confirmation | the badge tells the pause; messages are sent once |
| **Settings panels** `SiteSettingsDialog.tsx`, `FeatureFlagsManager.tsx`, `SystemActions.tsx` | a draft, a mode, requests under way | open, edit, save, toggle, clear the caches | requests in any order | the last word is what is stored |
| **Locations page** `LocationManager/*`, `pages/Locations.tsx` | mode, dialogs, a first stop, forms, one query | create, update, deactivate, delete; travel times; settings | locations that are gone by the second click; mutations shared between forms | a dialog is about what it says |
| **People pages** `RoleManagement.tsx`, `UserManagement.tsx`, `NonDiscordRides.tsx`, `RoleSwitcher.tsx`, `AuthGuard.tsx`, `pages/Login.tsx` | the session; searches, confirmations, forms | log in and out, switch role; add, invite, remove | answers to requests of an earlier choice | lists and role are the stored ones; a confirmation is not lost |
| **Route builder** `RouteBuilder/*` | the selection, its copies in the storage and the address, the route, the line, the label preference, the full-screen map | select, reorder, generate, hydrate, toggle | debounce, answers out of order, other tabs, frames and transitions | route, line and labels are those of the selection |
| **Ride tools** `GroupRides.tsx`, `PickupLocations.tsx`, `MapLinks.tsx` | a form and the result of its last request | submit, edit, revert, look up directions | a form changed while it is answered | the result is that of the last request |
| **Editable messages** `EditableOutput.tsx` | text, cursor, list of names | type, choose, revert | a choice applied to a later text | a choice leaves a mention |
| **Demo site** `portfolio/src/lib/api.ts` and the panels that change its data; `DemoBanner.tsx` | an in-memory server, a toast | the same panels | random delays, ids given again, several events between two renders | panels agree with the store; the toast goes away |
| Learn page, theme, shared layout, `ui/*`, queries without handlers | – | – | none | – |

How they interact: the jobs *read* flags, season, pauses, schedule, templates
and the Google calendar, each in a transaction of its own, and *write* pauses
(the auto-clear) and Discord; the dashboard writes all those settings at any
moment. The grouping messages that coordinators post are turned into coverage
rows by the listeners, and the dashboard reads coverage against the reactions.
Flags, schedule, templates and reactor lists are read through the result cache.
The backend publishes every stored reaction and every template change on an
event stream; the front end takes an event as "ask again" and never as data.
Within the front end the panels share the query cache only: one that changes
something invalidates the queries of the others.

`PROJECT.json` lists every hazard found, at its line; the properties below are
aimed at them.

## 2. Modules

`AskRides`, `RideCoverage` and `Reactions` are the specifications of the backend,
one per subsystem; `LiveReactions`, `TemplateEditor`, `AskDashboard`,
`AdminPanels`, `LocationsPage`, `People`, `RouteBuilder`, `RouteMap`,
`RideTools`, `Mentions`, `DemoSite` and `DemoToast` those of the front end and the
demo. `LogView` and `Setting` are abstract specifications that `LiveReactions` and
`AdminPanels` implement. `AdminPages` and `RidePages` put the pages side by side
for `Router`, which holds the page that is shown, and `WebPages` both of them;
`Panel` has the operator they write controls with, and `Lists` the filter of a list
(as a recursive function, which the prover can reason about where it cannot expand
`SelectSeq`). The modules with `MC` before the name instantiate them for TLC. Those
with `Proofs` after it hold the theorems, and so does `AskRidesPromise`, which builds
on `AskRidesProofs`; `ListProofs` has the lemmas about lists of any length that
`RidePagesProofs` rests on.

### AskRides

Jobs, pauses, schedule, season, flags, templates and calendar, composed in one
module because every hazard is between two of them.

| Code | Model |
|---|---|
| `run_ask_rides_all`, `_wed`, `_manual` | a run: a list of stages `Plan(job)`, consumed by `Scan`, `HeaderGate`, `HeaderPost`, `Gate`, `CheckPause`, `Ping`, `PostPlain`, `PostSunday`, `Warm`, `PickFellowship` |
| the awaits inside one `run_ask_rides_*` | the value `at` of the run: `gate` (flag, send day and season), `pause`, `ping`, `post` |
| `is_job_paused`: a SELECT, and two awaits later an UPDATE of the row whatever it holds by then | `IsJobPaused` and `IsOver`, read in `CheckPause` and `HeaderGate`; the write is a step of its own, `ClearOver`, for the jobs in the run's field `clearing` |
| `_was_ask_rides_sent_early_this_week` | `SentEarly` over the messages posted, with a failing read in `Scan` |
| APScheduler, `max_instances = 1` | `armed`, `trigger`, `Fire`; a missed trigger is dropped by `NextDay` |
| `PUT` endpoints of the dashboard | `SetPause`, `ClearPause`, `ToggleFlag`, `SetSeason`/`SyncSeasonFlags`, `SetSchedule`, `SaveTemplate` |
| `discord.HTTPException`, `log_job`, process end | `SendFails` (caught at some stages, not at others), `Abort`, `Restart` |
| `date.today()` against `datetime.now(LA)` | `HostOffsets`: `Dockerfile` sets no time zone, `Dockerfile.preprod` and `deployment/docker-compose.yaml` do, so the host's date is Los Angeles' or the day after |

Days are integers from a Monday, so the weekday arithmetic of
`bot/utils/time_helpers.py` is modelled as it is computed. `wanted`, `raced`
(the jobs whose pause was last edited while a run was about to clear it), and the
fields `calm`, `touched` and `due` of a run are history variables: no guard
reads them. What a pause covers is the code's rule, that the event of the resume
date itself is announced; two documents say otherwise (see below).

Abstractions: `HeaderGate` and `Gate` are atomic over the several reads they
make, but not over the writes that may follow the header's; the history scan sees all messages of the week (the code reads the last
50) and every channel exists; a second `set_season` does not start while one is
under way; a flag lookup does not fail by itself (an error there is `Abort`); a
midnight inside a run is counted as a fault; the reactions put on a posted
message, the rendering of templates and the dates hard-coded in
`WILDCARD_DATES` (2025) are left out.

### RideCoverage

| Code | Model |
|---|---|
| `is_grouping_message`, `extract_passengers` | `Grouping`, `Passengers`; a text is its `drive:` marker and the users mentioned on each side of it |
| `on_message`, `on_message_edit`, `on_message_delete` | `Post`, `EditText`, `Delete` start a task whose transactions are `PostOps`, `EditOps` or a purge; `TaskStep` runs one |
| `add_coverage_entries` (batch, primary key) | `AddEntries`: all or nothing |
| `on_ready`, `_synced_on_startup` | `Ready` starts the startup sync once per process |
| `POST /api/check-pickups/sync` | `ForceSync`, beside the startup sync, before the bot is ready too |
| `sync_ride_coverage` | `Fetch` a page, `Scan` its messages, `FindOrphans`, `DeleteOrphan` one by one; `FetchFails` |
| discord.py's message cache, gateway sessions | `cached`, `link`, `Boot`, `Disconnect`, `Crash` |

`named` and `dirty` are history: whom any version of a message has named, and
which messages had an event lost, failed or overlapping. Abstractions: all
messages are since last Sunday; one forced sync at a time; `synced` stands for
"the client knows its channels"; messages written by bots are ignored by the
listeners and left out; `get_coverage_summary` only reads.

### Reactions

One message, which is both an announcement riders react to and the starter of a
thread; the thread's members, and the private channel each new rider may get.
Event threads and reactions are one module because both change the members, and
neither locks anything.

| Code | Model |
|---|---|
| a reaction event and the task discord.py starts for it | `React`, `Unreact` (by `Reacting`) put a record in `handlers` |
| `_new_rides_helper`, `handle_new_rider_reaction` | `NewRider` (is the location known, is there a channel), `CreateChannel` |
| `add_reactor_to_thread` | `CheckThread`, `GetMembers`, `AddUser` |
| `remove_reactor_from_thread` | `CheckThread`, `Refetch`, `CountReactions` (one emoji a step), `GetMembers`, `RemoveUser` |
| `/create-event-thread` | `Give("create")`, `CheckNew`, the bulk add, `Register` |
| `/add-reacts-to-thread` | `Give("bulk")`, the bulk add |
| `bulk_add_reactors_to_thread` | `FetchStarter`, `Gather` (one emoji a step), `SkipMembers`, `AddReactor` (one user a step), `AfterBulk` |
| `/end-event-thread` | `End` |
| exceptions | `GiveUp` ends a handler's thread part (caught and logged), `Break` ends a command; a refused member list is the empty list, in `GetMembers` and `SkipMembers` |
| the process | `Crash`, `Boot` |

`kept` (the reactions a user has had ever since a handler of his began),
`overlapped` and `dirty` are history. `dirty` holds the users about whose
membership nothing is promised: they reacted while the process was down, while
an earlier reaction of theirs was handled or while a command ran; or a call made
for them failed, or the thread was ended while they were being handled. A
command, when it is given, takes in whoever has reacted by then, so it makes
such users clean again.

Abstractions: the feature flags `event_threads` and `new_rides_msg` are on;
the thread, the category and the member are in discord.py's cache; users do not
join or leave the thread by themselves; the message a handler fetches first is
not used by these parts, so that fetch is merged with the first step; the client
hears of a new channel in the step that makes it; a channel being made when the
process stops is made (`CreateChannel` before `Crash`) or is not. The notice of
late reactions, the reaction log and the warming of caches, which the same
handlers start one after the other, touch nothing of this state.

### How the front end is modelled

- A component's state is one record, with a field per `useState`, `useRef`,
  mutation and query. A handler, the render it causes and the effects of that
  render are one action; every answer, failure, timer and frame is an action of
  its own.
- A user's action is enabled exactly when its control is rendered and not
  disabled. `...Controls` gives the set of such controls for a state; that is
  where the conditional rendering and the `disabled` attributes of the code are,
  and a dialog that covers the page takes the other controls away. `ConfirmDialog`
  has no disabled state, so its buttons stay.
- React Query is external code, and modelled as the components use it.
  `invalidateQueries` on a query that is on the screen cancels a running request
  and starts another, unless there is no data yet, when the running one is
  joined; on one that is not it marks it stale. Focus and mounting ask again
  (`staleTime` and the `refetchOn...` options where they are given). The
  `onSuccess` of `useMutation` runs always, with the closure of the latest render;
  that of a `mutate` call only for the latest call of a mounted component.
- A request is asked, read or applied by the server, and answered, in separate
  steps, and may fail before or after it was applied.

### LiveReactions, LogView

| Code | Model |
|---|---|
| the module-level `state` of `useReactionStream.ts` | `stream`: open, live, events got, the debounce (`timer`), subscribers |
| `ensureStream`, the cleanup, one commit of both | `Attach`, `Detach`, `Remount`, used by `Navigate` and `MeAnswers` (the subscriber of `Home` is mounted for managers) |
| `handleMessage`, `notifySubscribers`, `handleError` | `HandleMessage`, `NotifySubscribers`, `HandleError` |
| the query keys of the lists, by day | `cache`; `Ask`, `Invalidated`, `OnMount`, `Age`, `Focus`, `ServerReads`, `Receives`, `FetchFails` |
| day buttons, refresh buttons, filters, "Sync now" | `Choose`, `RefreshToDay`, `RefreshCoverage`, `ForceSync`, `SyncAnswers` |

A list's version is the number of events the server had stored when it read its
tables. `LogView` says what a list promises: it shows the log as it was at some
moment, and that moment never moves back. The lists filter the log; that is left
out, as is the paging of the log.

### TemplateEditor, AskDashboard, AdminPanels, Setting

`TemplateEditor` has one card, of any of the three kinds (message, schedule slot,
coordinator), each with its own controls, effect, undo and answers; the contents
are two values and a blank one. The page is left and opened again (`LeavePage`,
`ReturnToPage`), the cards vanish when the messages cannot be read and come back
(`MessagesFail`, `MessagesReturn`), and the stream is connecting, up or broken. A
message that comes while nothing observes the query only marks it stale, and a
mount that finds a fetch on its way joins it, although that fetch may have read the
card before the change: `missed` remembers so.
`AskDashboard` has the fellowship card with its
modal, the Send-now dialog and the season switch: the card has no key, so it
keeps its state when the season, and with it the job, changes. The pauses have
other writers, and all are there: other coordinators (`OthersPause`), the clearing
of a dated pause by a scheduled job (`JobClears`) or by the run this page started
(`SendClears`), and requests carried out whose answer is lost. The page is left and
opened again while its requests run: `left` is the pause asked by a card that is
gone, `earlier` counts the sends of earlier visits, and `doubt` is history: the
page was not told of a change, or did not ask then. `AdminPanels` has
the late-reaction windows, a flag and the cache button; requests on their way are
a set from which the server takes any. `Setting` says what such a panel promises:
one word at a time, stored or refused before the next.

### LocationsPage, People

`LocationsPage` has the map (modes, first stop, dialogs), the rows, the travel
times and the settings, over one query that any refetch may change. The
mutations are shared by the forms that call them (`busy`, with what their
success closes). `People` has four panels with a record each: `session`, `roles`,
`accounts`, `rides`. Role switches and ride requests on their way are sets
(`switches`, `asks`): each is applied or not, and belongs to the component that is
shown or to one that is gone. One that fails may have been carried out, and then
nothing is asked again; other admins change the role (`OthersChangeRole`), other
coordinators and the server's own expiry change the rides (`OthersChangeRides`).
`doubt` remembers, for the session and for each day, that the page was not told. Two of them meet: a change of the user's own role, by an
admin on the accounts panel, has the session asked again. Which read that joins
depends on whether the session has data, so a session whose refetch failed
("broken later") is told apart from one that never had any.

### RouteBuilder, RouteMap, RideTools, Mentions

`RouteBuilder` has the selection `rb.sel`, the storage and the address it is
mirrored to (`Hydrate`, `Select`), the debounce and the requests for routes.
`RouteMap` has the line on the map (an effect with an `isMounted` flag), the
label preference (shown before it is answered) and the full-screen map with its
two frames and its transition. `RideTools` has one record per form, and the
directions. `Mentions` is a text box over sequences of characters, of which the code
tells the "@" and the space from the others. An entry of the list has a user name and
a display name, both of any characters: the list is offered by either, in the order
the code scores them, and the user name is put in. Case is left out: the code
compares in lower case throughout.

### DemoSite, DemoToast

The demo has copies of the front end's components over `lib/api.ts`, which applies
a request to its data after a random delay. `DemoSite` models the data and the
panels that change it, `DemoToast` the toast with its timers.

### Pages

Pages share no component state, so `WebSpec` follows one page at a time, and a
page whose panels are independent in parts (`LocationPart`, `MapPart`,
`DemoPart` ...): the state space is the sum of theirs and not the product. What a
part leaves alone is fixed at one initial state. The dashboard is followed in three
parts (its pauses while it stays open, one job's pause over several visits, sending
and the season), the rides in two (both days while they stay open, one day over
several visits with other writers). Leaving the page is modelled for the editor,
the dashboard, the role switcher and the rides, where requests outlive it; the other
pages are followed from their start until they are left, and forget all they keep.

## 3. Runs

`CHECK_DEADLOCK FALSE` in every configuration but `WebPages.cfg`: once the bounds
are used up and all runs, syncs and events are over, the system may stop. A web
page never stops, and TLC checks that it does not.

| Run | Question | Bounds, and why they are enough |
|---|---|---|
| `ask_rides_edits` | `PromiseKept`, `HeaderHasBody`, `PauseHonoured` | 8 days (a full week and the wrap to the next, so every weekday meets every event), 2 runs (one may disturb the other, and clear a pause for it), 1 edit of a pause, a flag or the season anywhere, host offset 0 or 1 |
| `ask_rides_week` | `TypeOK`, `NoWeeklyDuplicate`, `PauseHonoured` | Monday to Thursday (every day the group slot may be moved to), 3 runs, 1 fault, 2 edits: the schedule moved and a template changed, or a dated pause and another one set while a run is clearing the first. A restart then fires the job again, so that a run meets the pause that was lost |
| `ride_coverage` | `TypeOK`, `RowsJustified`, `CleanIsCovered` | 2 messages by 2 users on pages of one message, so the scan needs two fetches; 1 edit or deletion, 1 forced sync beside the startup sync, 1 fault |
| `ride_coverage_live` | `MissedIsRecovered`, `DeletedIsForgotten` | 1 message, 1 edit or deletion, 2 faults (a crash, and one in the recovery) |
| `reactions` | `TypeOK`, `QuietMatches`, `OneChannelEach`, `KeeperStays` | 2 users, one of unknown location, and 2 emojis, interchangeable by symmetry: a count and a read of reactors take two steps, so a user can move between emojis in between; 3 reactions (put on, taken back, put on again), 2 commands (two creations or bulk adds at once, or a creation and its end), 1 fault |

| `live_reactions` | `LiveTypeOK`, `StreamServesPage`, `ListsAreViews`, `HeardIsShown` | 2 events, so one may arrive while the other is held back or fetched; every list: ride coverage and the log, which are on different pages, so that one is off the screen; the driver list with both of its days; the overview. Lists share the stream only, so more of them at once add nothing |
| `web_pages` | the 20 properties below | 2 values of everything that is chosen (contents, windows, locations, members, stops, trips, cars), since each hazard is between an old value and a new one; 2 requests of a kind under way where the page allows it (`MaxSends`, `MaxSwitches`, `MaxAsks`); texts of 4 characters, the shortest in which a mention has text on both sides of it; users with two different names, with one name, and with an "@" in the user name; 4 account ids, two of them admins, one that may be given again; 4 timers |

What the properties say:

- `PromiseKept`: a run that no edit, fault or midnight disturbed posts exactly
  the announcements and driver requests that were due when it started. What is
  due is told from the coordinator's side (the pause asked for, event dates),
  not from the pause rows and send days the code computes with.
- `PauseHonoured`: no announcement and no driver request goes out for an event
  that a pause covers, unless that pause was edited during the run, or was saved
  between a run's read of the row and its clearing write and wiped by it. Apart
  from that the auto-clear never lifts a pause before its time, even on a host a day
  ahead.
- `HeaderHasBody`: in the Friday season the role ping goes out exactly when an
  announcement follows, and says "for this week" exactly when the Friday one
  does. In the Wednesday season it does not hold for scheduled runs: the header
  counts the Wednesday announcement, which another job sends.
- `NoWeeklyDuplicate`: two scheduled runs of one week never both announce once
  the first has posted something the history scan recognises, unless that scan
  failed.
- `RowsJustified`, `CleanIsCovered`: no row is invented; an undisturbed message has
  exactly its rows, as long as a sync can read all messages (with more than
  `ScanLimit` it takes those it did not reach for deleted).
- `MissedIsRecovered`, `DeletedIsForgotten`: a message of which nothing is recorded
  when the process is down has all of its passengers recorded after the next start,
  and one deleted meanwhile loses all of its rows. Of a message recorded in part
  neither says anything: an edit while the process is down that adds a passenger is
  not made good, since the sync's batch fails on the row that is there.
- `QuietMatches`: once a user's handlers and all commands are over, he is in the
  registered thread exactly if he has a reaction, whatever the others did
  meanwhile and wherever the commands met him.
- `KeeperStays`: a removal handler counts emoji by emoji while reactions come
  and go, but never removes a user who kept one reaction throughout.
- `OneChannelEach`: nothing records that a channel was asked for, yet only a
  second reaction during the first one's handling makes a second channel; a
  crash in the middle does not.

- `StreamServesPage`: the connection is open exactly when something on the page
  subscribes, with exactly those subscribers, or it broke and they say so; a
  debounce is pending only on a live connection. `ListsAreViews`: the refinement
  to `LogView`. `HeardIsShown`: an event that reached the page while a list had
  data is in the list in the end, or the list shows an error or was left.
- `TypedTextStands`, `QueryIsCurrent`: a refetch never replaces text marked as
  unsaved, except by the user's own undo or when the page loses its messages;
  once all is quiet the query holds what is stored. Left out, until the page asks
  anew, are the changes it was not told of (the stream was not up; the coordinator's
  id, whose changes are not published) or was told of while the card was not shown.
- `BadgeTellsPause`, `OneSendAtATime`: when nothing is under way the badge is the
  server's pause: the page's own pauses and the clearing done by its own sends get
  to it in any order of answers and over any number of visits. Left out, until the
  status is asked for anew, are the changes of others and of scheduled jobs, lost
  answers, and an answer that came while the user was elsewhere and whose fetch was
  joined. One visit of the page never has two sends on their way; leaving the page
  and coming back enables the button again, and then there may be two.
- `PanelsAreSettings`: requests of a panel never race, so what
  is stored is what its user sent last: each panel implements `Setting`.
- `PendingOnlyWhileAdding`, `DialogKnowsItsPair`: a first stop is remembered in the
  mode that asks for the second only, and no longer once the dialog of the pair is
  open (the dialogs of the table may open over the hint, and it is remembered
  meanwhile); a dialog opens for two known locations, and as "new" exactly when they
  have no travel time.
- `RoleShownIsStored`, `ConfirmationStands`, `ShownListIsStored`: the role on the
  page is the stored one after any overlap of switches, reads and visits; a removal
  does not close the confirmation of another member; the rides shown are the stored
  ones, whatever day was chosen while a request ran. Left out, until they are asked
  for anew, are changes by others and requests that failed though they may have been
  carried out; for the rides also the answer that finds its component gone, and a
  fetch that was joined.
- `NoSilentEnd`, `LinkWins`: a complete selection always has a route, an error or
  a request under way; reloading or opening a link keeps what the link names.
- `NewestLine`, `LabelsAgree`: a late line never replaces the one of the current
  stops; once all changes are answered and none failed, the labels are shown as the
  answers left the preference.
- `ResultOfLastAsked`: a result is that of the last request of its form, with no
  edits but its own.
- `CommitMakesMention`: choosing an entry, by whichever of its names it was found,
  leaves a mention of a user at the cursor, if the user name can be mentioned at all:
  one with a space or an "@" cannot, and the import of the sheet
  (`services/csv_sync_service.py` of the backend) lets such names in. Left out is the
  choice after the text was replaced under the cursor.
- `DemoAgrees`, `AdminsStay`: a panel of the demo that is not waiting shows the
  store; no sequence of invitations and removals hands an admin's row to another
  role.
- `ToastHasTimer`: a visible toast has a timer that will hide it.

### Disagreements between code and documents

Each is a run TLC ends with a counterexample; `PROJECT.json` quotes the lines.

- `ask_rides_lost`: `is_job_paused` reads a dated pause that is over; a coordinator
  pauses the job indefinitely; then the row is cleared by its job name alone, and the
  new pause is gone without a word, though it was to be resumed by hand.
- `ride_coverage_orphans`: a message posted between the scan of a sync and its
  orphan query loses its rows.
- `ride_coverage_deleted`: deleting a message from before the last restart
  raises no `on_message_delete`, and its rows stay.
- `reactions_removed`: a user takes his only reaction back and puts one on again
  while the removal is handled: the count is already zero, the add handler finds
  him still a member, and then he is removed though he has a reaction.

- `route_late`: two routes are asked for in quick succession and the earlier
  answer comes last: it is shown under the later selection, and nothing asks
  again. ("Auto-generate route whenever locations or leave time change",
  `RouteBuilder.tsx:478`.)

Met while reading and not given a run, in the backend: `run_ask_drivers_sun` tests a
coroutine it does not await (`bot/jobs/ask_drivers.py:99`), so drivers are asked for
a wildcard Sunday, though `docs/scheduler.md:27` lists the wildcard among the guards of every
Sunday job; a dated pause is cleared
on the send day before the event of its date, which is announced, though
`docs/api-reference.md:258` and `docs/scheduler.md:60` say the job resumes after that
event; `set_season` commits the season and its two flags one after the other, so a
process that stops in between leaves them apart until the season is set again; two
edits of a message in quick succession are recorded in either order, so that a
passenger taken out by the later one may be added last; a sync that cannot read the
history goes on to delete the rows of every message it has not seen; after a Send now
for the fellowship only, the scheduled run takes the week for sent and drops the
Sunday announcements; `docs/scheduler.md` names another channel
for the wildcard notice than the code; the pauses endpoint computes
`resume_send_date` with the default send day whatever the schedule says; an edit
that takes `drive:` out of a message leaves its rows; a batch that meets one
existing row leaves the new passengers out, though `docs/ride-coverage.md:102` says
the sync "rebuilds" them; a sync forced before the bot is ready finds no channel and
deletes every recent row; messages of the second spam channel are recorded by
the listener and deleted by every sync; events lost with a session that cannot
be resumed are made good by the next process only; a user who reacts while
`/create-event-thread` runs, after his emoji was read and before the row is
written, is added neither by the command nor by his reaction, though
`docs/bot-commands.md` says the command adds those who reacted and those who
will; two quick reactions of a new rider make two channels of the same name.

In the front end, where the models keep to the code and the properties leave the
case out:

- *Messages editor*: text typed while a save of the same card runs loses its
  "unsaved" mark when the save is answered, and the next refetch replaces it; a
  save that the server has stored but not answered shows a conflict with oneself;
  a failed refetch unmounts the cards and what was typed in them.
- *Dashboard*: a season switched by someone else under the open Send-now dialog
  changes what "all ask rides messages" is; the pause modal carries over to the
  other job, since the card has no key; leaving the page while a send runs enables
  its button again.
- *Settings panels*: leaving the page forgets that a request is pending; a
  refetch overwrites an edited draft of the windows.
- *Locations page*: the success of an earlier save closes another form that was
  opened since; Enter sends a second travel time while the first is pending; a
  refetch overwrites a typed adjustment; the first stop of a travel time may be
  gone when it is sent.
- *People*: the success of an added member or an invitation clears what was typed
  since; the removal of a ride may be confirmed twice; a list that was first being
  fetched when a ride was added may show the state before it; a role or a ride that
  was stored with its answer lost is not asked for again.
- *Route builder*: a link without a driver or a custom time takes them from the
  storage; a location with a comma in its name cannot be in a link; a driver
  without stops is cleared at mount; a late answer ends the loading mark of the
  request still running; the full-screen map closed within two frames of opening
  opens nevertheless; a refused line leaves the old one; a failed one leaves its
  error.
- *Mentions*: after the names are fetched again the highlighted row may be beyond
  the list, and Enter then throws; a user name with a space or an "@" is offered, and
  choosing it leaves no mention.
- *Reaction lists*: an event that comes while a list waits for its first answer
  is not in it, since the request is joined and not restarted; ride coverage
  misses events that come while another page is shown (it does not refetch when
  it is mounted); a burst of events that does not pause holds the debounce back
  for as long as it lasts; `Home` does not show that the stream broke.
- *Demo*: pauses, Send now and clearing the caches change nothing in its store,
  though `lib/api.ts:4` says all mutating requests are applied to it; the id of a
  deleted last account is given again.

### Fairness

`AskRides`, `Reactions` and the web pages have none: their properties are safety.
`LiveReactions` assumes weak fairness of the delivery of an event on a live
connection, of the debounce timer, of the server's read for a request and of the
end of a request, by an answer or a failure: the browser ends every request, and
its timers fire. Users, other coordinators, ageing and errors are not fair. A
debounce restarted for ever is ruled out by the bound on events, which is why
`HeardIsShown` is about the event the timer was started for.
`RideCoverage` assumes weak
fairness of `Boot` (the container restarts, `deployment/docker-compose.yaml`),
`Ready` (the client reconnects by itself), of listener calls and of each sync
(the event loop runs every task that can go on). Faults are bounded and not
fair, and the liveness properties say so: they ask for recovery after the last
one.

## 4. Proofs

The proof modules follow one scheme: an inductive invariant; a lemma per action
(or per group of actions that change the same variables) that the action keeps it;
that the initial states have it; and the theorem by PTL. Beyond the theorems below
each module proves that its variables keep their types.

| Theorem | Says | Rests on |
|---|---|---|
| `AskRidesProofs!TypeCorrect` | `Spec => []TypeOK` | `BoundsAssumption`, `HostAssumption`, `ScopeAssumption` |
| `AskRidesProofs!PausesHonoured` | `Spec => PauseHonoured` | the same |
| `AskRidesProofs!WeekAnnouncedOnce` | `Spec => []NoWeeklyDuplicate` | the same |
| `AskRidesPromise!PromisesKept` | `Spec => []PromiseKept` | the same |
| `AskRidesPromise!HeadersHaveBodies` | `Spec => HeaderHasBody` | the same |
| `RideCoverageProofs!TypeCorrect` | `Spec => []TypeOK` | `BoundsAssumption`, `InputAssumption` |
| `RideCoverageProofs!RowsAreJustified` | `Spec => []RowsJustified` | the same |
| `RideCoverageProofs!CleanStaysCovered` | `Spec => []CleanIsCovered` | the same |
| `ReactionsProofs!TypeCorrect` | `Spec => []TypeOK` | `RiderAssumption`, `BoundsAssumption` |
| `ReactionsProofs!KeepersStay` | `Spec => KeeperStays` | the same |
| `ReactionsProofs!NoSecondChannel` | `Spec => []OneChannelEach` | the same |
| `ReactionsProofs!MembersMatch` | `Spec => []QuietMatches` | the same |
| `LiveReactionsProofs!LiveTyped` | `LiveSpec => []LiveTypeOK` | `LiveAssumption` |
| `LiveReactionsProofs!StreamFollowsPage` | `LiveSpec => []StreamServesPage` | the same |
| `LiveReactionsProofs!ListsImplement` | `LiveSpec => ListsAreViews` | the same |
| `AdminPagesProofs!CardIsCurrent`, `TextStands` | `EditorSpec => []QueryIsCurrent`, `TypedTextStands` | `EditorAssumption` |
| `AdminPagesProofs!BadgesTell`, `SendsOnce` | `DashSpec => []BadgeTellsPause`, `[]OneSendAtATime` | `DashboardAssumption` |
| `AdminPagesProofs!PanelsImplement` | `AdminSpec => PanelsAreSettings` | `AdminAssumption` |
| `AdminPagesProofs!MarkerRemembered`, `PairsKnown` | `PageSpec => []PendingOnlyWhileAdding`, `DialogKnowsItsPair` | `SpotAssumption` |
| `AdminPagesProofs!RoleIsStored`, `ListIsStored`, `ConfirmationsStand` | `PeopleSpec => []RoleShownIsStored`, `[]ShownListIsStored`, `ConfirmationStands` | `PeopleAssumption` |
| `RidePagesProofs!BuilderTyped`, `BuilderAnswers`, `AddressWins` | `RouteSpec => []RouteTypeOK`, `[]NoSilentEnd`, `LinkWins` | `RouteAssumption` |
| `RidePagesProofs!LabelsInAgreement`, `LineIsNewest` | `MapSpec => []LabelsAgree`, `NewestLine` | `MapAssumption` |
| `RidePagesProofs!MentionsMade` | `BoxSpec => CommitMakesMention` | `MentionAssumption` |
| `RidePagesProofs!ResultsOfLast` | `ToolsSpec => []ResultOfLastAsked` | – |
| `RidePagesProofs!DemoPanelsAgree`, `DemoAdminsStay` | `DemoSpec => []DemoAgrees`, `[]AdminsStay` | `DemoAssumption` |
| `RidePagesProofs!ToastKeepsTimer` | `ToastSpec => []ToastHasTimer` | `TimerAssumption` |
| `RidePagesProofs!PagesImplemented` | `WebSpec` implies the specification of every page | – |
| `RidePagesProofs!WebTyped` | `WebSpec => []WebTypeOK` | all of the pages' assumptions |
| `RidePagesProofs!FrontEndKeepsItsWord` | `WebSpec =>` all of the pages' properties above | all of the pages' assumptions |

**PausesHonoured.** The difficulty is that every check may have the row cleared, two
awaits later and whatever it holds by then, so the row alone does not remember the
pause. The invariant has four parts beside the
type. `ResumeOnWeekday`: a resume date falls on its job's weekday (the dialog
offers no other). `ClearedInTime`: a row that differs from what the coordinator
asked for was cleared, and then either no event before the resume date is still to
come or the coordinator's edit ran into a clearing write (`raced`). `ClearsAreDue`
says the same of the rows a run is still to clear; so the only pause that is lost is
one saved between the read and the write (`Lost`), which the property leaves out. This is where the arithmetic is: `SendDayBefore` goes back at most six
days (`ReleasedOnTime`), so even a host one day ahead clears only when the next
event *is* the resumed one, and `NextEventMonotone` keeps that true as days
pass. `CheckedFirst`: a run about to post has passed the check, and its answer
still holds unless a coordinator edited that pause since, or it is lost. The proof holds for
every calendar, schedule, number of runs, edits and faults, and needs the host
to be at most one day ahead of Los Angeles.

**WeekAnnouncedOnce.** The duplicate check is a scan at the start of a run that
reads what earlier runs posted, and what follows it posts steps later. `WeekIsClear`
carries its answer along: behind a scan that worked, what earlier scheduled runs
announced was another week's. That holds only because no earlier run posts
meanwhile: `OneAtATime` (`max_instances = 1`) and `RunsInOrder` (a run's number
tells when it started). `StagesOfAll` says that such a run is before its scan or has
only stages behind it left, and `PostsOfRuns` that a post is of a day that has come
and of a run that has started. The steps of a run are summed up once
(`RunStepKeeps`, `Keeps`): it may go on to one of few lists of stages and touches no
other run.

**PromisesKept, HeadersHaveBodies.** `PromiseKept` speaks of the end of a calm run,
`Promised` of each point on the way. What is posted is what was due and is not
ahead any more (`PostedSoFar`), where `Ahead` counts what a stage may still bring in:
`felly` stands for the Wednesday and for the Friday stages. `AsStarted` says that
calm runs still see the settings they started under, `InReach` that no message is
ahead twice, and `GatesHold` that the gates a stage has passed still stand where the
code does not look again. The header is posted first and promises what comes later:
`HeaderRead` relates what it has read of the pauses to the days as they are, and
`HeaderSaid` what it said to what was due. `HeadersHaveBodies` then follows, as an
action property, from the step in which a run ends.

**RowsAreJustified.** Old versions of a message are in flight in two places: the
calls of listeners and the fetched pages of syncs. The invariant says of both
that they name only users the message has named (`CallsJustified`,
`PagesJustified`), and of the message that its history includes what it says now
(`NamedNow`); the first two are needed because `rows` changes by what is in
flight and not by what the message says.

**CleanStaysCovered.** A message is clean as long as no fault has touched it, and may
be the subject of a listener's call and of several syncs at once. `Settled`: its rows
are right, or one call is under way that will put them right, by additions and then
removals (`Owed`); a sync may have done the additions before. `Followed`: a sync that
meets the message has read it as it is now, for a change of it while a sync is
under way makes it dirty; and the sync has read it, is about to, or is past it
without harm (`Reached`). The last needs that the scan goes through the history in
order and stops only at its end (`Ordered`): a message beyond the limit of a scan
would be taken for deleted, hence `posted <= ScanLimit` in the property.

**KeepersStay.** A removal handler that counts has a set of emojis still to be
counted. `KeptNow` says that what a user has kept he has now; `Counted` says
that, as long as the count is zero, a kept reaction is among those still to be
counted. When none is left the count is zero only if nothing was kept, and from
then on `kept` stays empty, up to the removal.

**NoSecondChannel.** `OneAtATime` says that a rider who never reacted while a
handler of his ran has at most one handler; `FirstChannel` that such a handler,
about to create a channel, has none of his to duplicate. The look and the
creation are two steps, so the invariant must speak of the step in between.

**MembersMatch.** `QuietMatches` speaks of quiet states only, so the invariant
`Promise` says who will put right what is wrong in the others, for the users who
are not dirty. `Leaving`: a member without reactions has a removal handler under
way in a registered thread. `Joining`: a user with reactions who is no member is
covered by some command under way, or, if there is none and the thread is
registered, has an add handler. What a command covers depends on how far it has
come (`Covers`: everyone before it reads the message; then those it has found,
and those whose emojis it has still to read). `CleanHandlers` and
`CommandsAddReactors` say that neither handlers nor commands act against the
reactions. The work is in two lemmas: `Ways`, the five ways a handler's step can
go for its user, and `CommandWays`, that a command breaks or hands on everyone
it covered: as a member, as one whose add was refused, or to what comes in its
place.

**StreamFollowsPage, ListsImplement.** The stream is changed by events, by
navigation and by the role, and the proof of `StreamServesPage` goes through what
`Remount` does for each of them: the cleanup may close the connection that the
next effect opens again. For the refinement the invariant `InOrder` says that
what a request has read is no older than what its list shows and no newer than
the log: a request that would break it is cancelled or was never joined. A step
then maps to `Publish`, to `Show` of the one list that received its answer, or to
a stutter (`SameView`, `ListsStay`).

**CardIsCurrent, TextStands.** A card can be fetched and saved at the same time,
while stream messages say that it is stale, and the page be left meanwhile.
`CardFollowed` says that, unless a message is still to come or was missed, the answer
on its way is what is stored and so are the data when nothing is on its way. `TypedTextStands` needs the second part of
`CardInv`: a card that is hidden has no unsaved text to lose.

**BadgesTell, SendsOnce.** `PausesFollowed` is the same for the dashboard's status,
except that it says nothing while a pause is stored and not answered, by the card that
is shown or by one that is gone, or while a send runs, of this visit or an earlier one:
their answers have the status asked for again. Nor does it while the page is in
`doubt`, until it asks again. `OneSend` closes the dialog with the request it sends,
and leaving the page hands the request over to `earlier`.

**PanelsImplement.** `SavesLastWord` and `TogglesLastWord` say
that a panel has at most one request under way, that it carries its user's last
word, and that its mutation is shown as pending: the control that would send a
second one is then disabled. Each step maps to `Send`, `Stored`, `Refused` or a
stutter of `Setting`.

**MarkerRemembered, PairsKnown.** The first is inductive with the types. The second
is an action property: the first marker may have been deleted between the two clicks,
so the second click must look it up again, and no answer may change the pair of a
dialog that is open.

**RoleIsStored, ListIsStored, ConfirmationsStand.** `SessionFollowed` says that what
is shown or was read is what the server keeps, unless the page is in doubt or a switch
was stored whose answer is still to come (`RoleSure`). It needs that a role is switched only
where one is shown, and the proof found what that means: a query that failed after
it had data goes on showing them, so the model tells a failed refetch
(`"broken later"`) from a first one that failed. `DayFollowed` says the
same of the day that is shown, with a doubt for each day (`DaySure`), and
`RemovalConfirmed` says that a confirmation outlives only its own removal.

**Lists of any length.** What a filter keeps (`OnlyFacts`), and that a set of numbers
has a largest (`MaxIs`), holds by induction over the length. The library's induction
theorems take an operator as a parameter, which none of the provers can instantiate;
`SetInduction` says the same of a set of numbers, and follows from the
well-foundedness of `<`, which the library states for relations. `RemoveIs`,
`InsertIs` and `JoinIs` say what stands where after a list was cut and joined again.

**BuilderTyped, BuilderAnswers, AddressWins.** `RouteInv` is the type and `Awaits`: a
selection a route can be written for has a timer, a request, an error or a route; and
nothing else is ever asked for or answered. The stops of the type are a list without
repetition, which toggling, removing, moving and filtering keep, and which is then no
longer than there are locations (`StopListIs`, by the pigeonhole principle): the
locations must be finitely many. Links and storage are assumed to hold such lists,
as the page writes them: an address put together by hand could name a stop twice.

**MentionsMade.** The action property is about the one step that takes an entry,
`Commit`. It needs to know what stands where in a text that was
cut at the `@` and joined around the name (`AppliedText`): the part before is as it
was, so the `@` still starts a word; the name follows, and has neither `@` nor space
(a precondition of the property, for nothing keeps other names out of the sheet);
and a space follows the name,
either the one put in or the one that stood there. So the last `@` or space before
the caret is that `@` (`BehindName`), and the text between is the name of a user.
`SuggestedAreUsers` says that the three filters of `Suggestions`, which look at both
names, yield entries of the list only.

**LabelsInAgreement, LineIsNewest.** `LabelFollowed`: a preference that is shown but
not confirmed is on its way, counted by `sent` and `answered`, within
`PatchesBounded`. `NewestLine` is an action property of the line a trip shows.

**ResultsOfLast.** `OneRequest` says that a form has at most one request, for what
was asked last, and then no result and no edits; `ResultShown` that a result is one
of the last request.

**DemoPanelsAgree, DemoAdminsStay.** The demo keeps its data in the page, behind a
delay. No request on its way and no dialog is about an account in the list of admins
(`SafeAsked`, `SafeUi`), and an account that is created gets an id above every id in
use, so it is none of them.

**ToastKeepsTimer.** While a toast is visible its newest timer is running; a
cleanup clears the timer of an older render only, since a timer's id is not used
again while anyone knows it.

**PagesImplemented, WebTyped, FrontEndKeepsItsWord.** The theorems of the pages are about the
specification of each by itself (`EditorSpec`, `AdminSpec`, ...). `PagesImplemented`
says that the front end implements all of them: a step on a page is one of a part of
that page and leaves the variables of all others as they are. Hence what is proved of
the parts is proved of `WebSpec`, which the run `web_pages` checks.

Model-checked only are the liveness properties `MissedIsRecovered`,
`DeletedIsForgotten` and `HeardIsShown`: fairness and ENABLED are out of the prover's
reach. Every invariant and every action property that a passing run checks has a
theorem.

## 5. Plan

1. *Done*: `AskRides`, `RideCoverage` and `Reactions` with their runs, and all of
   their safety properties proved.
2. *Done*: the pages of the front end and the demo, with two abstract
   specifications and the refinements to them; proved, and carried over to the front
   end as a whole.
3. Settings of the backend and their copies: the flag cache against its table,
   the live trigger against the saved schedule, each with the commit and the copy
   as separate steps; the abstract specification is `Setting`.
4. The result cache: per-key lock, store after unlock, invalidation; shown to
   implement (or where not) a cache that never serves a value older than its
   last invalidation.
5. The queues of the broadcasters, and a client's view from its subscription on,
   composed with `LiveReactions`.
6. Accounts and sessions: the life of a session against that of its account.
7. Pure algorithms as functions: shortest travel times over the pickup graph and
   the pickup times of a route, against a reference definition.
8. Proofs for the modules of 3 to 6, along with them.

### Not modelled

Layout, wording and the Learn page; the theme and the resizing of panels;
queries without handlers of their own (`hooks/usePickups.ts`,
`hooks/useUsernames.ts`, beyond the names `Mentions` takes from the latter); the
drawing of maps; the demo's copies of components that only show fixed data;
migrations and scripts (by hand, one at a time); the grouping a language model
computes; role management and whois in the backend (Discord calls in sequence, no
state kept).
