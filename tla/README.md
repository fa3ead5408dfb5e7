# A verification of docker-gen

docker-gen watches a docker daemon, renders templates from what the daemon says
about its containers, writes the results to files and notifies whoever reads
those files. The state machine behind that sentence is concurrent:
several goroutines run the same pass over the same files with no lock between
them, woken by events that may be dropped, on a connection that may be lost,
until a signal that may be dropped as well. The modules in this directory
describe that machine, TLC checks it on small instances and TLAPS proves the
safety part of it for all sizes.

## 1. Inventory

| Part | State | Operations | Interacts with |
|---|---|---|---|
| Generation pass (`generator.go` `getContainers`, `generateFromContainers`; `template.go` `GenerateFile`, `executeTemplate`) | the destination file; local variables of the pass | list, inspect each, render, compare, truncate, write, three notifications, `log.Fatalf` | docker API, file system, readers of the file, every other pass over the same file |
| Events goroutine (`generateFromEvents`) | client, `watching`, `eventChan`, signal channel | connect, register + sync, fan-out, reconnect, ping, shutdown | go-dockerclient's event monitor, watchers |
| Watchers (`generateFromEvents`) | a channel of 100 events each | receive, pass, return when closed | Events, debouncer, wait group |
| Signals goroutine (`generateFromSignals`, `newSignalChannel`) | a channel of one signal per goroutine | SIGHUP: pass over all configs; SIGTERM/SIGINT: return | os/signal, wait group |
| Interval tickers (`generateAtInterval`) | ticker, signal channel | tick: pass that always notifies; SIGTERM: return | wait group |
| Debouncer (`newDebounceChannel`) | the kept event, `minTimer`, `maxTimer` | receive, fire, forward, return | watcher's channel, watcher |
| Shared template context (`context.go`) | `dockerInfo`, `currentContainer` under an RWMutex | `SetServerInfo`, `SetCurrentContainerID`, `SetCurrentContainer`, `Docker()`, `CurrentContainer()` | every pass writes it, every template reads it |
| Configuration (`config.go`, `main.go`) | `Config` values, fixed after start | `ParseWait`, `FilterWatches`, filters and defaults of the command line | everything, as constants |
| Docker client (`docker_cli.go`) | none | address parsing, client construction, image names | Events goroutine |
| Own ID (`context.go`, `GetCurrentContainerID`) | none kept; where it is in the files of `/proc` | read a line, next file, next matcher | each pass, through `SetCurrentContainerID` |
| Container filters (`main.go`) | `containerFilter`, a map | `Set`, read the variable, defaults | the daemon's listing, and with it every pass |
| Template functions (`template/*.go`), addresses (`address.go`), utilities | none | grouping, selection, sorting, field lookup, quoting, validation | templates |

What makes the parts correct, and what is hard about each:

* **Passes.** A file ends up describing the containers, and each reader ends up
  having loaded the file. Hard: passes overlap; the list and the inspections are
  not one call; a write truncates first; "did the file change" is asked by one
  pass and answered by another's write; every call may fail; `log.Fatalf` in one
  goroutine ends all the others wherever they are.
* **Events, watchers.** No change is missed, but for a listing that fails: that is
  logged and not tried again. Hard: the library drops events when
  `eventChan` is full; nobody sends events while no listener is registered; the
  fan-out blocks; a channel may be closed by the library.
* **Signals, shutdown.** SIGTERM ends the process. Hard: five kinds of goroutines
  with a signal channel each, a wait group that leaves one of them out, signals
  dropped by a channel of one place, loops that sleep without looking at it.
* **Debouncer.** Every event is passed on, `Min` after the last or `Max` after the
  first of a burst, once. Hard: three cases of a select that are ready at once,
  an output that is full, a shutdown in the middle of a burst.
* **Shared context.** A template sees the daemon and docker-gen's own container.
  Hard: three sets under three locks, by concurrent passes.
* **Own ID.** It is the container's, and not a layer's or another container's.
  Hard: two passes over several files, two patterns in a line, files that end
  early.
* **Container filters.** The containers are those that the flags' documentation
  says, where code and documentation agree on what a filter means. Hard: five sources, of which one counts only without another, and defaults
  that depend on what is there already.
* **Template functions, addresses.** They do what their documentation says, and
  the same input gives the same output. Hard: comparisons that mix numbers and
  strings, equal keys, duplicates, map order, keys with dots in them, backslashes
  in front of quotes.

`PROJECT.json` lists every part with its status, every hazard at its line with
the properties that would catch it, and every definition with the lines it
stands for.

## 2. Modules

| Module | Models | Checked by | Proved in |
|---|---|---|---|
| `Regenerate` | passes of all goroutines over the destination files | `MCPasses`: `passes`; `MCRegenerate`: `resync`, `fatal` | `RegenerateProofs` |
| `EventLoop` | how changes and signals reach the goroutines | `MCEventLoop`: `loop_*` | `EventLoopProofs` |
| `ChangeFeed` | abstract: what `-watch` promises | as the property `ImplementsFeed` of `loop_feed` | `EventLoopProofs` (`FeedRefined`) |
| `Debounce` | the debouncer with its clock | `MCCalls` (constants in `MCDebounce`): `calls` | `DebounceProofs` |
| `Coalesce` | abstract: a debouncer without a clock | as the properties `ImplementsCoalesce` of `calls` and `DebouncersCoalesce` of `loop_term` | `DebounceProofs` (`CoalesceRefined`), `EventLoopProofs` (`MergesRefined`) |
| `ContextStore` | the shared template context | `MCCalls`: `calls`; `MCContextStore`: `context_id` | `ContextStoreProofs` |
| `ContainerID` | the search for the own ID | `MCCalls`: `calls` | `StartProofs` |
| `ContainerFilter` | the filter of the command line | `MCCalls`: `calls`; `MCContainerFilter`: `usage` | `StartProofs` |
| `Selection` | the loops of `groupby.go` and `where.go` | `MCCalls`: `calls`; `MCSelection`: `where_all` | `SelectionProofs` |
| `DeepGet` | `reflect.go` | `MCCalls`: `calls` | `TemplateProofs` |
| `Sorting` | `sort.go` | `MCCalls`: `calls` | `TemplateProofs` |
| `Addresses` | `address.go` | `MCCalls`: `calls` | `TemplateProofs` |
| `NginxQuote` | `nginx_quote.go` | `MCCalls`: `calls`; `MCNginxQuote`: `quote` | `QuoteProofs` |

`MCCalls` composes the modules that share no state with the event loop: `part`
says which of them runs in a behaviour, and the others stay in an initial state of
their own, so that one run checks each of them alone. `MCPasses` does the same with
three instances of `Regenerate`. In its instance `watch` the variables and properties
are those of `Regenerate` itself; `overlap` and `interval` have other constants and
variables of their own, so that their properties are restated: `OverlapNotifies` is
`NoLostNotification` of the one, `IntervalFollowsDocker` is `DestFollowsDocker` of the
other.

Operators named after another operator with a suffix (`SubscribeWithoutSync`,
`ReceiveMax`, ...) and introduced as "Mutant of" are plausible bugs in the code
an operator models. They take no part in a specification; each property was
seen to fail when the operator is replaced by its mutant.

### Regenerate

State: what the daemon says about each container (`docker`), whether a listener
is registered (`subscribed`), `eventChan` and the goroutines' own channels as
counters (`feed`, `wake`), for every goroutine its place in a pass (`pc`), its
config (`cfg`), the listed containers it has yet to inspect (`ids`) and what it
has rendered (`contents`), the files (`file`) and what each reader has loaded
(`loaded`). One action is one call: `List`, `Inspect` (once per container),
`Compare` (render and compare), `Truncate` and `Write` (the two halves of
`os.WriteFile` another goroutine can come between), the three notifications.
`Fatal` is `log.Fatalf` anywhere, with a restart that keeps the files.

Data: a template prints a line for every running container, in listing order.
That is enough to tell apart stale, mixed and complete contents. A blank line
stands for a container that was listed but has stopped by the time of the
inspection; `removeBlankLines` drops it unless `KeepBlankLines` is set.

A reader is a process that loads the file when it is notified, one for each
notification of a config (`"cmd"`, `"containers"`, `"filter"`).

`Regenerate` keeps of the event loop what the passes need: one fan-out is one
step, reconnecting is `Disconnect` and `Subscribe`. `EventLoop` has the rest.
A pass that receives several events at once, as behind a debouncer, is a
`Fanout` that has not happened.

### EventLoop

State: the daemon (`up`, `version`), the library (`registered`, `live`,
`closed`), `eventChan` and the watchers' channels as counters (`events`,
`queue`), whether the watchers' channels are closed (`shut`), the place of each
goroutine (`pc`), what it has left of its walk over the configs or of its fan-out
(`rest`), the signal channels (`sig`), and three history variables: the goroutines
whose channel took the SIGTERM (`delivered`), the version each config was last
generated from (`listed`), and the configs that were to be listed for the latest
change or for the sync, in vain (`lost`). A pass is the moment of its listing, which
succeeds (`Generate`) or not (`ListingFails`). It fails when the daemon is down, and,
as often as `Bounds` allows, when it is up and the event stream holds. Then the error
is logged and the loop goes on: the event, or the sync of this config and of those
after it in the walk, is used up, and nothing is on its way for them. `lost` says
so until the next change or the next sync; it is only filled while the connection
holds, since a connection that is lost leads to a sync.

`Register` is `AddEventListenerWithOptions` together with the start of the sync,
`TakeEvent`/`HandOut` the fan-out, one watcher at a time (a config in `Debounced`
has a debouncer behind its channel, with `kept` and `output` as its state, and
`Keep`, `Fire`, `Forward` and `Return` as its steps), `Interrupted` the case
of a closed channel, `Timeout`/`Ping`/`Connect` the liveness check and what
follows, `EventsSignal` the case of the signal.

`ChangeFeed` has the same exception. A change, or a sync, is good for one attempt per
config: after `Fail` a config that is behind is not owed anything until `Change` or
`Retry`.

### Debounce

An event is its number. A timer is the time that is left on it; `Tick` advances
the clock when no goroutine has something to do, so that the time a channel is
full counts. `burst` and `quiet` are history variables: the time since the first
and since the last event of a burst. `Min = 0` means no goroutine (`stage = "off"`)
and the input handed through. `EventLoop` does not carry this clock: its debouncers
take the steps of `Coalesce` (`DebouncersCoalesce`), in which a timer may fire at any
time, and `ImplementsCoalesce` says that `Debounce` does nothing else, liveness
included. What holds of `EventLoop` so holds for all waits.

### ContextStore

One pass is a sequence of sets, each of which is one step (it holds the lock):
`Info`, `SetServerInfo`, `SetCurrentContainerID`, `List`, `CurrentContainer`
(with the second inspection of the own container), `SetCurrentContainer`. A
goroutine at `"template"` may read at any time: the properties say what it would
see.

### Selection

One call of a grouping or selecting function: `Group` and `Select` are one turn
of the loops of `generalizedGroupBy` and `generalizedWhere`, `Panic` is the
assertion `value.(string)` that fails in the middle of a list. An entry is what
`deepGet` finds in it, `Split` what `strings.Split` makes of a string, and a group
or a selection is a sequence of positions in the list, so that equal entries are
told apart. `Intersect` is the set `intersect` collects in a map. What `deepGet`
finds, the regular expression of `whereLabelValueMatches`, and the error of
`getArrayValues` for what is no list are left out.

`Described` is what the repository's `README.md` says of each selector.
`SelectionExact` holds of all calls but those of `whereAll` with a string that is
given twice; `AllValuesSelect`, without that exception, is false (`where_all`).

### DeepGet

One step descends by one field, index or key. `Under` says what each value has under
its names, split at their dots; a map's key may have several parts, and the
shortest that fits is taken for good. `There` is the reference: everything that any
joining of the parts leads to. `Names` are the parts that names are made of; the
place where the search stands is `"looking"`, then its outcome.

### Sorting, Addresses

`Sorting` inserts one entry after the other, as the library does in short lists, with
`Less` and its reversal as the comparison. `order` holds positions, so that equal
keys are told apart. `Addresses` takes the keys of a map in any order and ends with
any arrangement that has no descent, since `sort.Slice` is not stable. No two
entries of one map have the same port and protocol, so that the fields that are
compared after them never decide and are left out.

### NginxQuote

The helpers are the code's, over sequences of characters; a call and a call with its
result are the two steps. `Characters` are those a value may have; the theorems hold
for any that include the quotes and the backslash. In the instances, of the special characters there is one of each sort
that nginx reads differently: `;` for those that end a word, `#`, and the blank.

### ContainerID, ContainerFilter

`ContainerID` reads one line per step. A line is the IDs in it from left to right, each
with its anchor; a file that cannot be opened is an empty one. `ContainerFilter`
parses one argument per step; `Listed` is what the daemon does with the filter, and
`DocumentedContainer` what the usage text says of the flags, to the letter: repeated
filters combine with AND (`FitsAll`), and `-only-exposed` and `-only-published` are
bypassed by the filters `exposed` and `published`. The code does neither. It hands
all values of a name to the daemon, which takes any one of them (but all of `label`),
and looks for the names `expose` and `publish`. `ListsAsDocumented` is about the
filters for which that makes no difference (`Undisputed`: one value for each name but
`label`, no name that the daemon does not know); a port filter under the daemon's own
name is among them, because its containers have a port of that kind anyway.
`FollowsUsage` states the two sentences by themselves (`CombinesWithAnd`,
`BypassedByFilter`), and fails.

## 3. Runs

| Run | Instance | Question |
|---|---|---|
| `passes` | one instance at a time: | |
| | `watch`: 2 watched configs, 2 containers, channels of 1, 2 changes | Without overlapping passes, does every file follow the containers (`DestFollowsDocker`), are all readers told (`NoLostNotification`), and do the passes really exclude each other (`OnePassPerDest`)? |
| | `overlap`: 2 configs, one to stdout, one with blank lines; 1 change, 1 lost connection, 1 SIGHUP, 1 failing listing or inspection | Is a notification ever lost when passes overlap (`OverlapNotifies`)? |
| | `interval`: 1 config, watched and ticking; 1 change, 1 lost connection, 1 fault of any kind | Does an interval make up for everything (`IntervalFollowsDocker`)? |
| `resync` (violation) | 1 config, 2 containers, 2 changes, 1 lost connection | Does the sync after a reconnection leave the file current? It does not always. |
| `fatal` (violation) | 1 config, 2 containers, 1 change, 1 exit | Do the readers follow the file over a restart? They do not. |
| `loop_feed` | 2 watched configs, one of them debounced, channels of 1, 2 changes, 1 outage, 1 listing that fails with the daemon up | Does the loop implement `ChangeFeed`, and is something always on its way unless a listing has failed (`NoMissedChange`)? |
| `loop_fault` (violation) | 2 watched configs, 1 listing that fails with the daemon up | Does a failed listing leave out its own config only? No. |
| `loop_term` | 1 config, watched, debounced and ticking; 1 change, 1 outage, 1 SIGHUP, 1 SIGTERM | Does a SIGTERM that every channel took end the process (`TermStops`), and does the debouncer keep to `Coalesce` meanwhile, through the closing of its channel too (`DebouncersCoalesce`)? |
| `loop_hangup` (violation) | 1 config, 1 SIGHUP, 1 SIGTERM | Does every SIGTERM? Not behind a SIGHUP. |
| `calls` | one part at a time: | |
| | context: 3 passes at once, one filter hides docker-gen, 2 failures, 2 changes | Is a cleared ID stored again (`IdComesBack`), and does docker-gen's container stay available unless an inspection of it fails (`CurrentAvailable`)? |
| | debounce: `Min:Max` of 0:0, 2:3, 2:2, 1:4, channels of 1, 6 events | Timers armed if and only if needed (`ArmedIffPending`), both limits kept (`NotOverdue`, `Paced`), every event passed on (`EveryEventArrives`), `Coalesce` implemented? |
| | selection: lists of up to 3 entries over 4 strings, nothing and a value that is no string; comparisons of up to 2 strings, with repetitions | Do groups and selections have what they should, as often and in the order they should (`GroupsExact`, `SelectionExact`), and does a call fail exactly when it has to (`FailsOnNoString`)? |
| | sorting: lists of up to 4 of the keys `""`, `09`, `10`, `1a`, `9` | Is the result stable and in order where the keys have one (`SortsStably`), and complete, without two neighbours in the wrong order, where they have none (`NeighboursInOrder`)? |
| | addresses: 3 ports, up to 2 of 2 bindings each | Are they the ones of the container (`AddressesExact`), in one order whatever the map's (`AddressOrderFixed`)? |
| | quote: all values of up to 5 of 8 characters | Does nginx read the result as one word (`ReadAsOneWord`), is it left alone the second time (`QuotedOnce`), and does only fail what should (`FailsAsDocumented`)? |
| | deepget: 10 values, all paths of up to 5 parts | Is everything found that is there and not shadowed (`FindsWhatIsThere`), labels in particular (`LabelsFound`)? |
| | id: up to 2 files of up to 2 lines of 7 sorts | Does an ID that begins with the host name win (`HostnameWins`), and is a layer never taken for a container (`NeverALayer`)? |
| | filter: up to 2 of 7 arguments in each place, all flags | Are the containers those that are documented, where the filters are undisputed (`ListsAsDocumented`)? |
| `where_all` (violation) | selection as above | Does `whereAll` select what has all values, whatever it is given? Not when one is given twice. |
| `usage` (violation) | filter as above, and a second status | Does the documented filter bypass `-only-exposed`, and do repeated filters combine with AND? Neither. |
| `context_id` (violation) | 2 passes at once | Does every template see the ID? No. |
| `quote` (violation) | values as above | Does every value with both unescaped quotes fail (`MixedFails`)? No. |

Why the bounds are enough. Every channel has one place instead of 100: full,
empty and blocked then happen within a few events, and nothing in the code
depends on the number. `overlap` needs one change because the passes it overlaps
come from three sources (watcher, sync, SIGHUP). `loop_feed` has more changes
than `eventChan` holds, so that an event is dropped, and as many as fill a watcher's
channel and block the fan-out of the second; the outage and the failing listing come at every point, in
either order. The debouncer of `calls` has enough
events to restart the min timer past the max timer and to fill the input, the
output and the goroutine. Three goroutines in the context part of `calls` are a pass, one that
disturbs it and one that disturbs that one. Three entries of the selection are one
that is looked at and one on either side of it; four strings are two, one that
splits into both and one that splits into the same twice. Four keys are enough for
the shortest list of which a part has no order (`10`, `1a`, `9`) with an entry to
spare; five characters for a value in quotes with an escaped quote in it; two files
for an ID in the second that must win over one in the first. The theorems below hold
without the bounds.

`CHECK_DEADLOCK FALSE` is set everywhere, since the bounded environment runs out
of things to do, docker-gen stops after SIGTERM, and a template function returns.

### Fairness

* `Regenerate`: every goroutine's steps, `Fanout`, `Subscribe` and the ticks are
  weakly fair: the Go scheduler runs every runnable goroutine, calls return, the
  loop retries every ten seconds. The daemon, the user and the faults are not
  fair.
* `EventLoop`: weak fairness of every goroutine and of the library noticing a
  lost connection; `Register` only while the daemon answers. Strong fairness of
  the signal cases: `select` picks at random among the cases that are ready, so
  that it does not pass over a signal for ever while events keep it busy.
  `DaemonUp` is not fair: `TermStops` assumes `<>[]up`, because the loop that
  retries the registration (`generator.go:267`) sleeps and continues without
  receiving from its signal channel, however long the daemon is away.
* A debouncer of `EventLoop` is weakly fair as the goroutine it is; that one of its
  timers fires is part of it, since `time.After` sends.
* `Debounce`: the goroutine, the watcher and the clock; the other parts of `calls` have
  safety properties only. `ImplementsCoalesce` shows that
  this is enough for the fairness `Coalesce` asks for.

### What the violations show

* **`resync`** (`generator.go:273`). The sync runs in the Events goroutine while a
  watcher may still be in a pass for an event from before the connection was
  lost. The watcher lists, the containers change, the sync lists and writes the
  newer state, the watcher writes the older. No event follows.
* **`fatal`** (`template.go:179`). A process that exits between a write and its
  notifications leaves a file that the next process finds equal to what it
  renders: it skips the notification, and the reader keeps the old contents until
  the next change.
* **`loop_fault`** (`generator.go:133`). `generateFromContainers` returns at the first
  listing that fails. Of a sync it so leaves out the configs after it too, which have
  nothing on their way while the connection holds. If the walk went on, as the loops of
  watchers and tickers do, a failed listing would leave out its own config only:
  `OnlyFailedLeftOut` then holds.
* **`loop_hangup`** (`generator.go:586`). A channel of one signal drops SIGTERM
  while it holds a SIGHUP. If that is the Events goroutine's channel, the
  watchers' channels are never closed and `wg.Wait` never returns.
* **`context_id`** (`context.go:45`). Between `SetServerInfo` and
  `SetCurrentContainerID` of one pass the template of another sees no ID.
* **`where_all`** (`where.go:80`). `whereAll` compares the number of different strings
  it has found with the number it was given. Given `a` and `a`, it finds one where two
  are asked for, and does not select the entry with `a`.
* **`usage`** (`main.go:237`, `main.go:120`). With `exposed=80` and
  `-only-exposed`, the filter has both `exposed` and the default for `expose`; the daemon
  does not know the first. The same of `published` (`main.go:122`). Without these names
  the property fails for a repeated one (`main.go:67`, `main.go:126`): `status=exited` and
  `status=running` list the containers with either status, where none has both. What
  holds of the option holds of the variable that stands in for it.
* **`quote`** (`nginx_quote.go:98`). The double quote in `''"'` does not count as
  unescaped, because the value begins and ends with a single one; the single quote
  in second place does. So only one sort is seen, the value is put in double quotes,
  and the word ends for nginx at the one in the middle.

## 4. Theorems

All are theorems of a module's specification (`Spec`, or `IDSpec`, `DebounceSpec`, ...
where `MCCalls` extends several), for all values of the constants that satisfy the
named assumptions (`ConfigAssumption`, `GoroutineAssumption`, `LoopAssumption`,
`WaitAssumption`, `StoreAssumption`, `SelectionAssumption`, `AddressAssumption`,
`SortingAssumption`, `DeepGetAssumption`, `QuoteAssumption`, `ContainerIDAssumption`,
`FilterAssumption`). They say what sort of thing each constant is: capacities and
counts are numbers, goroutines with different names are different, a comparison of
numbers or strings is an order, lists and keys are sequences. Each theorem rests on an
invariant that is inductive, named below, which is more than the property wherever
the property says nothing of the middle of a call.

### The goroutines

* `RegenerateProofs!TypeCorrect`: `TypeOK` is inductive.
* `RegenerateProofs!NotificationSafe`: `NoLostNotification`, assuming that no
  notification fails and the process does not exit (with either, it is false).
  Inductive together with `TypeOK`: a goroutine that changes a file owes its
  notifications from then on, and a notification loads the file as it is. The
  lemmas on `Owes` say which step discharges what.
* `RegenerateProofs!PassesExclude`: `OnePassPerDest` assuming `WatchersAlone` (no
  tickers, one watcher per config, no SIGHUP, no lost connection; without one of
  these, passes overlap). The inductive invariant `OnePassInv` says why: a
  watcher wakes only when the listener is registered and the Events goroutine is
  idle, and the initial pass is over by then.
* `EventLoopProofs!TypeCorrect`, `EventLoopProofs!FeedSafe`: `NoMissedChange`
  through `FeedInv`, which adds that a connection is live only while the daemon
  is up, and `ShutInv`, that the watchers' channels are closed only once the Events
  goroutine is done: a debouncer that returns, and forgets an event, does so after
  that. The argument goes through what
  makes a config pending: an event hands the duty to the fan-out, the fan-out to the
  queue, the queue to the pass or, through the debouncer and its output, to the pass,
  a lost connection to the sync, and a dropped event to the event that fills the
  channel. A listing may fail at any time; if the connection holds then, its configs
  are in `lost` and excepted, and if it does not, the reconnection is on its way
  (`FailFeed`).
* `EventLoopProofs!FeedRefined`: the initial states of `EventLoop` are initial states of
  `ChangeFeed`, and its steps are steps of it or stutters. `FeedMoves` sorts the steps
  by what they do to the variables the mapping is made of; `ListedInv` (nothing
  is generated from a version that is yet to come) makes a change leave every watched
  config to be generated, and `FeedInv` is needed for the failing listings, which
  `ChangeFeed` allows only while the daemon is up.
* `EventLoopProofs!MergesRefined`: `DebouncersCoalesce`. `ShutInv` again, since
  `Coalesce` is handed nothing after it has been closed.
* `DebounceProofs!TypeCorrect`, `TimersArmed` (`ArmedIffPending`), `MaxCaps`
  (`NotOverdue`), `PacedOnly` (the action property `Paced`): one invariant,
  `DebounceInv`, which says that a timer and its history add up to `Min` or `Max`
  (`TimersCount`), runs only in the select, and that what is about to be sent is
  new.
* `DebounceProofs!CoalesceRefined`: the debouncer with its clock starts and goes on as
  `Coalesce`, by `DebounceInv`: a timer fires only while an event is kept. With
  `MergesRefined`, the debouncers of `EventLoop` and the one with the clock are two
  views of the same steps.
* `ContextStoreProofs!TypeCorrect`, `IdReturns` (`IdComesBack`),
  `CurrentStaysAvailable` (`CurrentAvailable`): `StoreInv` counts the failures a
  goroutine that found nothing has been through.

### What is computed once

* `StartProofs!IDTypeCorrect`, `HostnameFirst` (`HostnameWins`), `ContainerFound`
  (`NeverALayer`), for any files: `NoneSoFar` says that the lines this pass has been
  over offer nothing it looks for, and `FirstPassDone` that the second pass is made
  only when the first has found nothing anywhere. A line is readable if all lines
  before it are, so `ReadSoFar` is needed to step over the end of a file.
* `StartProofs!FilterTypeCorrect`, `ContainersListed` (`ListsAsDocumented`), for any
  arguments: `CollectedSoFar` says which arguments the map holds, by source; the
  defaults are then a case for each name of a filter, and where a name has one value,
  one that fits is all that fit. The theorem has the hypothesis of the property,
  `Undisputed`, since `usage` shows that it fails without.

### Template functions

* `SelectionProofs!TypeCorrect`, `SelectsDescribed` (`SelectionExact`),
  `FailsExactly` (`FailsOnNoString`), `GroupsDescribed` (`GroupsExact`), for lists of any
  length: the loop invariant `SelectionInv` says that what has been selected or grouped
  is what is described among the entries looked at, and by `whereAll` nothing if a
  string is given twice (`Selected`). The core is `AllFound`: the code's comparison of
  two numbers in `whereAll` is true if and only if every string was found and none was
  given twice, which rests on `DifferentElements` (a list has as many different elements
  as places if and only if none is repeated). `SelectsDescribed` therefore has the
  hypothesis that none is.
* `TemplateProofs!AddressTypeCorrect`, `OneOrder` (`AddressOrderFixed`),
  `EachPortRendered` (`AddressesExact`): `RenderedSoFar` says that the ports that have
  come up, in whatever order, are rendered and none twice. Then an arrangement without
  a descent has no two equal neighbours, and since the order is transitive it is the only
  one (`NoDescents`).
* `TemplateProofs!SortTypeCorrect`, `NothingLost` (`NeighboursInOrder`), `SortedStably`
  (`SortsStably`): `SortInv`, with one part that needs no order of the keys
  (`NeighboursSoFar`) and one that does (`StableSoFar`). That nothing is lost is counting:
  a list of n different positions below n + 1 has all of them (`OneToEach`).
* `TemplateProofs!DeepTypeCorrect`, `FoundWhatIsThere` (`FindsWhatIsThere`): what is
  reached is there (`ReachedSoFar`), and is all that is there unless a shorter key stands
  before a longer one. `There` is a recursive function over the parts of a path, and that
  it is defined at all (`ThereDefined`) is proved by a least counterexample.
* `TemplateProofs!LabelsFoundByName` (`LabelsFound`): `Passes` lists the five places where
  the lookup of a label can be.
* `QuoteProofs!OneWordForNginx` (`ReadAsOneWord`), `QuotesOnce` (`QuotedOnce`),
  `FailsOnlyAsDocumented` (`FailsAsDocumented`), for values of any length over any
  characters. The invariant `CallsSoFar` only says which calls have been made; the work is
  about the operators. Whether a character is escaped is the parity of the backslashes in
  front of it, of which `EscapedAfter` makes a recurrence (a character is escaped if and
  only if a backslash stands before it that is not), and `EscapedShifted` carries it
  from a value to the value in quotes.

### Model-checked only

Everything under fairness (`DestFollowsDocker`, `IntervalFollowsDocker`, `TermStops`,
`EveryEventArrives`, and what `ImplementsFeed` and `ImplementsCoalesce` say beyond
`FeedRefined` and `CoalesceRefined`), because liveness is beyond the proof system, and the
properties that fail. Every other property that a run checks is a theorem.

## 5. Assumptions about what is not in the repository

* go-dockerclient: a listener that was added receives every event until the
  connection is lost; an event is dropped, not queued, when the channel is full;
  on a lost connection the library closes the channels of its listeners and
  forgets them; adding a listener while the daemon is down may fail or may
  succeed and be found out later.
* os/signal drops a signal for a channel that is full. SIGINT is SIGTERM here.
* `os.WriteFile` truncates, then writes from offset 0; other steps may come
  between. A write is one step.
* The daemon answers a listing with the containers that fit all values of `label` and
  one value of `status`, `publish` and `expose`, where there are any, and refuses a filter
  whose name it does not know.
* Any call of the API may fail, with the daemon up or down.
* Commands and API calls return. No property covers a notification command that
  never does, which stops its watcher, then the fan-out, then the answer to SIGTERM
  (hazard at `generator.go:336`): nothing in the code would end it. A reader loads the file as soon as it is
  notified.

## 6. Not modelled

* `retry = false`, which only tests set.
* Two configs with the same `Dest`. The overlap of passes over one file is
  covered through the goroutines that share a config.
* Negative `Wait` durations, which `ParseWait` accepts; a timer fires at once then.
* Several config files. Each is decoded into the same slice, and what is left of the
  earlier ones is up to the TOML library (hazard at `main.go:97`).
* `mustBeOneOf`, `mustBeInt`, `nginxMustParseHSTS`, YAML: one check after the other on one
  string, of which a property would be a second copy.
* The errors of the template functions for an argument that is no list
  (`getArrayValues`), returned before any loop.
* The docker client's address parsing, whose result is thrown away but for its error,
  and image names: string splitting without state.
* Of the functions of `functions.go`, all but `intersect`: one call of the library each,
  or one loop.

## 7. Plan

1. Proofs: what the theorems about `Regenerate` assume could be less. `NotificationSafe`
   excludes a failing notification altogether, where it would do to say that a reader
   is behind only if one has failed.
2. `DockerGen`: `EventLoop` with the passes of `Regenerate` in place of one-step passes.
   The product of the two is beyond TLC even for one config; it needs an abstraction
   of the passes first.
