# Verification of esp32-idf-ascom-alpaca

TLA+ models, TLC runs and TLAPS proofs for the ESP32 component that serves ASCOM Alpaca
devices over HTTP and answers Alpaca discovery over UDP. Paths are relative to the repository
root; `src/alpaca_server/` is the library, `examples/` one application of it. Line numbers without
a file are of `src/alpaca_server/api.cpp`.

## 1. Inventory

| Part | Where | State it keeps | Operations |
|---|---|---|---|
| UDP server task | `udp_server.c` | its socket, receive buffer, the message queue | open, bind, receive, queue, pause, close |
| Discovery task | `discovery.c` | one message | receive from queue, compare, reply |
| API object | 26-171, `api.h` | devices by type, transaction counter, mutex, error table | construct, initialize, register |
| Routes | 12-23, 173-484 | the URI handler table of each HTTP server | register per device, by type |
| Request parser | 486-694 | one request per handler call | query, form body, device number, transaction id |
| Replies | 696-815, 887-915 | the JSON trees of the request | JSON reply, HTTP error, error fields |
| Server strings | 86-112 | pointers to strdup'ed texts | construct, set_server_name, set_location |
| Management handlers | 817-885 | - | apiversions, description, configureddevices |
| Device handlers | 917-4517 | - | 106: 12 common ones that every device gets, and those of 8 types |
| Telescope handlers | 4519-7287 | - | 77, never registered (481-484 is empty) |
| Device interfaces | `device.h`, `device.cpp` | unique id, number | virtual methods a driver overrides |
| Example application | `examples/main.cpp` | - | one HTTP server with 32 routes, one Dome, discovery |
| Example driver | `examples/roll_off_roof.*` | shutter state, azimuth | a stub of a roll-off roof as a Dome; it does not compile as it stands (section 6) |

How they interact. `udp_server_task` and `discovery_task` share a FreeRTOS queue; a message
carries the *number* of the socket it came through. Both share lwIP's socket table with the
HTTP server. An `httpd` task calls the API's handlers one request at a time; an application may
register one `Api` with several servers, and then handlers run concurrently and share the
transaction counter under `_mutex`, and the drivers under nothing. `set_server_name` and
`set_location` are called by the application while handlers read the strings.

What is hard here: a descriptor number that outlives its socket; a socket table at its limit; a
receiver task that may end; a request body that arrives in pieces while the code reads one; JSON
trees that every exit path must free; a counter shared by tasks, and shown in a narrower field; a
handler table at its limit; identifiers computed from a field nobody sets; strings freed under
their readers; allocations that fail halfway through startup. `PROJECT.json` lists these hazards at their lines.

What makes each part correct:

- *Discovery*: every datagram accepted is settled, once, according to what it says; replies leave
  through the socket the request came by; no descriptor leaks; the responder listens again after
  each close, as long as there are a descriptor and memory for its socket.
- *Requests*: every request gets one reply, with its own numbers; numbers tell replies apart
  and count requests as far as their field goes; a driver is called only with valid values the
  client sent, and no handler refuses a request with an HTTP error once it has called the driver;
  the heap keeps nothing of an answered request.
- *Routes*: a route leads to a device of the type its handler casts to; every endpoint of every
  device has a route that leads to that very device; unique ids are written before they are
  listed, and unique; the numbers clients know survive a restart; startup succeeds when there is
  room.
- *Server strings*: no block is lost, shared or freed twice, also when there is no memory for the
  new text; a description is always sent, and shows the current texts unless a setter was at work
  on the very string being read.
- *Example driver*: what it says it cannot do it refuses, and nothing else.

## 2. Modules

    AlpacaEndpoints                                        DiscoveryService   (abstract)
      |- TelescopeEndpoints                                      ^ implements
      |    |- AlpacaRequests                                 Discovery
      |         |- AlpacaService (abstract)                    |- DiscoveryProofs
      |         |      ^ implements                            |    |- DiscoveryLiveProofs (+)
      |         |- AlpacaApi                                   |- MCDiscovery
      |              |- AlpacaApiProofs (+)
      |              |    |- AlpacaServiceProofs           ServerStrings   RollOffRoof
      |              |- MCAlpacaApi, MCAlpacaTable              |            |
      |- AlpacaRoutes                                           |-Application-|
           |- AlpacaRoutesProofs                                      |- ApplicationProofs
           |    |- AlpacaServedProofs (+)                             |- MCApplication
           |- MCAlpacaRoutes
                                                           (+) also extends Descent

Lines down are EXTENDS. The specifications (all of which are proved about) use no RECURSIVE
operator, and take what is environment or configuration as CONSTANTS with named assumptions. In each of them some definitions carry the comment "Wrong on
purpose": plausible mistakes in the definition that follows. No behaviour uses them; exchanged for
the right definition (`PROJECT.json`, "mutants") each one must make TLC report the property that is
there to catch it. `Descent` models nothing: it has the induction that the proofs of liveness use.

### Discovery: `udp_server.c` and `discovery.c`

`StartUdp`, `StartDiscovery` and `CrashAtStart` are `alpaca_server_discovery_start` in `app_main`,
which looks at no result. A task that cannot be created is missing from then on (`"failed"`). If
the handle or the queue cannot be allocated, the code goes on with a handle that is null or was
freed, and if the arguments cannot be, it writes through a null pointer; all of it is modelled as
the crash it ends in, whatever `udp_server_task` did until then: the chip restarts, HTTP server
included, and what the responder held is lost.

`UdpTask` is `udp_server_task` (udp_server.c:22-123), cut at the calls another task or the network
can come between: `UdpSocket`, `UdpBind`, `UdpRecv` or `UdpTimeout` (recvfrom with SO_RCVTIMEO of
10 ms), `UdpEnqueue` or `UdpQueueFull` (xQueueSend, which waits 10 ms), `UdpDelayDone` (the 100 ms
pause after a datagram) and `UdpClose`. `socket()` fails when no descriptor is free and, unless
`SocketResults` is {TRUE}, at any other time for lack of memory; either way the task ends
(udp_server.c:44-48). `DiscoveryTask` is `discovery_task` (discovery.c:18-53):
`DiscRecv` takes a message and compares it, `DiscSend` replies through the number the message
carries. The environment sends datagrams (`Arrive`) and opens and closes HTTP connections.

lwIP and FreeRTOS are modelled from how the code uses them: `owner` is the socket table, which
hands out the lowest free number; `mailbox` is what lwIP keeps for the bound socket; `queue` is
the queue of `udp_message_t`. What a datagram says is one of four classes: those that
`strncmp(data, "alpacadiscovery1", length)` tells apart. `fate` is a history variable: what became
of each datagram.

`DiscoveryService` is what a client may rely on: UDP may lose a datagram, but one that is not lost
is answered or ignored by what it says, once. `outcome` maps `fate` to it.

### Requests: `AlpacaEndpoints`, `TelescopeEndpoints`, `AlpacaRequests`, `AlpacaApi`

`AlpacaEndpoints` is the table of handlers a route leads to. The 106 device handlers and the three
management handlers share their prologue and epilogue; a record says what distinguishes one: its
route, the parameters it looks up, in the order it does, the conversion of each (bool, `atoi` with
a round trip, `strtol`, `strtod`, text), whether the case of the key counts, and the kind of value
it replies with. With the 12 common ones repeated for each of ten types that makes 214 endpoints.

`TelescopeEndpoints` is the same for the 77 telescope handlers (4521-7287). No route leads to them,
as `register_telescope_routes` is empty: they are modelled as what a caller of the handler gets, so
that the day somebody registers them, the models say what happens. `Meanings` says what a handler
may make of a parameter: arguments, a refusal, or the end of the program. The telescope's own part
of it: most setters look for numbers and Booleans in a body that only ever holds strings, and get
NaN, which no comparison with NAN refuses, or whatever integer its conversion gives (`LostKinds`);
`utcdate` makes a `std::string` of a null pointer; and those without parameters hide the error of a
driver behind a 400 (`hidesErrors`).

`AlpacaRequests` has what `parse_request` (548-694) and the handlers read from a request: the
split of query and form into the client's numbers and key=value items, items without `=`, which
swallow the next one (`Readable`), the lookup of a parameter, and the replies: which message an error
code gets after it is cut to 16 bits (`MessageFor`), and what an unsigned number looks like in a
signed field (`Shown`; `IdRange` stands for 2^32, the range of the `uint32_t` counter). Values are seven classes of strings: those that
the conversions tell apart.

`AlpacaApi` is the life of a request. One task per HTTP server runs one handler at a time:
`Accept` (the server calls the handler and the body tree is allocated), `Lock`, `Load`, `Store`
(`_mutex` and `++_server_transaction_id`, 603-605), `Parse` (the rest of `parse_request`), then
`Refuse` (no such device, or a query that is too long), `RejectArguments` (400, before the driver
is called), `Abort` (utcdate), `CallDriver` (any of `DriverErrors`, or none) or `Describe` (a
management handler), and `Reply`, or `RejectFailedCall` of a handler that hides errors. `heap`
holds the JSON trees; `SegmentedBodies` says whether `httpd_req_recv` may return only the first
part of a body. `counter` and `tx` are the code's `uint32_t`s, modulo `IdRange`; `drawn` and `order`
are history: how many requests have been numbered, and as which one each was.

`AlpacaService` is what the API promises: requests are numbered in some order, and each is
answered once, by what it says alone. It says what a request *means* with quantifiers over its
items (`Gives`, `Echoes`), not with the buffers and filters of the code, and has no tasks, mutex or
heap. What it shares with the model is what no document of the repository decides: how a text is
cut into items (`Readable`), what a handler may make of a value (`Meanings`), which reply may be cut
off (`Prints`), the message of an error code (`MessageFor`) and what a number looks like (`Shown`).
About these five the refinement therefore says nothing; `DriverSeesValidRequests`,
`RepliesTellApart` and `RepliesCountRequests` judge `Meanings` and `Shown` on their own, and nothing
judges the other three (the hazards say so).

### Startup: `AlpacaRoutes`

`app_main` from reset to serving: `Construct` (the constructor sorts devices by type, 81-84),
`Begin` to `End` (`register_routes`, once per server: `ClearId` and `WriteId` of `initialize`, with
`memset` and the hash as two steps because a server already running may list the id between them;
`RegisterManagement`; `RegisterDevice` per device), `Abort` (ESP_ERROR_CHECK) and `Restart`. `List`
is a client that asks for the configured devices at any time after their route is there.
`Dispatch` is how a handler finds its device: the number in the URI, read into a byte, indexes the
vector of the type. `number` is `Device::_number`, which the code reads and nothing assigns: a new
device finds any of `LeftoverBytes` in it. The MD5 hash is taken to be injective. Registering the
12 to 37 routes of a device is one step: between them no property looks at the table, and the step
fails if one of them would.

### An application: `ServerStrings`, `RollOffRoof`, `Application`

`ServerStrings` has the pointers of an `Api` and the blocks `strdup` gave. `Release` and `Replace`
are the two halves of a setter (102-112): after `free` the member still points at the old block,
and `strdup` may return any free block or NULL. A description (831-848) reads each of the four
members in turn: `Fetch` takes the pointer, `Copy` copies what it points at, which is anything if
the block is free by then. `current` and `unsettled` are history: what each string was last set
to, and whether a setter was at work on a string since its pointer was fetched. A string for which
`strdup` failed is left out of the description (cJSON adds nothing for NULL), and `current` says
so. The constructor gives the strings blocks of their own; which ones makes no difference
(`Layout`).

`RollOffRoof` is the example's driver: each command with the member it assigns or the error it
returns, the answers of `get_can...`, the conversion of an azimuth to hundredths of a degree, and
members that only a command initialises. `Hundredths` cuts the fraction off, and the product of two
floating-point numbers may lie just below a whole one. With the 24 bits of a `float` that is so up
to 10485.76 degrees (`MaxAzimuth`), to which the assumption on `Azimuths` keeps; azimuths beyond it
count as `Unfit`, like those no `uint32_t` can hold, and give any of `Leftovers`. The readings only show a
member. As it stands the driver does not compile: get_altitude, get_azimuth, put_slewtoaltitude,
put_slewtoazimuth and put_synctoazimuth are declared `float` and `override`
(roll_off_roof.h:26,29,48-50), while the methods of Dome they are to override take `double`
(device.h:131,134,153-155). Modelled is the driver that is meant, with its `float`s.

`Application` puts the two together: tasks of HTTP servers, each with one request at a time, which
describe the server or command the roof; tasks that call the setters; and restarts, which bring
back the configured texts and a new, uninitialised roof. A restart leads to an initial state again,
so none needs a bound.

## 3. Runs

| Run | Property checked | Instance | Distinct states |
|---|---|---|---|
| `discovery_prompt` | that no task waits for nothing, replies through their own socket, nothing discarded, refinement of DiscoveryService, both liveness properties | 2 datagrams, 3 descriptors, 2 connections, queue and mailbox of 1 | 41,202 |
| `discovery_slow` | types, descriptors and that one is left for each socket, conservation, that no task waits for nothing | 3 datagrams, mailbox of 2, sockets, binds and allocations may fail, `discovery_task` arbitrarily slow | 1,785,422 |
| `discovery_prefix` | OnlyExactAnswered, violated | as `discovery_prompt`, mailbox of 2 | - |
| `discovery_no_spare` | RestartsAfterClose, violated | 2 descriptors for 2 connections | - |
| `api_tasks` | types, one task per request, the numbers of requests and replies, refinement of AlpacaService, liveness | 3 requests, 2 tasks, 4 kinds of request, a counter of two values | 79,942 |
| `api_table` | heap, what drivers see, no refusal after a driver's call, a step for every handler at every place, refinement of AlpacaService | 1 request at a time, over all endpoints and telescope handlers and every way to give their parameters | 39,079 |
| `api_cut` | DriverSeesValidRequests, violated | bodies in pieces | - |
| `api_leak` | NothingLeaks, violated | 1 request | - |
| `routes` | all of AlpacaRoutes but the two below, liveness | 3 devices of 2 types, 2 servers, 2, 63 or 64 slots, 1 restart | 8,192 |
| `routes_example` | NeverAborts, violated | the example's Dome and 32 slots | - |
| `routes_ids` | IdsAreUnique, violated | 2 devices of one type and name | - |
| `application` | blocks, double frees, readings undisturbed by setters, the roof's refusals, liveness | 4 blocks, 2 texts, 1 setter, 1 HTTP task, 2 azimuths and one no integer can hold | 184,596 |

**Why the bounds are enough.** `QueueLen` and `MailboxLen` stand for 10 and 6: the code asks only
whether there is room and whether there is something, so one and two places show empty, full and
in between, and the theorems hold for any length. Three datagrams are one in each of mailbox,
queue and the hands of a task. Two HTTP connections against two or three descriptors are the two
sides of the limit. Two tasks and three requests let a request come in while two others are half
done; the mutex and the counter have no other case. `api_table` needs one task only, since
`api_tasks` shows that tasks do not disturb one another; its inputs give every parameter of every
endpoint missing, in each of the seven values, in the wrong case and twice, in query and form,
the other parameter being plain, and mix client numbers with parameters for endpoints of none, one
and two parameters. Three devices are two of one type with another between them; 64 routes are what
they need, 63 one too few, and 2 do not even hold the management routes. One restart shows what a
restart changes. `IdRange` stands for 2^32: with two numbers the counter wraps within three
requests, the number shown turns negative, and the third request repeats the first one's. The table's one driver error has a message only after its cut to 16
bits, the one of `api_tasks` has none; `SegmentedBodies` is on in `api_cut` only, since without
whole bodies what it refutes is refuted everywhere.

In `application` four blocks hold the four strings with none to spare, so a setter gets back the
block it freed, which is the worst case for a reader; if the constructor lacked memory for one
string, one block is to spare and the setter may get another. Two texts tell a string from the one
it replaced. One HTTP task suffices, as readers do not write what others read, and the theorems hold
for any number of them. 10 thousandths of a degree are exactly one hundredth, which the product may
miss from below, and 29 just short of three; nan stands for all that are `Unfit`.

`CHECK_DEADLOCK FALSE` stands in the three runs of AlpacaRoutes: there the system does stop, when
`app_main` has nothing left to register and the restarts are used up, or aborted at that bound.
`api_tasks` has an explicit idle step (`Quiet`) instead: the tasks wait for requests.

## 4. Fairness

- `Discovery`: weak fairness of `app_main` until it has started the tasks, and of each of the two.
  Both are FreeRTOS tasks of equal priority that block with a timeout or on the queue; the scheduler runs a task that stays ready. Nothing is
  promised of the network or of HTTP connections.
- `AlpacaApi`: weak fairness of each task's handler. No strong fairness of the mutex is needed: its
  holder needs two steps of its own to release it, and every request goes through it once, so with
  finitely many requests the others get it. Nothing is promised of clients. A driver that never
  returns is excluded by this: drivers are the application's.
- `AlpacaRoutes`: weak fairness of `app_main`'s steps taken together. Nothing is promised of
  restarts: at most `MaxRestarts` happen, so there is a last one.
- `Application`: weak fairness of a handler that describes the server: it waits for nothing. Nothing
  is promised of clients, setters or restarts. A restart ends the description in hand, which counts
  as its end: the connection is gone.

`PromptReplies` is an assumption about time, not fairness: `discovery_task` handles what is queued
within the 100 ms that `udp_server_task` sleeps after each datagram (udp_server.c:112). What does
and what does not depend on it is told apart by the runs `discovery_prompt` and `discovery_slow`,
and by the hypotheses of the theorems.

## 5. Proofs

All theorems hold for any value of the constants that satisfies the named assumptions in the
module that declares them: that a "no such thing" value is not a thing, that sizes are numbers,
that inputs are well-typed. Some assume more, in their statements: four of Discovery a spare
descriptor or prompt replies, two of AlpacaService that bodies arrive whole (`api_cut` shows that
without it they are false), `RoutesLead` and `EveryDeviceServed` at most 256 devices, and three of
the application that one task calls the setters (with two, both may free the same block, and no
document says that they may be called at once).

**DiscoveryProofs.** `TypeCorrect` and `NoDescriptorLeaks` (SocketOwnership) rest on `CoreInv`,
which adds `Control`: the task has a datagram in hand exactly while it is about to queue it, and
`discovery_task` a real message while it is about to reply. Without it the queue's type and the
effect of `close` would not be preserved. `SocketAlwaysFindsDescriptor` assumes HttpSockets <
NumSockets: the invariant `HttpBound` counts the connections, so when the task has no socket one
descriptor is free, whatever failed before. That leaves the lack of memory as the one thing that can
end the task: that it never ends is no theorem.
`PromptRepliesAreSafe`, `PromptQueueNeverFull` and `ImplementsService` assume PromptReplies: by
`Pacing`, whatever is queued or about to be answered came in through the open socket, and the task does not leave its
pause before it is done with. `NothingLostTrackOf` (Conservation) goes action by action over the
four places a datagram may be in. `ImplementsService` combines the invariants: every step is a step
of DiscoveryService under the mapping or leaves it alone; `UdpClose` and `CrashAtStart` are the
steps that end several datagrams at once.

**AlpacaApiProofs.** The lemma `Steps` splits every step into the beginning, the end or the
continuation of one handler, and `Endings` and `Continuing` say what these have in common, so the
invariants do not each go over all actions. `OneHandlerPerRequest` is inductive together with the
types.
`UniqueNumbers` needs `NumbersInv`: only the holder of the mutex is between the load and the store
of the counter, and what it loaded is still the counter (`Mutex`); each request has a place of its
own in the order of the draws (`Numbered`); and the counter is the number of draws, a request's
number its place, both modulo IdRange (`Wraps`). So two requests share a number only if the counter
went all the way round between them. `OwnNumbers` and `TreesAreFreed` (HeapAccounting) follow from
the same invariant. `ErrorsComeFirst`, an action property, is about the step that answers: if it sends
an HTTP error after the driver was called, the handler is one that hides errors and the driver has
just failed.

**AlpacaServiceProofs.** `NumbersTellApart`: numbers less than IdRange apart have different
remainders, and `Shown` is injective on remainders. `NumbersCount`: `Shown` changes a number by a
multiple of IdRange at most, so the difference of two numbers in replies is, modulo IdRange, that of
the places in the order; it says what is left of "numbers grow" in a field that wraps and turns negative. For `ValidCalls` and the refinement, `KnowledgeInv` says what a task
knows at each place: when it handles or replies, what it parsed is what the whole of its request
says; until it has called the driver nobody has; and what a driver was called with is among the
`Arguments` of that. `ValidCalls` covers every endpoint that has a route without exception, as no
parameter of theirs is of one of the `LostKinds` (`PlainEndpoints`, proved from the table); in the
telescope handlers, which no route reaches, it leaves out the parameters whose kind loses the value:
there the driver gets NaN or an arbitrary integer instead of what was sent. `FoundFirst` and
`LastNumber` tie the code's lookup (the CHOOSE of a least or greatest place) to the quantifiers of
AlpacaService. `ImplementsAlpacaService` then goes over the actions: `Accept` submits, `Store`
numbers, `CallDriver` performs, the replies answer, all others stutter. That the 214 + 77 endpoints
have the types their devices have is a fact about the table, proved group by group.

**AlpacaRoutesProofs.** `RoutesLead`: with at most 256 devices, a route leads at all times to a
device of its type. `Sorted` says that each device sorted so far stands at one place under its type
and that there are no routes before all are sorted; `Routed` that a route's number is below the
number of devices of its type; the bound makes the byte of the parser harmless. `ListedIds`:
`Identified` says what `initialize` has written at each of its places, for which `Sorted` must know
that the places of a type are distinct and cover its devices. `TypeCorrect` also says that the
loops end where they should. `DifferentNamesSuffice` is the other side of the finding about
`_number`: whatever the heap left there, the ids are unique if no two devices of a type share a
name and no name ends in a digit (`NamesTell`). The name, the type and the number are hashed one
after the other without a separator; `SplitAgain` finds the end of the name again, and `TypeShows`
reads the type, which is 1 to 10, off the digits: only that of 10 is followed by a 0 that more digits
follow. With names that end in a digit "a" of type 1 and "a1" of another could meet.

**AlpacaServedProofs.** `NumbersHold`: `Placed` says that the constructor puts each device at the
place its predecessors of the same type leave it, so two startups with the same list agree.
`AbortsNeedFull`: by `Registered` the server being registered has exactly the management routes
and those of the devices its loop is past, none of which is one of the next device's; so a refusal
means too few slots. That needs the sets
of routes to be finite, which is proved from the table of endpoints. `EveryDeviceServed` adds that
at the end the set is all of `WantedRoutes`, and the byte of the parser as in `RoutesLead`.

**ApplicationProofs.** `RoofKnowsItsLimits` rests on `RoofInv`, which adds the types: answers agree
with `Abilities` command by command. For the strings, `StringsInv` joins BlocksBelong, FreedOnce,
`TextsBelong` (a settled string's block holds what it was last set to) and `PointersHold` (a reader
that no setter disturbed holds the member's pointer): the last two make a quiet reading current.
One setter task (`OneSetter`) is needed where `Release` finds the block in use.

**Liveness.** Each of the five liveness properties of the passing runs is a theorem of this form:
fairness, and a hypothesis that says when a task can take a step, imply the property.

| Theorem | Module | Beyond FairSpec it assumes |
|---|---|---|
| `ResponderKeepsListening` | DiscoveryLiveProofs | TasksNeverWait; a spare descriptor; memory for the tasks and for every socket, and binds that succeed |
| `DatagramsSettle` | DiscoveryLiveProofs | TasksNeverWait; `discovery_task` could be created |
| `RequestsAreAnswered` | AlpacaApiProofs | HandlersNeverWait; no `Abort`; finitely many tasks and requests |
| `StartupSucceeds` | AlpacaServedProofs | StartupNeverWaits; finitely many servers |
| `DescriptionsAreSent` | ApplicationProofs | DescribersNeverWait (its Spec has the fairness) |

The four hypotheses `...NeverWait` say, with ENABLED, that a task which waits for no other has a
step to take: `udp_server_task` at every place but the pause, `discovery_task` when there is a
message, a handler unless another task has the mutex, `app_main` until it serves or has aborted, a
description until it is sent. The prover has no rule for ENABLED. Two of them are something a change
of the code may break, with queues, a mutex and a mailbox to wait for: `TasksNeverWait` and
`HandlersNeverWait` are invariants of the runs `discovery_prompt`, `discovery_slow` and `api_table`,
where TLC evaluates ENABLED in every state. The other two, `StartupNeverWaits` and
`DescribersNeverWait`, are about code that has nothing to wait for, and stand only in the modules of
the proofs; the runs `routes` and `application` check the liveness itself, whose weak fairness has
the same ENABLED in it. What all four rest on is proved. ENABLED A says that some next state makes A a
step; four theorems name that state, for all constants. Each defines a `...Move` that gives every
variable one value and has no guard, so that some state satisfies it after every state, and
shows that in the states the hypothesis speaks of it is a step of the task which changes something:

| Theorem | Module | The moves, and where they are steps |
|---|---|---|
| `TasksGoOn` | DiscoveryLiveProofs | `StartupMove`, `UdpTaskMove`, `DiscoveryTaskMove` in CoreInv: a free descriptor has a lowest one (`LowestExists`), a full queue drops |
| `HandlersGoOn` | AlpacaApiProofs | `HandlerMove` in TypeOK: a handler that neither refuses nor aborts has arguments for its driver (`ArgumentsExist`). Also, by `Mutex`, the handlers never all wait |
| `StartupGoesOn` | AlpacaServedProofs | `StartupMove` in TypeOK: a loop that is not done has a first type left (`SomeTypeIsNext`), and what is not accepted aborts |
| `DescribersGoOn` | ApplicationProofs | `DescribeMove` in StringsTyped |

What is left to TLC is only to turn "this is a next state" into ENABLED. All the rest is proved:
which step takes a task from where to where, that nothing sets it back, and that the steps that
remain become fewer.

That is an induction over a number, which depends on the behaviour. The formula the induction is
over is temporal ("from at most n jobs on, the startup ends"), so it cannot be the function
that an induction theorem wants; but in each behaviour there is a table of the numbers for which it holds,
and `Descent` does the induction on the table (`SomeTruths`, `Induction`).

- `DatagramsSettle`: a datagram moves up in the mailbox, then in the queue (`MailDrains`,
  `QueueDrains`), unless it is dropped or lost with its socket, which settles it too. In the pause
  the one task waits for the other, which `Pacing` says will come.
- `ResponderKeepsListening`: the places of `udp_server_task` form a cycle; from the socket on it
  binds, since `SocketAlwaysFindsDescriptor` and there is memory for it.
- `RequestsAreAnswered`: weak fairness of the tasks suffices although a task may find the mutex
  taken again and again: its holder lets it go, and each taking uses up one of finitely many
  requests. `FairnessLasts` says that fairness of finitely many tasks holds from any later
  point on, too, which the prover does not know of a quantified formula.
- `StartupSucceeds`: what one life of the chip has to do is a finite set of jobs (`Left`), of which every
  step of `app_main` takes some away (`StartupProgress`) and only a restart gives them back; an induction over
  the restarts that are left does the rest. No startup aborts, by `AbortsNeedFull`.
- `DescriptionsAreSent`: nine steps, or a restart, which ends the description as well.

**Model-checked only.** `TasksNeverWait` and `HandlersNeverWait` as they stand, with ENABLED in
them; the `...GoOn` theorems prove their content, a next state for each. Every other property of the
passing runs is also a theorem.

## 6. What the code does otherwise than it says

1. `discovery_prefix`: "If the data received == alpacadiscovery1" (discovery.c:37); `strncmp` with
   the length of the datagram also accepts every prefix of the request, the empty datagram included,
   and the request followed by NUL and more.
2. `discovery_no_spare`: "Shutting down socket and restarting..." (udp_server.c:117); if an HTTP
   connection takes the descriptor that a listening responder has just closed, and it was the last
   one, `socket()` fails, the task deletes itself and discovery is over. The property presumes that
   the responder listened once, so it is a restart that fails.
3. `api_cut`: `httpd_req_recv` is called once; of a body that arrives in pieces the rest is ignored
   and the driver called with the beginning of a value.
4. `api_leak`: `send_error_response` does not know of the body tree of the request, so every
   request refused leaks it. HeapAccounting, proved, says that this is the only leak of the handlers.
5. `routes_example`: 32 routes, "adjust to handle the number of routes you have"
   (examples/main.cpp:25); the example's Dome needs 40, so `register_routes` aborts at every
   start. That presumes that the example compiles, which it does not as it stands: five methods of
   roll_off_roof.h (26, 29, 48-50) are `float` and `override`, but Dome (device.h:131,134,153-155)
   declares them with `double`. No run can show a compile error; this run is of the example once it is
   mended.
6. `routes_ids`: ids are to be unique for each device (api.h:60), but `_number`, which alone tells
   two devices of one type and name apart, is never assigned.

## 7. Not modelled

- *Sizes in bytes*: the models say which replies may be cut off at 512 bytes (`Prints`), not when.
  Names, descriptions and lists have no lengths in them. The same goes for stack depth.
- *Values*: seven classes of strings and the client numbers 0, 1 and 12; URL escapes, which the code
  does not decode, are part of a value.
- *set_custom_error_message_handler*: would put an application's function in place of the messages.
  Wording and logging are left out.
- *What the code does where no document says what it should*: items without `=`, messages of error
  codes above 65535, a listing of one server while the same Api is registered with another, readings
  of a roof that was never commanded or was sent to an azimuth it cannot hold, a reader of a string
  that is being freed, a reply through a descriptor that has changed hands. The models do what the
  code does there; the hazards of `PROJECT.json` name them, with a note.
- *More than 256 devices of a type*: the theorems that a route leads to its device assume fewer.
- *Drivers* other than the example's: an error or none, nothing else. That two servers may call a
  driver at the same time is noted as a hazard; no document says what drivers must bear.
- *The destructor of Api*: nothing in the repository destroys an Api while a server runs.
- *Setters called by several tasks at once*: see section 5.
- *Device interfaces*: abstract methods and empty constructors.
- *Camera handlers*: there are none; a Camera has the common endpoints.
- A request with a device number no device has (404): the routes are exact, so none is handed to a
  handler. `Refuse` has the branch, as the code has; only the query that is too long takes it.

## 8. Plan

Done, in this order: Discovery with its abstraction and proofs; the endpoint table; requests, their
abstraction and proofs; routes and proofs; the startup of discovery; items without `=`, error
codes and the width of numbers; the telescope table; the server strings, the example driver and
the application; the proofs of the refinement of AlpacaService and of what the routes promise; the
proofs of liveness; the next states behind the `...NeverWait` hypotheses; `socket()` that fails for
memory and the counter modulo its width.

What could come next, should the code change: lengths of texts, to say how many devices a listing
holds in 512 bytes; and a lock around the server strings, for which `Application` has the
interleavings and `OneSetter` would go.
