# A formal model of alterior

Alterior is a TypeScript framework for Node.js services: a dependency injector, a
module runtime with startable *roles*, a web server, background task workers, an
HTTP client, a build tool, and the asynchronous utilities they share. This
directory holds TLA+ modules translated from that code, TLC configurations that
model-check them on small instances, and theorems checked by TLAPS.

Source paths below are relative to `src/packages/`.

## 1. The system and its components

Everything runs on one JavaScript thread. A synchronous stretch of code is
atomic; interleaving happens only at an `await`, a promise reaction, a timer, an
event of a stream or a socket, or in a callback the caller supplied. Nothing is
persisted by the code itself: the failure that matters is a callback or a promise
that throws, rejects, or never settles, and for task workers a process that dies
while the queue lives on.

| component | state it keeps | operations | what is hard | what makes it correct |
|---|---|---|---|---|
| **Lock, ZoneLock, AsyncZone** (`common/src/locks.ts`, `zones.ts`) | the promise at the end of the chain; the task counts of a zone | `run`, `forToken`, `AsyncZone.run` | many callers before the first callback runs; failing callbacks; nested calls; "stable" is not "finished" | callbacks exclude each other, are served in call order, and a failure does not break the chain |
| **Cache** (`common/src/cache.ts`) | entries with times, table of outstanding fetches, cleanup timers | `fetch`, `insertItem`, `get`, timer | fetches overlapping inserts and expiry, a fetch shared by several callers, eviction by timer | one fetch per key at a time, what is served was stored or fetched, size settles to the limit |
| **RolesService** (`runtime/src/roles.service.ts`) | registered roles, the `running` flag, the configuration | `registerRole`, `configure`, `startAll`, `stopAll`, `restartAll` | starts and stops are asynchronous and overlap | what runs is what the configuration names, each once; stop stops it |
| **Runtime, Application** (`runtime/src/modules.ts`, `application.ts`) | resolved modules, instances, self-test flag | `resolveModule`, `load`, `configure`, `processCommandLine`, `fireEvent`, `start`, `stop`, `shutdown`, `bootstrap` | the graph may be cyclic or share modules; lifecycle order; command line against environment; shutdown racing role stops | imports come first, each module once; events in order; configuration honoured |
| **WebServer** (`web-server/src/web-server.ts`) | the HTTP server objects, request reporters | `start`, `stop`, `listen`, request reporting, `handleError` | `start` and `stop` overlap around an `await`; a second, insecure server; timers of a hung request | at most one listener per server object, nothing listens after stop, a request is answered once |
| **Routes and controllers** (`web-server/src/route.ts`, `controller.ts`, `service.ts`) | mounted routes, middleware, interceptors | `execute`, parameter preparation, `mount` | middleware that never calls `next`, errors at each stage, errors while answering | each request ends with exactly one response and one report |
| **Injector** (`di/src/reflective_injector.ts`, `reflective_provider.ts`, `injector.ts`) | resolved providers, instances, construction counter | `get`, `instantiateResolved`, child injectors, `inject` | cycles, failing constructors, multi providers, lookup across parents | one instance per provider, cycles are reported, only cycles are |
| **Task queue and workers** (`tasks/src`) | handler table, queue (Bull) | enqueue, process | errors in a handler, unknown tasks, completion reported twice | each job is finished exactly once |
| **Dependency-ordered build** (`build/src/build-core.ts`, `main.ts`, `utils.ts`) | visited set, one future per package, queues | `visitInDependencyOrderParallel`, `visitPackageInDependencyOrder`, `AsyncQueue`, `fileSearch` | one package failing while others run; dependency cycles; bounded concurrency | a package is built after what it depends on; the whole ends |
| **HTTP client** (`http/src`) | request and response objects, lazily copied headers and parameters, XHR state | interceptors, `XhrBackend`, testing backend, `HttpHeaders`, `HttpParams`, macrotask wrapper | cancellation racing a response; copies that share arrays | events in order and none after the last; immutability |
| **Logging** (`logging/src`) | listeners, context, file descriptor promise | `log`, `FileLogger.write`, `Trace` | file opened once and shared; writes that overlap | lines reach the file; none is lost after a failed open |
| **Command line** (`command-line/src`, `cli/src`) | the command tree, option values | `prepare`, `process`, subcommands | option precedence | the right runners run, with the right exit code |
| **Terminal** (`terminal/src`) | task tree, idle timer, line budget | `addTask`, `finish`, `delete`, rendering, prompts | timers against additions | finished tasks stay finished; rendering stops only when idle |
| **Annotations** (`annotations/src`) | metadata lists on classes | decorators, `getListForClass` | inheritance sharing a list | a subclass does not alter its base class |
| **Controllers and mounts** (`web-server/src/controller.ts`, `metadata/`) | the tree of instances, what the engine was given | `@Controller`, `@Get`, `@Mount`, `mount` | lists and options that classes share; order of what is given to the engine | a route answers where it is declared, behind the middleware above it |
| **Parameters and responses** (`web-server/src/input.ts`, `route.ts`, `response.ts`) | a response: body and encoding | `@QueryParam` and kin, `prepare`, the factories, `encodeAs`, `throw` | two ways to give a response; a conversion for every type | a parameter gets what the type recorded of it asks for, or the request is refused; which responses are the same thrown and returned |
| **Cloud functions, platform, fastify adapter, testapp, website** | none of their own | adapters | third-party engines | out of scope: thin adapters over external services |

## 2. Plan

Order of work: first the parts everything else runs on and whose order of events
is hardest to see in the code.

| step | modules | composes | abstract specification | state |
|---|---|---|---|---|
| 1 | `PromiseLock`, `PromiseLockFifo` | | `FifoMutex` | done |
| 2 | `RolesService`, `ApplicationLifecycle` | the second drives the first | | done |
| 3 | `ModuleGraph`, `Injector`, `RuntimeLoad` | the third joins the first two | reachability in the import graph | done |
| 4 | `RouteExecution` | | | done |
| 5 | `WebServer` | | | done |
| 6 | `Cache` | | | done |
| 7 | `HttpCollections` | | the updates on values that nothing shares | done |
| 8 | `TaskList`, `TaskFrame`, `DependencyBuild`, `BuildCommand` | the build command, its processes and its task list | order of dependencies | done |
| 9 | `HttpClient`, `HttpExchange` | the methods of the client, the interceptors, the macrotask and two backends | the declared signatures | done |
| 10 | `FileLog`, `TaskWorkers` | a worker with its queue and its log | what the methods did | done |
| 11 | `Annotations`, `ControllerTree`, `RouteParameters`, `Responses`, `WebService` | a service from its classes to its answers | the declared paths | done |
| 12 | `LazyPromise`, `CommandLine`, `Trace` | | | open |

Every safety and action property of a run is proved. Open are:

- The modules of step 12, each with its type invariant and its first safety property.


## 3. The modules

Conventions. A synchronous stretch of code is one action, up to the next `await`,
promise reaction, timer or callback. Code of the application (callbacks, roles,
middleware, fetchers, factories) is free: it succeeds, fails or never settles, and
where the code lets it, it acts in between. Values and messages are reduced to what
the properties tell apart. Variables marked `history` are not in the code. A
definition marked `Mutant` is not part of any specification: it is the preceding or
following definition with a plausible bug, and each property is known to fail when
its mutant takes the definition's place.

**`PromiseLock`** is `locks.ts` and the part of `zones.ts` it uses. `ready` is
`Lock._ready`; `pred[c]` is the promise the call `c` of `run()` captured;
`pc[c]` is how far that call has come and `body[c]` how far its callback has.
`Run` and `RunNested` are a call from outside and from inside a callback, `Start` is
the reaction to the captured promise, `Settle` the end of the callback, `Release`
the resolution of the call's own promise, `Resume` the caller going on. For a
`ZoneLock` (`zoned`), `ReleaseStable` and `ReleaseFailed` take the place of
`Release`: the zone's promise settles when no task is left in the zone or at the
first error, whoever in the zone made it: the callback (`Settle`), a timer that throws
(`TaskFires`) or a promise nobody awaits (`StrayRejects`). With `Spawn`,
`AwaitOutside` and `OutsideSettles` these are what a callback can do to its zone.
Whether `run()` then throws or returns is not told apart. **`FifoMutex`** is the abstract lock: a queue whose
head may hold it. **`PromiseLockFifo`** gives the refinement mapping: the queue is the
calls not yet started in the order of their tickets, a history variable that numbers
the calls of `run()`.

**`RolesService`** is `roles.service.ts`: the registered roles, the configuration and
the asynchronous operations (`startAll`, `stopAll`, `restartAll`), each with the set
of role callbacks it still waits for. **`ApplicationLifecycle`** is
`Application.bootstrap()` with `Runtime.configure()`, `processCommandLine()`,
`start()`, `stop()` and `shutdown()`. Bootstrap is a sequence of phases, each of
which may throw; role callbacks settle in the background, whatever phase it is.

**`ModuleGraph`** is `Runtime.resolveModule()`: a stack of modules being walked, each
with a position in its array of imports. The arrays are objects of their own, since a
configured module appends to an array it may share. **`Injector`** is
`ReflectiveInjector` with its providers: a line of injectors, a stack of what is being
looked up or constructed, and the construction counter. Optional, self and skip-self
lookups, multi providers, factories that throw and missing providers are all there.
**`RuntimeLoad`** composes the two as
`bootstrap()` and `Runtime.load()` do: resolve, merge the providers, construct the
modules in order, then let the application ask for anything.

**`RouteExecution`** is one request in `RouteInstance.execute()` and `mount()`, with
`WebServer.handleError()`, `reportRequest()` and the default reporter. `pc` names the
place execution has come to, `response` what was sent, `timers` the pending reports.
`outcome` is what was last returned or thrown, with the status code it carries, and is
being dealt with. `UserSetsStatus`, `UserResponds` and `FiltersChange` are application
code that acts at any moment; its hooks (`onError`, `handleError`, reporters and
filters) may throw, which `HandleError` and `ReportFinished` say where the code calls
them. How a parameter is found and converted is reduced to success or
failure.

**`WebServer`** is `start()` and `stop()` of `web-server.ts`, the engine's
`listen()` and `listenInsecurely()`, and the role of `service.ts` that calls them
and tells the controllers. `open` is the set of sockets that listen, `httpServer`
the one kept in `_httpServer`; a port that is asked for twice is `conflict`.

**`Cache`** is `cache.ts` whole: entries with the times they were stored and expire,
cleanup timers, the table of outstanding fetches, and for each call of `fetch()` the
operation it started or joined. `Miss` calls the fetcher; while its synchronous part runs
(`starting`) only other calls of `fetch()` and `insertItem()` can be made, from inside it,
until `Register` enters the operation in the table. A value is reduced to where it came from.

**`HttpCollections`** is `HttpHeaders` and `HttpParams`, which share one design: an
object remembers what to copy and what to update until it is first read. The arrays
of values are a heap, since the copy takes over the arrays themselves. The two
classes differ in how updates are applied and in whether they are forgotten then.
`Meaning` is what an update says of names and lists alone; `meant` is made of it.
`HttpRequest` adds nothing to this: its constructor reads the parameters
(`Initialise`) and its `clone()` calls `set()` (`Clone`).

**`TaskList`** is `terminal/src/task-list.ts`: tasks with their statuses, named by
their paths, and the list with its interval and idle timeout. **`TaskFrame`** counts
the lines that a frame of the list takes: what a task takes is a function of the lines it
may take, defined by recursion since it gives its subtasks fewer; the sizes of the terminal and
the numbers of log lines to look at are its constants. **`DependencyBuild`** is `build-core.ts`
with `utils.ts`: one call of `runInAll()` or `visitInDependencyOrder()` in one of its
modes, a process per package, and the futures that packages wait for. A future that is
rejected while nobody waits for it ends the program (`Dies`), as Node 15 and later do.
**`BuildCommand`** is `main.ts`: `run` (and `build` and `test`, which are `run` with
other names) and `publish`, whose stages are the commands' awaits.

**`HttpClient`** lists the calls that the signatures of `client.ts` allow and what each
declares (`RequestOf` is what `request()` makes of one); **`HttpExchange`** is what becomes of one: `request()`, the chain of
interceptors, the macrotask wrapper of the platform "server", and `xhr.ts` or the
testing backend. The layers of an exchange are one record, and a callback hands its
event up within one step. The network, a test and the subscriber move on their own.

**`FileLog`** is `FileLogger`: lines wait for one promise of the descriptor and are
then written in any order. **`TaskWorkers`** is `task-worker.ts` over a queue that is
external (Bull): `Takes...` are the callback of `process()`, `Returns` the end of the
method, `Stalls` and `Restart` what the queue and the supervisor do when a process
has been killed. A line is logged before each method is called. A promise that is rejected
and that nobody handles is printed and no more: these programs load `zone.js` first
(`platform-nodejs/src/index.ts:3`) and are compiled to ES2016, so their promises are
zone.js's. Hence a log file that fails costs lines, never a process, and the callback
that throws for a job nobody can handle leaves that job and its process waiting for good
(`TakeUnknown`).

**`Annotations`** is `annotations.ts`: of every class the lists of its annotations, read
along the prototype chain. **`ControllerTree`** adds the decorators of controllers,
routes and mounts, then `ControllerInstance`: `Build` is what `@WebService()` does in
`altOnInit()`, `MountChild`, `MountRecurses`, `RoutesFail` and `Finish` are the steps of the constructor (split only
to be read; nothing comes between), and `AllLayers` is what `mount()` gives the engine.
The matching of Express is external. **`RouteParameters`** is
`RouteMethodParameter.prepare()` and the choice of the body parser: of a value it keeps what it is
and the text JavaScript makes of it; **`Responses`** is `Response` and its two ways to the client:
of a body it keeps its kind, of the headers the content type. **`WebService`** composes them: a request
comes when the tree is mounted, the first layer that fits answers, its parameters are
resolved, and its method makes a response. What two modules of one theorem module would
both name has a prefix: `RequestSpec`, `RequestNext` in `RouteExecution`; `ServiceSpec`,
`ServiceNext`, `ServiceInit` in `WebService`.

The modules `PromiseLockProofs`, `LifecycleProofs`, `RuntimeLoadProofs`, `WebServerProofs`,
`CacheProofs`, `BuildProofs`, `TaskWorkersProofs` and `HttpExchangeProofs` hold theorems
only; the `MC...` modules give a specification its instance.


## 4. The runs

Each run checks a different question; `PROJECT.json` lists the properties of each.

| run | instance | what it shows |
|---|---|---|
| `lock` | three calls, one of which may call the lock again inside its callback; one timer per callback at a time; both locks | the chain of promises of a `Lock` is a first-come first-served mutex (`ImplementsFifoMutex`). In a `ZoneLock` callbacks overlap, timers included, only if the zone of the older reported an error, of the callback, a timer or an unawaited promise, or if the older waits for something its zone does not see (`ZoneExclusion`). Each call is served whatever the others do, unless a callback of a plain lock awaits a call on that lock (`EveryCallServed`) |
| `lifecycle` | two roles, one off by default; each configuration mode in the environment; six command lines; two later operations | a failed bootstrap leaves nothing running (`NothingRunsAfterFailedBoot`), operations end |
| `lifecycle_stop` | no options | **violated**, see section 7 |
| `runtime_load` | an application with two imports, a module with up to one, and two modules that keep up to two in one shared array, one of which configures another module; a missing import included; four wirings of two services (overriding, cyclic services, cyclic modules, collecting multi providers); four requests | modules are listed after their imports unless they form a circle (`ImportsComeFirst`); importers override what they import, circles and the shared array excepted; objects are complete; the first error that says `cyclic` is right; everything ends |
| `route` | two middlewares and two interceptors; every result, error, hook, reporter and filter, those that throw included; two status codes for the application, a success and an error | a request that is done is answered, unless a `handleError` hook stays silent; it is lost only after application code began the response, when a hook or reporter throws where the property says, or for an error that cannot be told (`LostOnlyWhenBegun`); the client sees the status of the last thing that went right or wrong (`ErrorsReachClient`); no timer survives; requests end or stay with a middleware |
| `webserver` | four calls of start and stop, awaited or overlapping; all options of TLS, HTTP/2 and the insecure port | however calls overlap, a `start()` tells the controllers while a server listens, unless a `stop()` came between its server and that call; when calls are awaited and there is one port, `stop()` closes it |
| `cache` | two calls of `fetch()` and any number of stores, two keys, room for one, two time steps, two timers | one fetcher per key, but for one that asks for its own key before its first await; an expired value is served to a `fulfill` caller in one case only; a full cache has a cleanup coming; every fetch returns |
| `http` | four objects, two names, two values, two different updates | the first object to be read is right whatever made it; only updates in place, of the name itself, disturb what was read |
| `build` | ten graphs of three packages, with circles, missing scripts and dependencies of both kinds; three sets of options, three modes, both kinds of terminal; frames of 2 to 5 rows, tasks with up to two log lines besides an error | a package is built after what it needs and not over its failure (`DependenciesFirst`); a walk does not return well over a failure, but for one way to swallow it that kills the program (`NoFailureIsPassedOver`; a process ended by a signal, which has no exit code, counts as a success there as in the code); each frame of the task list fits and shows what runs (`FrameFits`); commands end, and no timer keeps the program alive |
| `exchange` | every call the client's signatures allow, both platforms and backends, five statuses, two progress events in each direction | however an exchange ends nothing of it is left (`NothingIsLeft`); its events come in order and end with the answer (`AnswersEndInOrder`); what comes is what the signature declares (`DeclaredIsDelivered`); exchanges end |
| `controllers` | services of up to three classes with four decorators, parameters or `extends` clauses between them; two fields, one parameter; fourteen requests | declaring a class leaves the others alone, but for three ways the property names (`OthersKeepTheirs`); routes answer where their decorators say (`RoutesAnswerWhereDeclared`), behind the global middleware of all that mount them (`GuardedByAncestors`); a parameter recorded as a number, a truth value or a text gets one, or the null of JSON for a text, or the request is refused, and other types get what the request holds (`ArgumentsAreTyped`); a response comes to the same thrown and returned exactly if it is JSON of what is not falsy without a content type of its own, or text or a Buffer with one (`ThrownAsReturned`) |
| `workers` | two processes, two jobs, two worker classes of which one may take the id of the other, up to two attempts | the queue is told what happened, but that throwing a value that is false completes the job (`OutcomeIsTrue`); the last line a living process logged is written or was tried, unless its file could not be opened (`NoLineIsDropped`); jobs that somebody can handle, or that name no task, end while a process is neither stopped nor blocked by a job nobody can (`EveryJobEnds`) |

### Bounds

Three calls of a lock are the fewest where "the call before" and "all calls before"
differ, and where a nested call has a call in front of and behind it. Two roles give a
role to be asked for and one not to be; two operations overlap in each way two can.
Four modules give each shape of circle, diamond and shared array that a step of the
walk can tell apart: an entry, one that is only imported, and two that share an array. Two middlewares and two interceptors have a first and a last.
Four calls of a server are start, stop, start, stop. Two keys with room for one evict. Two
calls of `fetch()` are a caller and one that joins it, or a fetcher and the call it makes;
that a third may follow is for the proof.
Four objects are a root, a derived object, one derived from that before or after it
was read, and a sibling. Three packages give a chain, a fork, a join and a circle with
a package outside it, which are the graphs in `MCGraphs`. One subscription is enough
for `exchange`: subscriptions share nothing, since each calls the backend anew. One
progress event would not show an order among several; two do (`MaxProgress`). Two
processes are the two that may be killed with a job, two attempts one that fails and one that does
not (`MaxAttempts`), and of two classes one with an id of its own is enough for a clash
(`Annotated`). Three classes are a controller, one that mounts it and the service that
mounts that, or a class, its subclass and who mounts both; what is written of them
(`MaxWritten`) has room for a guarded controller mounted two deep, and for a field, its
mount, an `extends` and a mount in the subclass; with annotations the tree does not read,
for one in a class, an `extends` and one in the subclass (`MaxUnread`). All parameter lists occur in the first
class, three of them in later ones, an override with another type included
(`LaterSignatures`). Queries and bodies vary where the first class answers, responses where little else was written (`MaxResponding`): neither
depends on the tree. Fields are interchangeable, hence the symmetry. The remaining bounds
are `MaxTasks`, `MaxGets`, `NumCalls`, `MaxTime`, `MaxTimers`, `MaxObjects`,
`MaxUpdates` and `MaxClasses`, each in the guard of the action it limits and named in
its module. The proofs need none of these values.

Runs other than `route` turn off the deadlock check: these systems come to
rest when no one calls them. A request may also rest, but its model says so with a
terminal step.

### Fairness

All fairness is weak unless said otherwise, and stands for the event loop: a promise
reaction that is due runs, and so does a timer.

- `PromiseLock`: reactions and timers run, and what a callback waits for outside
  settles. `Settle` is strong: a callback that again and again starts tasks is taken
  to end at last. Nothing makes a nested call wait less.
- `ApplicationLifecycle`: bootstrap is synchronous and goes on; roles answer; the
  process exits when nothing keeps it.
- `RuntimeLoad`: resolving and constructing are synchronous. Nothing is assumed of
  what the application asks for.
- `RouteExecution`: handlers settle. A middleware that keeps its request is a
  terminal state of its own, so `RequestEnds` does not assume it away.
- `WebServer`: `listen()` and certificates settle.
- `Cache`: fetchers come to their first await and settle, timers fire (a fetcher that waits
  for its own key does not, and neither do its callers). That entries expire is not assumed.
- `HttpCollections` and `WebService`: none, and no liveness.
- `BuildCommand`: the command goes on after its awaits, processes exit, promise
  reactions run, and the two timers of the task list fire while they are set. Which
  package's process exits first is free.
- `HttpExchange`: the network answers or fails in the end. A test that answers nothing
  and a subscriber that stays are not helped.
- `TaskWorkers`: a process that is up takes a job and its method ends, a killed process is
  replaced, and Bull notices a job whose process was killed. Nothing is assumed of the log
  file, and stops and kills are never required.


## 5. What is proved

TLAPS checks the theorems below for all values of the constants that satisfy the
named assumptions (`NamesAssumption`, `RolesAssumption`, `ModuleAssumption`, and so
on: the marker values are no elements of the sets, and bounds are natural numbers).
Each `...Proofs` module extends the modules it is about; every invariant was first
checked by TLC on the instance of the run.

- **`PromiseLockProofs`**: `TypeCorrect`, `CallOrderHolds`, `LockExcludes`,
  `ZoneExcludes`, `LockImplementsMutex`.
  Exclusion is not inductive: that a callback may start tells only that one promise
  is resolved. `ChainInv` says that tickets number the calls without gaps
  (`Numbered`), that each call captured the promise of the call with the ticket before
  its own, and `ready` is that of the last (`Chained`), and that a call which has
  started follows calls that have all resolved (`Ordered`). With it, and because a
  plain `Lock` resolves a call only after its callback (`ReleasedIsOver`), two active
  callbacks would each precede the other. For a `ZoneLock`, `LeavesNothing` says what a
  call that has resolved may still have going on: something in its zone failed, or the
  zone was stable before the callback's own promise settled. For the refinement, `QueueInv` says
  that every ticket was given to a call and that the calls served are those with the
  tickets up to some number, which gives the queue of `FifoMutex` in each state;
  each step of the lock is then a step of `FifoMutex` or none of its variables changes.
- **`LifecycleProofs`**: `LifecycleTypes`, `ConfigKnownHolds`,
  `FailedBootStartsNothing`. `UntouchedInv` says that before the phase that starts
  roles no operation exists, so that nothing can start later either.
- **`RuntimeLoadProofs`**: `ResolvingIsComplete`, `ResolvingIsOrdered`,
  `ImportersHaveTheLastWord` for the walk; `LoadTypes`, `ObjectsAreSingle`,
  `ObjectsAreBuiltInOrder`, `CyclicErrorIsTrue` for injectors; `ResolvingIsNotEndless`,
  `ConstructingIsNotEndless` for both.
  For the walk, `GraphInv` says that imports behind the position of a walk have been
  visited; that what a listed module imports has been visited too, or was appended
  to its array afterwards and some walk of that array has still to come to it; that
  the modules of the stack lead to one another; and that no position is more than one past the end.
  At the end the visited set is closed under imports, hence contains all that is
  reachable. `OrderInv` adds that what a listed module imports of its own is listed
  before it or leads back to it (`ListedInOrder`); that importers override what they
  import follows, with the two exceptions that `HasLastWord` names. An earlier, simpler
  statement of that property turned out false while it was being proved: on a circle, and
  through an array that two modules share, the imported module may be listed last.
  For injectors, `InjectorInv` says that each part of the stack waits for
  the one above it, that what it has gone past exists, and that an object being made
  does not exist. A cyclic construction may make the same object twice at once on
  one stack; the invariant shows that the inner one cannot finish first.
  `CyclicErrorIsTrue` counts: until the first error the counter of an injector is the
  number of its objects plus the number in construction (`Counted`), so that a counter
  past the number of its providers means, by the pigeonhole principle, that one provider
  is in construction twice.
  That neither recursion is endless is shown with a tuple of numbers for each (`WalkLeft`,
  `OperationLeft`): every step that does not end it lowers the tuple in the lexicographic order, which is
  well-founded. For a walk the tuple is the modules not visited, the length of the stack,
  and the imports ahead. A cycle of dependencies is stopped by the counters only, so an operation's
  tuple begins with the constructions that they still allow, and is followed by those in
  progress, the factories to run, of which there are finitely many (`FinitePlans`), and
  the dependencies to look up. Earlier failures only leave fewer constructions, so the theorem
  holds after them too, unlike `FirstCyclicErrorMeansCycle`.
- **`WebServerProofs`**, of one request: `RouteTypes`, `RequestLeavesNoTimer`,
  `DoneIsAnswered`, `LossesExplained`, `ClientLearnsOfErrors`. The type invariant is
  strengthened by the bound on the position
  among middlewares and interceptors. `Handling` says what handling an error may leave
  of the response, and `RequestSteps` that every step is that, a report, or one that
  touches neither. `Sending` (before the request is over, what was sent was sent by the
  application, or a report threw after the end) is what makes `LossesExplained` follow;
  with `Unset` (until then the status code is the application's) also
  `ClientLearnsOfErrors`.
  Of the server: `NotedServerHolds`, `AwaitedCallsNeverConflict`,
  `AwaitedStopCloses`, `ControllersHearInTime`. `NotedInv` holds for any overlap of calls. `AwaitedInv` holds
  while calls are awaited and there is one port: what is open belongs to the server
  kept or to the one call in progress. `UpIsNoted` says that a server that is up is kept
  until the controllers know of it, unless a `stop()` came.
  Of a service, from its classes to its answers: `ServiceIsDeclared`,
  `DeclaredPathsAnswer`, `MiddlewareGoesFirst`, `MethodsGetTheirTypes`,
  `ThrowingIsReturning`, `DeclarationsAreOwn`. `DeclaredService` is the invariant of the
  first four: the lists of annotations have their shapes (`DeclarationTypes`), a route is
  one of a method of its own class (`RoutesSigned`), options that are not shared hold the
  path of their class (`OptionsKept`), and an instance is mounted below an older one,
  under the prefix of that and the path of its mount (`TreeShape`). The properties then
  hold of every mounted tree: `LayersAre` says that the layers follow the order of
  instances, `GuardsPass` that the middleware of an ancestor is therefore met before a
  route below it, and `DeclaredIsMounted` that the path where a route is mounted is the
  one its decorators declare. `ThrowingIsReturning` needs that the body of a response is
  its unencoded body in the encoding it names, and that JSON has a content type (`WellEncoded`);
  `MethodsGetTheirTypes` that the types of a method with a route are recorded (`RecordedAre`), `DeclarationsAreOwn` what
  each decorator leaves alone in each list (`KeptEarlier`, `KeptOrInherited`).
  Lineages, ancestors, paths and flattened layers are recursive functions; that
  such a function satisfies its equation follows from a least argument where it does not
  (`RecursionIsDefined`, `Smallest`), and so does what `LineageIs`, `AncestryIs`, `FlatIs`
  and `DeclaredPathIs` say of them. `TreeAssumption` types the paths and signatures that a
  service may be written with.
- **`CacheProofs`**: `CacheTypes`, `OneFetcherHolds`, `ExpiredIsExplained`,
  `CleanupIsComing`. `TableInv` says that an operation in progress is the only one
  of its key and, once registered, the one in the table, until a fetcher of the key asked
  for it too early and as long as one of the key is left; `ExpiredInv` follows an expired value from the caller that
  kept it to those that joined; the last needs that the set of entries is finite.
- **`BuildProofs`**: `BuildTypes`, `DependenciesComeFirst`, `FailuresCount`, `AnyFrameFits`,
  `FramesFit`. `BuildInv`
  has a part for each of the three modes of a call. `RunsAtOnce` and `WaitsForAll` are
  about each package and those it waits for. A serial walk is harder: what was seen is done
  or its visit is still open, and an open visit leads to those below it (`PathLeadsOn`,
  `WalksInOrder`), so that a dependency that is not done when a package runs lies on a
  circle with it.
  The theorem about frames needs nothing of the command but that its tasks are finitely
  many (`TasksAreFinite`); it holds of any tasks, log lines and terminals. What a task takes
  of some lines and what its subtasks take of them are two functions by recursion, one
  inside the other. No task takes more than it was given, because what the subtasks shown so far
  took, what is left over and one line for each subtask still to come never exceed what all
  of them were given (`UsedFits`). That also makes the recursion
  well-founded: the lines a task is asked for lie among those already tabled, on which alone
  its answer depends (`ChildrenFit`, `TaskFits`), so the table can be extended by one
  row at a time (`LinesAreDefined`).
- **`TaskWorkersProofs`**: `WorkersTypes`, `QueueHearsTheTruth`, `LinesAreKept`. `Held`
  says that a living process holds the lock of the job it works on, so no other process
  changes the job under it; `LogInv` that no line
  waits for a descriptor that was refused or never asked for, and where the last line is.
- **`HttpExchangeProofs`**: `ExchangesAreSound`, `ExchangeLeavesNothing`,
  `EventsEndInOrder`, `SignaturesAreKept`. `Sound` relates the layers of one exchange to
  its subscriber: while that is open they are all there, one of the two backends is and
  nothing has been answered; after, they are gone (`LayersFollow`). `EventsInOrder` bounds
  the rank of what was shown by what can still come, and `EventDeclared` and `EndIsShown`
  relate events and end to the call and the answer. The lemmas about the layers
  (`EmitNextIs`, `AnswerIs`, `EndsIs`, ...) say once what a callback does to an exchange;
  each action is then a few of them. `CallsAreSignatures` and `RequestIs` derive from the
  130 signatures what request() may be given.
  Of headers and parameters: `CollectionsAreSound`, `ChainsAreMadeWhole`,
  `OnlyOwnUpdatesDisturb`, by the invariant `CollectionInv`. `CopiesOlder` says that what is
  to be copied needs no copy itself and that who waits has no names; `Named` that an array
  goes by one name in all objects that hold it, which is why an update disturbs its own
  name alone; `UpdatesLead` that, while none of the derived objects was read, the updates each one
  has collected lead from the first object to what it was made to hold. `ApplyIs`
  names the five things an update can do to map and heap; `Grown` carries what they
  leave alone through a whole list of updates, and `UpdatedIsMeant` carries that they
  mean the same as on lists nobody shares, where no two names share one (`Separate`).
  `FoldIsDefined` is the recursion that both need. The second theorem does not extend
  to later reads, nor does the property: that is the sharing that the third is about.

Some of these theorems are about invariants that no run checks any more, since what
they say follows from, or is less than, what the runs check: the type invariants,
`CallOrder` and `MutualExclusion`, `ConfigKnown`, `EachModuleOnce`, `MadeOnce`,
`NotedServerListens`, `NoConflict`, `BuildInv`, `ExchangeInv`, `CollectionInv` and
`DeclaredService`.

Only model-checked:

- liveness and fairness, that is all properties that say that something ends or returns
  (`EveryCallServed`, `OperationsEnd`, `WorkEnds`, `RequestEnds`, `FetchesReturn`,
  `CommandEnds`, `NothingTicksInTheEnd`, `ExchangeEnds`, `EveryJobEnds`). Of `WorkEnds`
  the core is proved, that no execution takes endlessly many steps of one walk or of one
  operation; what stays with TLC is that a step is always possible and, by fairness, taken.

## 6. What is not modelled

`PROJECT.json` lists every component with the reason. In the modelled ones:
formatting and configuration values that only travel; the parsing of
headers and of query strings and the order of names; the zones of other
libraries; the table from tokens to locks (`Lock.forToken`); certificates (they
succeed or fail); WebSockets and the service description of a server; the writing of
package manifests and the file search of `build`; request bodies' serialisation, JSONP
and the XSRF interceptor of `http` (they are interceptors like others); the middleware
around a route in `WebService` (it is in `RouteExecution`), the injectors of mounts,
HTTP methods, and Fastify; the callers of a task, who wait on the queue; remote
logging and the console. `copyClassAnnotations()` and the copies of annotations that
Angular reads are not modelled. Nothing is persisted by the code itself, so
the only crashes are those of a process that takes jobs or of a build: the queue
outlives the first, and the second ends the command.

## 7. Where code and description disagree

With a run that shows it:

| run | what |
|---|---|
| `lifecycle_stop` | no code sets `running`, so `stopAll()` finds no role to stop (`runtime/src/roles.service.ts:186`, comment at `runtime/src/modules.ts:238`) |

Met while modelling, each visible in a module but with no run of its own.

Runtime, injector, server:

- `--roles-skip` and `--roles-all-except` configure the mode `only`: exactly the roles to
  be skipped run (`runtime/src/modules.ts:160`, `runtime/README.md:75`).
- The construction counter never goes down: enough failed attempts at one factory and
  the injector refuses everything as cyclic (`di/src/injection/reflective_injector.ts:413`,
  comment at `reflective_errors.ts:90`). Hence "first" in `FirstCyclicErrorMeansCycle`.
- An error after headers were sent makes the error handler throw, in the last-chance
  handler too, and the response is never ended (`web-server/src/web-server.ts:628`, comment
  at `route.ts:675`). So it does when `onError`, `handleError` or a reporter throws, for
  an error that JSON cannot express, and for `undefined` or `null` thrown, which the last
  chance handler cannot put into words (`route.ts:680`). `LostOnlyWhenBegun` names the
  cases.
- Reading a derived `HttpParams` changes the one it was derived from
  (`http/src/params.ts:207`, comment at `params.ts:95`); `headers.ts:183` does the same.
- `HttpParams.init()` keeps the updates it has made (`params.ts:228`): deriving from
  an object that was read appends its values again. Doing `set()` and whole
  deletions twice is harmless, so only `append()` shows it.
- `WebServer.stop()` closes `_httpServer` only; a server on `insecurePort` goes on
  listening. `AwaitedStopClosesPorts` therefore speaks of servers with one port. A
  `stop()` that overlaps a `start()` may close nothing (hence "awaited"), or close the
  server before the controllers hear that it listens (hence `stoppedUnder` in
  `ControllersHearOfListening`).
- A `ZoneLock` is said to keep calls apart with the macrotasks they spin off
  (`locks.ts:70`). It takes stability of its zone for the end of the callback, so a
  callback that waits for a promise from elsewhere overlaps the next; and it takes any
  error of the zone for the end too (`zones.ts:60`, `zones.ts:86`), so when one timer of
  a callback throws, its other timers and the callback itself overlap the next.
- `AfterStart` is fired while roles are still starting, `Runtime.start()` drops a
  rejection of `startAll()`, and `Runtime.shutdown()` exits while roles stop.
- `Cache.fetch()` calls the fetcher before it notes the operation (`cache.ts:174`, `194`):
  a fetcher that asks for its own key before its first await starts a second one, and the
  first of the two to end frees the key of the other. Hence `reentered` in
  `OneFetcherPerKey`.
- A `fulfill` caller of `Cache.fetch()` that joins a failing background revalidation
  gets the expired value; a value stored by `insertItem()` during a fetch is
  overwritten by the older answer.
- `reportRequest()` asks its filters anew for each report, so a filter that changes
  its answer leaves the timers of a request set.

Build, terminal:

- `getParallelMode()` asks for an option that is always there, so that `parallel-wait`
  is not chosen by any command line; the model checks it as a mode of the library.
- The serial walk follows `dependencies` only; the exit code of `npm pack` is ignored;
  a process ended by a signal has no exit code and counts as well ended
  (`build/src/utils.ts:655`).
- A package that fails and that nothing depends on rejects a future nobody waits for,
  after the visit has resolved (`build/src/build-core.ts:104`).

HTTP, tasks, logging:

- A handler that throws on the server leaves its macrotask (`http/src/server.ts:37`), and
  there `observe: 'events'` yields the last event only.
- `TestRequest.cancelled` is true after a normal completion too; `expectOne()` and
  `expectNone()` drop the requests they complain about.
- `service()` of the tasks awaits the enqueuing only (`tasks/src/task-runner.ts:25`,
  `tasks.ts:116`); the worker looks under the id of the annotation what the caller put
  under the name of the class, and returns for a job without a task only after it has
  gone on to throw (`task-worker.ts:66`, `83`).
- For a worker that is not registered the callback throws before `done()`
  (`task-worker.ts:83`), and nobody handles that: the job stays active, its lock is renewed,
  and the process takes no other job. Hence `Unknown` and `Blocked` in `EveryJobEnds`.
- A method that throws a value that is false, such as `undefined`, completes its job
  (`task-worker.ts:94`).
- A log file that cannot be opened is not tried again: from then on the process, which
  goes on, drops every line (`logging/src/logger.ts:204`). The static `debug()`, `warning()` and `error()` of
  `ZonedLogger` log as info.

Controllers, parameters, responses:

- `@Mount()` in a subclass mounts on its base class (`web-server/src/metadata/route.ts:132`),
  annotations of constructor parameters reach it too (`annotations/src/annotations.ts:954`),
  and controllers that share an options object share the last base path
  (`metadata/controller.ts:67`): the three exceptions of `OthersKeepTheirs`.
- A controller mounted below itself is said to be skipped (`controller.ts:114`), but the
  list of visited types is not passed on, and the construction overflows the stack
  (`MountRecurses`).
- Middleware of a controller's routes is said to be inherited by what it mounts
  (`web-server/README.md:454`); `controller.ts:81` hands on its own only.
- `@PathParam(name)` reads the parameter's own name (`route.ts:103`); a `Date` is checked
  and then not returned (`route.ts:198`); annotations of inherited parameters go by position.
- `processing()`, `nonAuthoritativeInformation()`, `resetContent()` and `useProxy()` have the
  status 101, 202, 204 and 302, where their comments say 102, 203, 205 and 305
  (`response.ts:134`, `152`, `170`, `239`).
- `encodeAs('raw')` keeps the content type that was set for JSON (`response.ts:460`).
- A response that is thrown differs from the same one returned where `ThrownAsReturned`
  says: JSON of a falsy body (`null`, `false`, `0`, the empty text) is sent when thrown and left out
  when returned (`route.ts:633`, `web-server.ts:585`); a raw typed array is sent
  when thrown and a 500 when returned, as is any raw body that is neither text nor a Buffer
  (`route.ts:620`); without a body the one sends nothing and the other an error of its own; a content type of
  its own is replaced for returned JSON (`web-server-engine.ts:141`), and a missing one
  added to what is thrown (`web-server.ts:582`).
- A parameter has no type but the one recorded: a list outside the path gets what the
  query has, one text for `?ids=7` (`route.ts:109`); buffers and objects are never
  converted; the null of JSON reaches a text parameter (`route.ts:220`); and a method that overrides
  another without decorators gets the types of that one by position, under its own names
  (`route.ts:394`).

## 8. Running

    tlc -config PromiseLock.cfg MCPromiseLock
    tlapm PromiseLockProofs.tla

`PROJECT.json` names the module and configuration of every run, the lines of source
each definition stands for, the hazards the properties are for, and the mutants.
