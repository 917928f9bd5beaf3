# Formal models of galileom2m (liblwm2m)

galileom2m is a fork of liblwm2m, an implementation of OMA Lightweight M2M in C, with a
server program, a client program and an object that downloads and runs applications on a
Galileo board. This directory models its two protocol engines and the loops that drive
them in TLA+, composes them, models the objects of the client program and the conversions both
programs share, checks the models with TLC and proves theorems about them with TLAPS.

## 1. Inventory

| Part | Code | State | Operations |
|---|---|---|---|
| Transactions | `core/transaction.c` | `transactionList` of the context, sorted by message ID; per transaction a peer pointer, a callback, `retrans_counter`, `retrans_time`, a buffer built at the first transmission | `transaction_new`, `_send`, `_remove`, `_free` |
| Server: registrations | `core/registration.c` | `clientList` (internal ID, endpoint name, address, object list, observation list) | `handle_registration_request` on `/rd` |
| Server: device management | `core/management.c` | a transaction per request | `lwm2m_dm_read/write/execute/create/delete`, `dm_result_callback` |
| Server: observations | `core/observe.c` | `observationList` of each client (ID, path, status, callback) | `lwm2m_observe`, `lwm2m_observe_cancel`, `prv_obsRequestCallback`, `handle_observe_notify` |
| Client: registrations | `core/registration.c` | per server: status, location, message ID of the latest request | `lwm2m_register`, `prv_handleRegistrationReply`, `registration_deregister` |
| Client: requests received | `core/management.c`, `core/objects.c` | the objects of the program | `handle_dm_request` and the five `object_` functions |
| Client: observed resources | `core/observe.c` | `observedList`; per path and server a watcher (token, counter, last message ID) | `handle_observe_request`, `cancel_observe`, `lwm2m_resource_value_changed` |
| Packet dispatch | `core/packet.c` | none | `lwm2m_handle_packet` |
| Context | `core/liblwm2m.c` | `nextMID`, the lists | `lwm2m_init`, `lwm2m_step`, `lwm2m_close`, `lwm2m_add_server` |
| Programs | `tests/server/lwm2mserver.c`, `tests/client/lwm2mclient.c`, `status.c`, `read_objects.c` | `g_quit`, the timeout of `select()` | one packet, command or timer tick per turn of a single-threaded loop |
| Object layer | `tests/client/object.c`, `object_device.c` | table of resources with value pointers per instance; the structures they lead to | add, size and set a resource; read, write, execute by access type; the periodic update |
| Applications (OTA) | `tests/client/applications.c` | per application: state, error, pid | download (in a thread), run, kill, periodic check |
| Pure algorithms | `core/list.c`, `uri.c`, `tlv.c`, `utils.c` | none | sorted lists, paths, TLV records, plain text |
| Vendored or I/O only | `externals/er-coap-13`, `tests/utils`, `tests/TLV` | | |

The two engines run in separate processes and interact only through UDP packets, which may be
lost, duplicated and reordered; within a process everything happens in one thread, between two
calls of `select()`, except the download threads. The hard behaviours are therefore: answers,
notifications and time-outs in any order; requests still in the transaction list when the record
they point to goes away; allocations that fail half way through an operation; and a retransmission
schedule that depends on how late the loop is. Each is listed at its line under `hazards` in
`PROJECT.json`, with the properties that watch it.

## 2. Modules

`Transaction` holds the timer of one transaction as operators on a record; both engines use it.
`retrans_time` is kept relative to the clock (`wait`), so that a passing second is an action and
the models need no absolute time.

`Lwm2mServer` is the server engine with its loop. Lists are functions from identifiers to elements,
`None` where there is none. A pointer held by a transaction is the identifier plus a flag telling
whether the element was freed since (`peerFreed`, `obsFreed`); following a freed pointer, calling a
null callback, walking a freed list element, freeing what was not allocated or reading a payload whose
owner has returned ends the run in phase `"undefined"`.

| Action | Code |
|---|---|
| `Register`, `Deregister` | `handle_registration_request`, POST and DELETE, with each allocation that may fail; `Answered` is the end of `lwm2m_handle_packet`: what `message_send` returns replaces the code of the answer (packet.c:277), so a failed `sendto` is followed by 5.00, and with Block2 the 4.02 leaves with a literal for a payload, which is freed |
| `DmRequest` | `prv_make_operation` and its five callers |
| `Observe`, `ObserveCancel` | `lwm2m_observe`, `lwm2m_observe_cancel` |
| `ReceiveReply` | the second half of `lwm2m_handle_packet`: `AnswerTransaction` is `handle_response` with the two callbacks, `Notify` is `handle_observe_notify` (reached whatever the code of the packet is, because the test at packet.c:306 assigns it) |
| `Lwm2mStep` | one walk of `lwm2m_step` over the transaction list, every `transaction_send` included; a request that found no memory for its buffer is serialised here; without a clock the program ends |
| `Wake`, `Tick` | `select()` returns; a second passes |
| `Close` | `lwm2m_close` |

`RequestService` is what the server promises the application: a request is pending until it is
reported, once, or dropped with the context. `Lwm2mServer` implements it (`ServiceSpec`), with the
refinement mapping `requestState`.

`Lwm2mClient` is the client engine with its loop.

| Action | Code |
|---|---|
| `Register` | `lwm2m_register`: the whole loop over the servers, with the failures that cut it short |
| `HandleRequest` | `handle_dm_request` and the `object_` functions, with the object layer's outcome per access type: `ReadRequest`, `WriteRequest`, `PostRequest` (the function of an executable resource may fail after it stored what it likes in its object), `DeleteRequest`, `ObserveRequest`; `Answered` is the end of `lwm2m_handle_packet`. The 5.01 of a Block1 option (packet.c:239) is overwritten at packet.c:277, so that such a request has its normal answer; a Block2 option cuts the payload, after which something else than was allocated is freed, unless the first block of a payload is asked for. `Strays` are the requests for which the object layer follows a pointer that is not there |
| `ReceiveReply` | resets (`cancel_observe`), then the transaction lookup and `prv_handleRegistrationReply` |
| `Change` | the command `change`, which only calls `lwm2m_resource_value_changed` |
| `UpdateObject` | the program gives a resource a new value (`status_run`) |
| `Lwm2mStep`, `Wake`, `Tick` | as above; a registration without a buffer would be serialised from the array `lwm2m_register` had on its stack |
| `Close`, `Abort` | `lwm2m_close` on `quit`, with the objects freed before it or not; `^C` |

`Registration` is what the client promises about its registrations: registered only out of a pending
registration, and no late answer or time-out takes a registration back. `Lwm2mClient` implements it
(`RegistrationSpec`).

`Lwm2mSystem` composes the two engines: it INSTANCEs both, over state variables prefixed `s` and `c`,
and adds the network and the death and restart of the client. `toServer` and `toClient` are the sets
of every packet ever sent; a packet of them may arrive at any time, any number of times, or never.
Each receiving action hands a packet of the other engine to this engine's own handler (`RequestOf`,
`AnswerOf`, `ReplyOf` translate the one's output into the other's input, as the parser does). Three
history variables let the properties compare the two ends: the answers the client gave, what it sent
of an observed path and of which path, and the values a resource held while a read was pending. The
engines share nothing but packets, so one is let finish `lwm2m_step` before the other moves.

`Applications` is one entry of the table of the applications object: the handlers of Download, Run
and Kill and the status timer, which run in the main loop, the download threads, whose writes of
State, Error Code and the file are steps of their own, and the child processes. Entries share nothing,
so one stands for all. `reaped` says whether the process that started the client had SIGCHLD ignored, in
which case `system()` cannot tell how the tftp command ended; otherwise a child that ends stays a
zombie, because nothing waits for it.

| Action | Code |
|---|---|
| `WriteArgs`, `WriteUrl` | `prv_object_write` on Args and URL |
| `Download` | `exec_download`, `download_cmd`; without memory for the command `snprintf` writes through NULL, which is undefined |
| `Run`, `Kill` | `exec_run` with `exec_run_fork`, `exec_kill`; without memory for the path of the directory, `strlen` reads NULL |
| `ApplicationsCheck`, `ApplicationsFail` | `applications_update`: the check, then the write; a thread may run between |
| `SystemReturns`, `WriteError`, `WriteState`, `WriteInvalidUrl`, `Chmod` | `download_thread`, one store at a time |
| `ProcessEnds` | a child ends (external) |

`ObjectTable` is the table of resources of the client program and the memory its value pointers
lead to. `object` chooses one of the two objects, the device or the applications, which share
nothing. `Calls` is the sequence of calls `newObjectDevice` and `newObjectApplications` make, and
`Fill` carries out the next one. Memory is modelled as far as its layout decides something: the
value pointer at place `inst * MaxValues + idx`, what lies behind the last place (the name of the next
resource; behind the last resource, the end of the allocation: the write there damages the heap, which
`sane` records as TRUE or FALSE), string buffers one behind the other as cells, `State` behind the last
buffer of an application. A read of one resource goes through the plain text conversions, a read of
the object and of a resource with several values through TLV.

| Action | Code |
|---|---|
| `Fill` | `_objectAddResource`, `objectResourceStringSize` and the setters of values, as `newObjectDevice` and `newObjectApplications` call them |
| `Write` | `prv_object_write` |
| `Execute` | `prv_object_execute` as far as it changes the table: `exec_download` and `exec_kill` store State and Error Code, `Run` stores them and cuts Args where its words end (`strtok`, and the byte before each word, applications.c:189-191) |
| `DeviceStateUpdate` | `device_state_update` |
| `ApplicationChanges` | the stores of the threads and the timer to State and Error Code |
| `Read` (an operator) | `prv_object_read`, and `prv_get_object_tlv` for the whole object |

`List`, `Uri` and `Values` are the pure algorithms as operators: the sorted list as a walk that stops at
the first larger identifier; `lwm2m_stringToUri`, `lwm2m_decode_uri`, the object list of a registration
and its decoding; plain text, `lwm2m_intToTLV`, `lwm2m_opaqueToInt`, TLV headers in bytes of base `Base`,
with `char` signed as on the machines the program is built for. `LongMod` is the number of values of a
`long`: `"%ld"` (utils.c:103) prints the part of an `int64_t` that a long holds, half of it on a 32-bit board.
`Conversions` composes them the way the
programs do: something is said on one side, one action converts and transports it, and `heard` is
what the other side has. Texts are sequences of path segments or digits. Reference definitions
(`Meaning`, `Lists`, `Positional`, `SignMagnitude`) say what should have been heard.

| Action | Way |
|---|---|
| `Ask` | an operator's text through `lwm2m_stringToUri`, path options and `lwm2m_decode_uri` |
| `Locate` | an identifier in a location, back in a DELETE |
| `Register`, `Announce` | the payload `lwm2m_register` builds in 64 characters, or anyone's, through `prv_decodeRegisterPayload` |
| `Write`, `Read` | text to integer; integer to text and to TLV and back |
| `Send` | a TLV record: header, then `lwm2m_decodeTLV` |

`MCServer`, `MCClient`, `MCSystem`, `MCApplications`, `MCObjectTable` and `MCConversions` give the
constants small values; the `.cfg` files name the run.

### Abstractions

Message IDs, tokens and payloads keep their identity and lose their bytes. An object list either
decodes or not. Addresses are values with a family, since `prv_findServer` compares lengths only.
The network is not a component of the two engine models: any packet of the constant sets `Replies` and
`Requests` may arrive at any moment, any number of times, which includes loss, duplication,
reordering and packets nobody honest would send. Definitions whose comment starts with *Variant* are
plausible bugs; `PROJECT.json` lists which property each of them violates.

## 3. Runs

| Run | Shows | Bounds |
|---|---|---|
| `MCServer_timers` | the schedule 0, 2, 6, 12 s, the sleep handed to `select()`, 5.03 only after four transmissions, every request settles | 3 overlapping requests: a third one starts while the others are at different stages; the loop up to 1 s late |
| `MCServer_records` | one record per endpoint name, stable identifiers, one result per request, observations and transactions in agreement, valid pointers, undefined behaviour only where it is explained, refinement of `RequestService` | 2 names, 2 addresses, 2 observations of one path, 2 requests, observes and writes, failing allocations, clock and sendto, Block2 or not; without callbacks for writes; names and addresses are symmetric, and the packets and calls of the last step are left out of the fingerprint (`MCView`), as no later step depends on them |
| `MCClient_registration` | pending registrations are being asked for and settle, registered ones were answered, refinement of `Registration` | 3 overlapping registrations, 2 senders, failing allocations and clock, the loop up to 1 s late |
| `MCClient_observe` | message IDs of notifications are unambiguous, a reset ends one observation, a watcher belongs to the first server of the sender's family | 2 servers of different families and a stranger of the family of one, 2 overlapping paths, 2 notifications |
| `MCClient_requests` | refused requests have no effect, undefined behaviour is explained | every method on 4 paths: an integer, an executable, an object too long for a packet, a string without a second instance; failing allocations and sendto, Block2 on writes |
| `MCApplications_faults` | no application is lost, RUNNING names a started process, a download that got its thread is not shown as in progress for ever, a process that is gone is noticed | 2 downloads at a time, 2 processes, memory, threads and processes failing at any point |
| `MCSystem_requests` | a client that believes it is registered is in the server's list, under that location; a result is the client's answer to that request; a read never returns an old value | 2 requests, one after the other, so that what is late of the first meets the second; 2 values; 1 restart |
| `MCSystem_observe` | both sides agree on the path of every token | 2 observe requests, of one or two paths, given up or not; 2 notifications' worth of counters; no time passes at the client, whose timers only matter while it registers |
| `MCConversions_all` | paths, locations, object lists, numbers and TLV records arrive as they were said | identifiers to 4, an `int` of 16 values, bytes of base 16, integers of 4 bytes, longs of 2: values on both sides of every bound and of every wrap; texts of up to 4 segments, 3 objects with up to 2 instances, a payload buffer that some lists overflow |
| `MCObjectTable_all` | every resource reads as what was put there, a write changes one resource, a run cuts one text, the whole object is the sum of its parts | a table of 2 instances and 4 applications, so that instances 0..2 find a place and 3 does not; buffers of 4 characters and texts that are shorter, as long and longer, with spaces inside and before; 3 steps after the table is filled; a TLV buffer that the device fits in its shortest values only |
| `MCSystem_collision` | *violation* of `ResultIsAnswer`: a notification with the message ID of a pending request is taken for its answer | |
| `MCSystem_cancel` | *violation* of `NotifiedOfItsPath`: after a cancel the identifier, and so the token, goes to another path, and what is still on its way of the first is reported under the second | |

`CHECK_DEADLOCK FALSE` in every configuration: both programs stop, by closing the context or in
undefined behaviour, every counter is bounded, and `Conversions` ends when what was said was heard. `SelectTimeout` stands for 60 s; 7 exceeds the
longest interval (6 s), so that the cap and the intervals both decide the sleep; where time is not
the question it is 1 or 3 (in `MCServer_records` 7 as well: requests may be given up there). `MaxMid` bounds the requests of a run: three are needed for two that
overlap a third, two for a request and one that reuses what it left; in `Lwm2mSystem` the two
contexts count separately (`ServerMids`, `ClientMids`) and meet in one number space, as in the code.
`MaxCounter` bounds the observe options sent to a watcher, `MaxPending` the requests the server's
application leaves open at a time, `MaxStarts` the restarts.

Configurations that show further disagreements, each a violation of one property stated in its module
with the line it quotes, are kept beside the runs and started by hand with `tlc -config`:
`MCServer_status` (the first observe answer has status 2.05, not the counter liblwm2m.h:245
promises), `MCClient_change` (the command `change` does not store its argument), `MCClient_quit`
(`quit` frees the objects before it de-registers), `MCApplications_status` (an application that ended
is RUNNING for ever, since nobody waits for the child and `kill(pid, 0)` succeeds on a zombie),
`MCApplications_race` (a download that ends after Run writes over RUNNING), `MCApplications_args`
(`strtok` cuts Args in place, the second Run passes one word), `MCApplications_address` (a TFTP address
without a path is copied from address 1 before it is refused), `MCApplications_code` (Error Code holds
the wait status of `system()`), `MCConversions_slash` (a path with the leading slash that
the comment at liblwm2m.h:158 and the server's help give it does not arrive), `MCConversions_stray`
(`lwm2m_stringToUri` sets flags with `|=` in a variable nothing initialised, so that stray ones stay),
`MCConversions_tlv` (`char` is signed, so an integer with a byte of 128 or more is decoded as another), `MCObjectTable_instances` (of the twenty applications that the comment at
applications.c:60 speaks of, nine find no place in the table). `MCSystem_restarts` is no violation: it
checks `RegisteredIsKnown` with 2 registrations in each life, beyond what fits a run of five minutes
together with requests.

### Fairness

`FairSpec` assumes weak fairness of `Lwm2mStep`, `Wake` and `Tick`: the loops of both programs call
`lwm2m_step` on every turn, `select()` returns when its timeout is over, and time passes. Nothing is
assumed of the network, of the peers or of the application. `Applications` assumes that the timer
makes the main loop call `applications_update`, that the system runs the download threads and that
the tftp command ends. The system runs state safety only and use `Spec` (the two violations `FairSpec`,
with fairness of `lwm2m_step` on both sides).

`RegisteredIsKnown` makes one exception: a client that said goodbye in an earlier life. Nothing ties
a DELETE to the registration it was meant for, so one that is late or repeated removes the record of
the next life.

### What the runs leave undefined

The models keep, and `UndefinedExplained` bounds, the ways out of defined behaviour:

* in both engines, the answer to a request with a Block2 option: its payload becomes a literal
  (packet.c:253) or a place inside the buffer (packet.c:258), and is freed (packet.c:279);
* in both, a request whose buffer found no memory: it stays in the transaction list, and when
  `lwm2m_step` serialises it (transaction.c:173) the payload it points to was an array of
  `lwm2m_register` (registration.c:95, 117) or belongs to the caller (management.c:143);
* in the server, a client that deregisters while a request to it is pending (registration.c:420), a
  cancelled observation whose request is pending (observe.c:445), an answer to a request without a
  callback (packet.c:124), a client record freed but left in its list (registration.c:393), a record
  of the object list that is cleared before it is looked at (registration.c:246, 259);
* in the client, a watcher that could not be allocated (observe.c:183), a location that could not
  (registration.c:72), a program that frees its objects first (lwm2mclient.c:418), a request for a
  string that the instance does not have (`strdup` of NULL, object.c:182), for an instance behind the
  table, or the execution of an application that is off its array.

Whether packet.c:279 frees the right thing depends on the request only, so `block2` is part of a request:
none, the first block, or a later one.

A watcher need not belong to the sender of the request: `prv_findServer` returns the first server
whose address is as long as the sender's (observe.c:124). `WatcherIsOfTheFamily` says what that leaves:
of two servers of one family the first gets the observations of both and of every stranger of the family.

## 4. Proofs

Eight modules hold theorems, named below with what they are about; every one is for all values of the constants that the named assumptions of
the modelled module allow (`BoundsAssumption`, `InputAssumption`, `NoneAssumption`, ...): any number of
clients, servers, observations, processes, any message-ID space, any lateness of the loop, any packets.

**Server** (`Lwm2mServerProofs`, extended by `Lwm2mServerSafety`)

* `TypeCorrect`, `PendingObservationHolds` (an observation is pending exactly while one transaction
  carries it), `LiveReferencesHold` (unmarked pointers are valid and lead to the observation of their
  path). The inductive invariant `IInv` is `TypeOK` with `Structure`, six facts about the two lists:
  what shape a transaction has (`Shape`), that a carrying transaction's observation exists, is pending
  and has its path (`CarriedIsPending`), that no two transactions carry one observation
  (`CarrierIsUnique`), that a pending observation has a carrier (`PendingIsCarried`), and that peers
  and observers are registered (`PeersRegistered`, `ObservationsRegistered`). `PendingObservation` is
  not inductive by itself: cancelling frees an identifier that the next observe takes again, and only
  the uniqueness of carriers and the flags of the old transaction keep the two apart; deregistration
  needs `ObservationsRegistered`. There is a type lemma and a structure lemma per action.
* `NamesAreUnique` and `LocationsAreStable`: one lemma says what any step does to the records (keeps
  them, removes one, rewrites the one of its name, adds one under a name nobody has).
* `ResultsAreUnique`: a message ID is in the list until its result is given, and gets one only;
  inductive with the types, by one lemma that says which results a step may give.
* `EngineServesRequests`: `Spec => ServiceSpec`, the refinement of `RequestService`, step by step, from
  `OneResult`; a step of the engine that reports several requests maps to one step of the service.
* `UndefinedIsExplained`, for every event that leads there (see section 3): it needs `LiveReferences`, and that
  only requests whose buffer found no memory are ever unsent in the list.
* `ScheduleHolds`, `PunctualHolds`, `GivingUpIsPatient`: from `TimersOK`, which relates the counter, the
  age and the wait of each timer (`age + wait` is the deadline of the next transmission) and bounds
  the lateness by the sleep chosen. `GivingUpIsPatient` assumes that no peer answers 5.03 itself, since
  the application could not tell.

**Client** (`Lwm2mClientProofs`)

* `TypeCorrect`, `PendingIsAlwaysAsked`, `RegisteredIsAlwaysAnswered`. The inductive invariant is their
  conjunction with `PendingBelow`, that the message IDs in the list are below `nextMID`: without it a
  new registration could take the place of the request another server waits for.
* `NotificationsAreNamed`: with `PendingBelow`; a notification and a registration that overlap draw
  from one counter, and cancelling never gives a watcher an old message ID.
* `ResetsCancelOne`; `RefusedNeverTakesEffect`, which excepts what the code does: the function of an
  executable resource fails after it stored its state, and a 5.00 also follows an answer that could not be
  sent. `UndefinedIsExplained` needs `RegisteredAsAnswered`, since `lwm2m_close` reads the location of
  registered servers only, and that the transactions without a buffer are those of a failed allocation.
* `WatcherIsAlwaysOfTheFamily`, for any number of servers and strangers and any families.
* `EngineRegisters`: `Spec => RegistrationSpec`, the refinement of `Registration`.

**Applications** (`ApplicationsProofs`): `TypeCorrect`, `NoLostApplication` (`Tracked`) and `NoPhantomRun`
(`RunningWasStarted`). `Tracked` is inductive with the type invariant, because Run looks at `pid` and
only Kill resets it; `RunningWasStarted` needs in addition that a thread writes neither `pid` nor RUNNING.

**Conversions** (`ValuesProofs` for the numbers and records of `Values`, extended by `ConversionsProofs`), for identifiers, ints, bytes and integers of any width

* `AddInserts`, `FindFinds`, `RemoveRemoves` and `NewIdIsNew`: on sorted lists of any length the walks of
  `list.c` do what a set would. `PathsArrive`: a path or location arrives as it was said.
* The other loops of the code are recursive functions of the model (`AddUp`, `Power`, `AllItems`,
  `Characters`, `DecodeRegisterPayload`). The library's induction takes an operator for parameter, which the
  provers cannot instantiate; `Induction` is the same over the *set* of the numbers that have a
  property, from `LeastElement`. `Recursion` says that a function which continues every stage to
  the next exists, so that the CHOOSE a recursive definition stands for has what it chooses, and `Stays`
  that its values stay in a set which every stage keeps.
* `PayloadsAreListed`, and from it `ObjectListsArrive`: after i items the list is sorted and has what those
  items name. What a client registers is such a payload (`ItemsType`).
* `LoopsAddUpPositions` (multiply and add is the sum of digit times power) and `DigitsAddUp` (the digits of a
  number add up to it) carry the numbers: `TextKeepsIntegers`, `TextIsRead`, `BytesKeepIntegers`,
  `HeadersKeepRecords`, and from them `NumbersArrive` and `RecordsArrive`. They need an even base above 8, as
  header lengths up to 7 are in the first byte and the sign is half a byte, and integers of at least 3 bytes,
  as many as a TLV length has (`ByteAssumption`: the code has 256 and 8); and that the sign is no digit
  (`CharacterAssumption`). `TextKeepsIntegers` says that a text is read back as the part of the integer that a
  long holds, for longs of any width up to that of the integers (`LongAssumption`); it includes the lowest
  integer, whose magnitude has no positive counterpart; `BytesKeepIntegers` stops before it, as its negation is undefined in C.

**The table of resources** (`ObjectTableProofs`, on `ValuesProofs`), for any number of applications,
instances and values, buffers of any size, integers of any width

* `TableIsFilled`: the invariant `Filled` describes each slot by the calls already made: its identifier,
  type, access and number of values, and which pointer is at which place. It has to say more than a full
  table needs: the resources were added in the order of their identifiers, each before it was sized and set
  (`Count` counts them along the calls), and a second instance is set only when all are there. For a value at the
  place behind the last one of a slot lands in the name of the next slot (`Past`), where adding the next
  resource would write over it. The calls are a sequence that `FlattenSeq`, a fold, puts together from one
  part per instance; `Counts` is proved of the parts and carried over to the whole.
* `Filled` alone says nothing about memory. `Structured` does: every structure has its buffers and integers,
  numbers that an integer holds, and unless a text as long as its buffer was written to it, each
  buffer holds the text last put there with its terminator. The two are inductive together (`IsStructured`): a
  write goes where the table leads, which is `Filled`, and leaves memory well formed, which is `Structured`.
* `ResourcesReadAsWritten`: a path leads to the pointer of its resource and instance (`Filled`), whose text or
  number is the one put there (`Structured`), and the conversions to text and TLV lose nothing on
  the way (`ValuesProofs`), but what of a number a long does not hold. A run cuts Args: what it leaves of a text is
  stated apart from how `strtok` does it (`Left`: the first word, or the spaces before it but one), and
  `LeftCuts` shows that the cuts of the code leave just that; `CutStructure` that they keep memory well formed.
* `WholeAgreesWithParts`: the records of a whole object are those of its readable resources, one behind the
  other, by induction over the resources; each is compared with what a read of that resource gives, which
  goes through text and back.
* `WritesKeepOthers` also covers overlong texts: the terminator of a text as long as its buffer goes right
  behind it, into the next buffer or the lowest byte of the state, and nothing else changes. A run cuts
  where the words of Args end and right before them, in the last byte of the name. `CutChanges` shows that one
  text changes all the same: Args may read on into the buffers behind, if theirs lost its terminator, and the one
  buffer with a terminator that the cuts reach is where they end (`ArgsEnd`).
* The assumptions on the constants: a buffer `Temp` has room for three integers with their headers and is
  below the third power of `Base`, an integer holds the device's voltages (`WidthAssumption`: the code has 64
  bytes, integers of 8, and base 256); the texts the device is built with fit their buffers and no text has a
  terminator in it (`InputAssumption`).

**System** (`Lwm2mSystemProofs`), for any number of requests, restarts and packets on the way

* The proofs follow one scheme. `StepCases` splits a step into a step of the server, with the client
  untouched, and one of the client, with the server untouched; a lemma per engine says what its
  handlers do to the part an invariant is about (`ServerRecords`, `ClientRegistered`,
  `ServerListStep`, `WatcherAfterAction`, ...). The engines are reached through INSTANCE, whose lemmas
  the prover does not carry over, so that the facts about their operators are proved here again,
  only as far as the composition needs them.
* `RegisteredStaysKnown`. The inductive invariant is `LocationsKept`: not only what the client
  holds, but every 2.01 that may still arrive names a location that the server keeps.
* `ShownAsAsked`, by `WatchersAsked`: a watcher's token is one the server sent for its path. The token
  outlives the packet, so the property alone does not carry over a notification.
* `ReadsAreCurrent`. `RequestsOK` says that a packet with the message ID of a pending request is that
  request, which rests on the list lying below `nextMID` (`ListOK`) and on no message ID being
  used twice; `AnswersOK` that every 2.05 answers a request; `HeldOK` that the answers to a pending read
  are among the values held meanwhile; `CallsOK` that while the client moves, `calls` of the server holds
  nothing but requests given up.
* `ResultsAreAnswers`, for a system without observe requests. There everything the client sends
  besides its own requests is an answer (`OnlyAnswers`). The hypothesis is needed: a notification draws
  its message ID from the client's counter and meets the server's, which is what
  `MCSystem_collision` shows.
* `RegisteredWasAcknowledged`. A 2.05 settles the observation that the request with its message ID carries,
  and an identifier that was freed is taken again for another path; `CarriersOK` (a carried observation
  has the path of its request, and one carrier) keeps the two apart. A colliding notification may
  settle such a request too, but never as acknowledged, since it is a 2.04; that its message ID is one
  of the model's is `MidsOK`.
* `NotifiedWhileTokensKept`: `NotifiedOfItsPath` is false (`MCSystem_cancel`), but true of every behaviour
  in which no token is given to two paths, so that reused tokens are the only way it fails. It needs
  that every observation was made by a request with its identifiers as the token (`ObservationsMade`),
  and that whatever has an Observe option is shown, of one path (`ObservedIsShown`).
* Two assumptions on the constants: the client has finitely many resources, and the NULL of a list is no
  element of it and no message ID (`NoneAssumption`).

### Only model-checked

Liveness (`RequestSettles`, `RegistrationSettles`, `DownloadSettles`, `EndIsNoticed`): fairness and ENABLED
are out of the prover's reach. Every safety property of a passing run is stated by a theorem.
`ResultIsAnswer` with observe requests holds in the runs that check it because the bounds of
`MCSystem_requests` leave notifications out; beyond that it is false, see above. `NotifiedOfItsPath`
is false without the hypothesis of its theorem, and has a run that shows it.

## 5. Not modelled

* The CoAP codec is vendored code: of `er-coap-13` only the two retransmission constants are used, and
  packets that do not parse never reach the handlers.
* Floating point (`lwm2m_PlainTextToFloat64`, `lwm2m_floatXXToPlainText`) has no counterpart in TLC.
* `INT_MIN` in `lwm2m_intToTLV`: its negation overflows, which C leaves undefined; the integers
  checked stop before it, and `ObjectTable` calls a read of an object that holds it undefined.
* A process identifier that the system gives to another process after a child was reaped: `pid` of an
  entry would then name a stranger. In `Applications` an identifier is used once.
* The failure of the one `calloc` of a constructor before the program starts.
* The command line, hexadecimal dumps, the example `tests/TLV/decode.c` and the sensor files
  `object_device.c` reads are I/O.
* Message IDs do not wrap: the bound stops before. To meet an old transaction the list would have to
  hold 65536 requests made within the 12 seconds a transaction lives.

## 6. Plan

1. (done) `Transaction`, `Lwm2mServer`, `RequestService`; the invariant and its proof.
2. (done) `Lwm2mClient`, `Registration`.
3. (done) `Lwm2mSystem`: both engines over a network that loses, duplicates and reorders.
4. (done) `Applications` and its proofs.
5. (done) `ObjectTable`: the resource table, its bounds and the memory behind it.
6. (done) `List`, `Uri`, `Values`, `Conversions`: the pure modules against reference definitions.
7. (done) Theorems: timers for any lateness, one result per request, unique names, stable locations,
   the client's invariants and action properties, both refinements, lists of any length, paths.
8. (done) Invariants of `Lwm2mSystem`, and from them its safety properties: registrations that are
   known, answers that are current, observations that were acknowledged.
9. (done) Integers in text and TLV, records, payloads and object lists of any length; the table of
   resources, what is read of it and what a write to it keeps.
10. (done) What ends in undefined behaviour, completely: Block2 options, every allocation that is not looked
   at, payloads that outlive their owner; executes and runs on the table of resources.
