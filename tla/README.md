# Verification of the C++ Kafka client

TLA+ specifications of the Kafka client of this repository (`KafkaProducer`,
`KafkaConsumer`, their messages and callbacks, on top of librdkafka), with the
TLC configurations that check them on small instances and the TLAPS proofs of
the properties that matter most.

## 1. Inventory

The program's own code is about a thousand lines. Everything under
`src/common/include/kafka` and `src/common/include/json` is vendored;
librdkafka's implementation is not in the repository, except for the code its
headers hold inline.

| Component | State | Operations | Interacts with |
|---|---|---|---|
| `KafkaProducer` (`KafkaProducer.cpp`) | `producer`, `_globalConf`, `_eventPoll` (`bRun`, `producer`, `timeOut`), `_pollingThreadId`, `_strTopic`, the two callback objects | `initKafka`, `send`, `pollEvent`, `closeKafka`, destructor, the polling thread | librdkafka (`produce`, `poll`, `outq_len`, destruction), the callbacks, the application's threads |
| `ProducerCallback` | `_sendCallback`, `_isDefaultCallback` | `dr_cb`, `setSendCallback`, constructor, destructor | called inside `poll()` by any thread; calls the application's `ProducerISendCallback` |
| `ProducerDefaultSendCallback`, `ProducerEventCallback` | none | `success`, `fail`, `event_cb` (print) | called inside `poll()` |
| Message and headers (`KafkaMessage`, `_createKafkaHeader`, `_getRandomUUID`) | key, command, version, content type, contents | encoding as headers and payload; random message id | `send`; the consumer's decoding |
| `KafkaConsumer` (`KafkaConsumer.cpp`) | `consumer`, `_globalConf`, `_pollPeriod` | `initKafka`, `consume`, `closeKafka`, destructor | librdkafka, the broker's committed offsets |
| librdkafka producer handle | messages and their status, the reply queue, `rk_curr_msgs` | accept, transmit, retry, expire, report, destroy | broker threads, the broker, the threads in `poll()` |
| librdkafka op queue (`rdkafka_queue.h`) | list of ops, length, flags, forwarding | enqueue, dequeue, concatenate, forward, disable, destroy | every library thread |
| Example program | none | the calling order an application follows | producer, consumer |
| JsonCpp | - | vendored, unused | - |

What is hard in it:

- *Several threads poll one handle.* Delivery reports and events are served by
  whichever thread is in `poll()`: the polling thread, an application thread in
  `pollEvent`, the owner draining in `closeKafka`. A report a thread has taken
  is no longer on the reply queue and not yet delivered.
- *Closing.* `closeKafka` must wait for every report, including those another
  thread is serving and those of messages sent from a callback meanwhile, then
  stop and join the polling thread, then delete the handle.
- *Uncertain delivery.* Requests and answers are lost, late and retried; a
  report must not call a message failed that may be, or become, written.
- *Partial failure* of `initKafka` at each of its steps, and what `closeKafka`
  does after each of them.
- *Calling order*: initialising twice, destroying without closing, handing the
  same callback over twice, concurrent `send` and `closeKafka`.
- *Groups*: offsets are stored and committed behind the application's back, and
  the partition moves to another member while `consume` is handling a record.
- *Boundaries*: the queue limit, the truncated seed of the message id, fixed
  buffers, NULL keys.

`PROJECT.json` lists each hazard at its line with the properties that cover it,
or the module that will.

What makes each component correct:

- producer: every accepted message is reported exactly once before `closeKafka`
  returns; no thread is inside a deleted handle; `closeKafka` terminates;
  a message reported as failed is not in the log;
- send callback: deleted once, by its owner, and never used afterwards;
- lifecycle: after any sequence of calls every handle, configuration and thread
  is released once, none is used after release;
- message id: distinct for distinct messages, a version 4 UUID (it is neither,
  section 6);
- message: what `consume` returns is what `send` was given;
- consumer: every fetched message is freed once, failures of `initKafka` can be
  closed, no message is skipped over a restart or a rebalance;
- op queue: no op lost or duplicated, order kept, every counted reference
  dropped once, nothing left in a queue that nobody polls.

## 2. Plan

| Order | Module | What | Status |
|---|---|---|---|
| 1 | `RdKafkaProducer` | the handle, the accounting, transmission, the broker | done |
| 2 | `KafkaProducer` (extends 1) | threads, `send`, `poll`, `closeKafka`, polling thread | done |
| 3 | `DeliveryContract` | the abstract promise; `KafkaProducer` implements it | done |
| 4 | `KafkaProducerProofs` | inductive invariant, the safety theorems, the refinement | done |
| 5 | `ProducerLifecycle`, `ProducerLifecycleProofs` | what one object owns over failed and repeated `initKafka`, `closeKafka` and the destructor: configurations, handles, threads, the send callback | done |
| 6 | `RdKafkaConsumer` | the consumer group: one partition, assignment, stored and committed offsets | done |
| 7 | `KafkaConsumer` (extends 6) | initialisation and its failures, `consume`, `closeKafka`, death and restart | done |
| 8 | `ConsumeContract`, `KafkaConsumerProofs` | the abstract promise, implemented by a consumer alone in its group; the safety theorems | done |
| 9 | `Messages` | a message from `send` through its record and its report to `consume`: headers, body and key byte by byte, the message id, who frees the header list | done |
| 10 | `OpQueue`, `EnqOnce` (extends it) | `rdkafka_queue.h`: counted references, forwarding, priorities, disabling; the op that several sources trigger | done |
| 11 | `EnqOnceProofs` | the inductive invariant of the queues and of the eonce, and the safety theorems | done |
| 12 | `ListLemmas` | least and greatest numbers; what appending, removing and inserting do to lists | done |
| 13 | `MessagesProofs` | what the conversions do to any bytes and numbers; the safety theorems about messages of any size | done |
| 14 | `OpPlacesProofs`, `OpOrderProofs` | where every op of the queues is, and in which order | done |

The two contracts are where the halves meet: `DeliveryContract` says which
records a producer lets into the log, `ConsumeContract` what is made of a log.
A module that composes the detailed halves would repeat what the contracts,
which the detailed modules are proved to implement, already separate.

## 3. The producer

### `RdKafkaProducer`: the handle and the broker

`stage` says where each op is. An op is what the reply queue carries: the
delivery report of a message (one element of `Msgs` per call of `send`) or an
event (`Events`).

    new -> rejected                                     produce() fails
    new -> outq <-> inflight -> repq -> taken -> done   the usual life
    new -> repq -> taken -> done                        an event
    any in-queue stage -> lost                          rd_kafka_destroy()

`currMsgs` is `rk_curr_msgs.cnt`, translated from `rdkafka_int.h`
(`CurrMsgsAdd`, `CurrMsgsSub`): a message is counted from the moment `produce`
accepts it until its callback has returned. `OutqLen`, which `closeKafka`
polls, adds the ops on the reply queue, and so does not see the events a
thread has already taken. `wire` holds the requests on their way, `log` what
the broker has written, `status` the client's belief (`rkm_status`), which is
never downgraded. `Transmit`, `BrokerAppend`, `RequestLost`, `Ack`, `Refuse`,
`Retry` and `GiveUp` are the broker threads, the network and the broker; they
are external code, modelled from the documentation in the vendored headers. A
request may reach the broker long after the client gave up on it, or never;
an answer may be lost. Acknowledgements are taken to mean "written", as with
`acks=all`, the default and what the example configures.

The reply queue is a set: reports may be served in any order, which allows
every order the real FIFO queue has. How such a queue works inside is the
subject of `OpQueue`.

### `KafkaProducer`: the threads

| Code | Actions |
|---|---|
| `initKafka` | `InitFails` (configuration refused or `create` returned NULL), `InitOK`, `InitNoThread` (`pthread_create` failed, unnoticed) |
| `send` | `SendBegin` (headers built, `produce` entered), `SendProduce` (accepted, or refused) |
| `pollEvent`, `producer->poll` | `PollEvent`, `PollTake` (all queued ops become the thread's `batch`), `PollTimeout`, `DrCb` and `EventCb` (a callback is entered), `CallbackReturn` |
| `EventPoll::eventPoll` | `ThreadCheck` (reads `bRun`) |
| `closeKafka` | `CloseBegin`, `Drain` (one test of `outq_len() > 0`), `Stop`, `Join`, `JoinBad`, `Delete` |

`pc[t]` is where thread `t` is, `batch[t]` and `current[t]` the ops it has
taken and the one it is serving, `sending[t]` the message it is producing.
`reports[m]` records the calls of `success` and `fail`. A callback may itself
call `send` (`ResendInCallback`), from any thread that polls.

The constant `Quiesce` is the one assumption on the application: it calls
`closeKafka` when none of its threads is in `send` or `pollEvent`, and starts
no such call until it returns. The class itself does nothing to ensure it; the
run `poll_during_close` shows what happens otherwise. Callbacks are not
concerned: they may send at any time.

Undefined behaviour is a choice: an uninitialised `_pollingThreadId` is zero or
garbage; joining garbage fails and is ignored, or kills the process. A call on
a deleted handle has no successor, and `NoUseAfterDelete` says there is none.
`bRun` is a plain `bool`; the Makefile builds with `-O0` and `poll` is an opaque
call, so each iteration reads memory and the model reads the variable.

### `DeliveryContract`

The promise to the application: each accepted message is reported exactly once;
the producer does not close before; a message reported as failed is not and
will never be written. Mapping: `open` is `producer # NULL`, `accepted` the
messages past `produce`, `result` is `reports`, `written` is `log`.

## 4. What one producer object owns

`ProducerLifecycle` looks at the same code from the heap. Each call of
`initKafka` is a generation `g`; it allocates configuration `g` and, if it gets
that far, handle `g` and polling thread `g`. `confs` and `handles` are what is
allocated; `conf`, `producer`, `tid`, `bRun`, `evProducer`, `sendCallback` and
`isDefault` are the members of the object, of which there is one of each,
whatever generation they were last set by. `frees[o]` counts the deletions of a
send callback. `mine` is the callback the application still has to delete: the
class deletes the default callback and every callback that is replaced, but not
the last one it was given (`ProducerCallback.cpp:12-22`, `43-53`).

| Code | Actions |
|---|---|
| `_setProducerConfiguration`, `initKafka` | `InitFailsEarly` (before the callback is handed over), `InitFailsLate` (after), `InitNoProducer`, `InitOK` |
| `ProducerCallback::setSendCallback` | `SetSendCallback`, through `HandOver` |
| `send` | `Send`: the handle has something to report |
| polling thread | `ThreadCheck`, `ThreadPollReturns`, `ThreadReport`, `ThreadReported` |
| `closeKafka` | `CloseBegin`, `Drain`, `Stop`, `Join`, `Delete` |
| destructors | `Destroy` |

How messages reach a report, and a failing `pthread_create`, are the subject of
`KafkaProducer` and left out here. Two assumptions on the application are
constants: `CloseFirst`, that it calls `closeKafka` before it initialises again
or destroys the object, and `FreshCallbacks`, that it hands no callback over
twice (the class would delete it at the second hand-over and keep the pointer).
With both, `NoUseAfterFree` and `NothingLeft` hold whatever calls fail. Without
`CloseFirst` the configuration of a failed `initKafka` is leaked when the object
is destroyed (section 8).

## 5. The consumer

### `RdKafkaConsumer`: the group

External code, modelled from the documentation of the vendored headers and from
the defaults the code leaves in place (`enable.auto.commit`,
`enable.auto.offset.store`). One partition: `end` is its length, `committed` the
group's offset, `assigned` the member it belongs to, `position[c]` and
`stored[c]` what member `c` will fetch and commit next. An offset is stored
before the call that returns its record does. A member that was expelled goes
on with its position until it notices, but can no longer commit. `skipped`
records the offsets that `auto.offset.reset = latest` jumped over.

### `KafkaConsumer`: the processes

Each member of `Consumers` is a process with one `KafkaConsumer`, used by one
thread as in the example program, that dies and is restarted without bound.

| Code | Actions |
|---|---|
| `initKafka` | `InitFails` (configuration refused), `InitNoConsumer` (`create` returned NULL), `InitNoSubscription` (`subscribe` failed), `InitOK` |
| `consume` | `Fetch` or `FetchError` (`consumer->consume` returns), then `ConsumeReturns`, `ConsumeFails`, or `NullKey` (the record has no key and `message->key()` is NULL) |
| `closeKafka` | `CloseBegin`, `CloseConsumer` (`close()`), `NullClose` (`close()` through NULL), `Delete` |
| process | `Die`, `Restart` |

`received` and `dropped` are histories: the offsets `consume` has returned, and
those it was handling when its process died. Between `Fetch` and the end of
`consume` the group may rebalance, commit, or expel the member. A NULL
dereference ends the process.

What is promised: `LossOnlyByDeath` (a committed record was returned, or died
with the process handling it, or lay before the group's first offset) and
`NoGap` (nobody runs ahead of what the group has dealt with). Order across
members is *not* promised: a member that is handling a record when the
partition moves may return it after its successor has returned later ones.

### `ConsumeContract`

For a consumer alone in its group that starts at the earliest record: records
arrive in order, possibly again; closing loses none; a death loses at most one.
Mapping: `open` is `started` of some member, `delivered` is `received`, `lost`
the committed offsets nobody returned or holds.

## 6. The message

`Messages` follows the bytes. A text is the sequence of its bytes, so that what
the conversions do to it can be seen: `sprintf` of the version into five bytes
(`Overflows`), header values that the consumer reads as C strings (`CStr`),
`strncpy` into the body buffer (`Buffer`), the seed of the message id in the 32
bits of an `unsigned int` (`Seed`), the mask of its variant digit (`Variant`).
`sent` records what `send` was called with and read from the clock; `log` is the
topic, with records of other producers among ours.

| Code | Actions |
|---|---|
| `send`, `_createKafkaHeader`, `_getRandomUUID` | `Create` (six headers; the clock is read twice), `Accepted`, `Refused` |
| the default send callback | `Report`, which may detach the headers from the message, and `Reported`, where message and report are destroyed |
| `consume` | `Consume`, `ConsumeFails` |

`owners` says who has to destroy the header list of each `send`: `send` itself
until `produce` takes it, the message, or the report whose callback has asked
for the headers. The application passes the same `ReceivedMessage` to every
`consume`, so `received` is what the earlier calls have left in it.

Where C++ leaves the outcome undefined, the model notes it and stops: a version
of more than four characters, a NULL key, a NULL body (`strncpy` from NULL, with
the length 0 of a tombstone), a body that fills the buffer or more (`Misfits`).
`PlainIsDefined` says that nothing else is undefined; `ReadsBack` and
`OfOneRecord` that the rest comes out as it was put in, up to zero bytes.

The digits of a message id are `rand_r(&seed) % 16`. `rand_r` is modelled as glibc
implements it (`Rand`, external): a digit is the bits 16 to 19 of a linear
congruential state, so all of them (`Drawn`) depend on the low 20 bits of the seed
only, though the seed keeps 32. `IdsRepeatByPeriod` says exactly what that gives:
two sends have the same id if and only if the clock readings are a multiple of
2^20 microseconds, 1.048576 s, apart. "create random uuid" (`KafkaProducer.h:90`)
and the template `4xxx-yxxx` promise more. That two messages never have the same
id is false by that equivalence, 1.048576 s later or within one microsecond; that the
variant digit is 8, 9, A or B (`IdIsUuid`) is refuted by the run `uuid_variant`: the
mask 0x03 | 0x08 clears bit 2 and sets nothing, so that 0 to 3 come through as well.

## 7. The op queue

librdkafka's threads and the application's talk through the queues of
`rdkafka_queue.h`, almost all of which is inline. A delivery report reaches the
polling thread through one (`rk_rep`), a record reaches `consume` through
another, which is forwarded to it.

### `OpQueue`

Each action is one section under a queue's lock. `refcnt[q]` counts the owner's
reference and those of calls on their way (`path[t]`), of queues that are
forwarded to `q`, of ops that are answered there and of the eonce. A call that
meets a forward keeps the destination, lets go of the lock, and goes on there
(`Follow`); meanwhile forwards change, and queues are disabled, purged and
destroyed.

| Code | Actions |
|---|---|
| `rd_kafka_q_enq1`, `rd_kafka_q_enq`, `rd_kafka_replyq_enq` | `Send` and `Reply` set out; `Follow`; `EnqHere`, or `EnqRefused` when the queue is disabled (the op goes to its reply queue or is destroyed); `Return` drops the references, last one first |
| `rd_kafka_q_yield` | `Nudge`, `Follow`, `NudgeHere`, `Return` |
| `rd_kafka_q_serve` | `Poll`, `Follow`, `Take`, `Wait`, `Yielded`, `Timeout`, `Serve`, `ServeYield` (the rest goes back through `rd_kafka_q_prepend0`), `Served` |
| `rd_kafka_q_fwd_set0`, `rd_kafka_q_concat0` | `Forward`, `Unforward` |
| `rd_kafka_q_destroy_owner`, `rd_kafka_q_purge0` | `DestroyOwner`, `Purge`, `DestroyNext`, `Purged`, `Return` |
| `rd_kafka_q_destroy_final` | `Final` |

`Sends` and `Forwards` say which threads send what where; an owner forwards to
queues that are in use and never in a circle. `rd_kafka_q_prepend0` signals
nobody and does not look at READY, so only the owner of the last queue may put
ops back (`Yielding`); that is how it is used. Three things in the header's
comments are not what the code does, without consequence for these properties:
`rd_kafka_q_enq1` returns 1 through a forward even if the op was destroyed
(line 436 against 395), `rd_kafka_q_reenq` puts ops without priority at the tail
(373 against 461), and `rd_kafka_q_concat0` follows forwards of the source
without a lock.

### `EnqOnce`

`rd_kafka_enq_once_t`: an op that a timer, a broker and others may trigger, and
that the first of them enqueues. One eonce: `New`, `AddSource`, `DelSource`,
`Trigger`, `Reenable`, `Disown` (`destroy` and `disable`).

Properties: `RefcntExact`, `NoUseAfterFree`; `OnePlace` (no op is lost or
doubled); `NoOvertaking` (ops without priority keep their order through
forwards, concatenations and put-backs, where all forwards lead to one queue;
otherwise a third queue could reorder them when forwards change);
`NothingStranded` (nothing stays where nobody
polls); `EonceAsserts` (the code's assertions); `OpsEnd` and `AllFreed`.

## 8. Runs

| Run | Instance | Shows |
|---|---|---|
| `delivery` | 3 messages, limit 2, 1 application thread, 1 event, 2 initialisations | `TypeOK`, `ClosedMeansReported`, `OutqCounts`, `FailMeansNotWritten`, `NoUseAfterDelete`, `TakenByOne`, `ImplementsContract`, and `IInv`, the invariant of the proofs |
| `live` | 2 messages, limit 2, 1 application thread, 1 event, no symmetry | `CloseTerminates`, `EveryAcceptedReported` |
| `lifecycle` | 4 initialisations, 3 callbacks | `TypeOK`, `NoUseAfterFree`, `NothingLeft`, `IInv` |
| `group` | 2 members, 2 records, `latest` | `TypeOK`, `LossOnlyByDeath`, `NoGap`, `IInv` |
| `single` | 1 member, 3 records, `earliest` | `CloseReturns`, `ImplementsContract`, `AloneInv` |
| `reply_queue` | 2 queues (an application's, forwarded or not to the main thread's), 3 threads, 3 ops of 2 priorities, 2 sources | `TypeOK`, `RefcntExact`, `NoUseAfterFree`, `OnePlace`, `NoOvertaking`, `NothingStranded`, `EonceAsserts` |
| `ops_end` | the same with 2 threads, 2 ops, 1 source, and `rd_kafka_q_yield` | `OpsEnd`, `AllFreed` |
| `messages` | 2 sends, 7 messages to choose from, 4 records of others to choose 1 from, buffer of 4 bytes, seed of 21 bits | `TypeOK`, `ReadsBack`, `OfOneRecord`, `PlainIsDefined`, `FreedOnce`, `IdsRepeatByPeriod`, `SameIdEverywhere` |
| `poll_during_close` | `Quiesce` off | `NoUseAfterDelete` is violated: `pollEvent` on its own thread, as the header asks |
| `blocking_poll` | `nTimeOut` -1 | `CloseTerminates` is violated: nothing wakes the polling thread |
| `close_failed` | 1 member | `CloseHasConsumer` is violated: `close()` on a NULL consumer |
| `uuid_variant` | as `messages` | `IdIsUuid` is violated: a variant digit below 8 |

Bounds. Three messages with a limit of two fill the queue, refuse a send and
leave room again; with three a thread can serve one report while another thread
holds a second and a callback sends the third. One event suffices for a batch
that holds an event and a report, and for the drain loop to end while the
polling thread still serves an event. Two initialisations exercise a stale
thread id and a second polling thread; the owner, an application thread and the
polling thread poll one handle (more threads are the proofs' subject).
`MaxOpens` and the one-time events are the only bounds on behaviour, the sizes
of the sets and `MaxMsgs` the only bounds on data; retries are unbounded.

In `lifecycle`, `MaxInits` = 4 leaves room for a success, a failure, and a
success again, with one more; three callbacks make one replaced, one in place
and one to come. In `group`, two records let one be held by an old member while
the new one takes the other; `MaxLog` is the only bound, deaths, restarts and
rebalances are unbounded. `single` has three records, so that one is lost while
others are on both sides of it. The passing runs of these three components
also let TLC confirm the invariants that the proofs start from. In `lifecycle`
the system may stop (the object is destroyed), so deadlock is not checked; nor is
it in the two runs of `Messages`, which stops at what is undefined, and in the
two runs of the queues, where all queues may have been given up.

In `reply_queue` the application sends a request to the main thread's queue and
wants its answer on its own, while the main thread and a timer thread send to
that queue, which is forwarded, unforwarded, disabled and destroyed at any
moment: an op can be on its way through the forward when it is changed, behind
another, or refused at both ends. Each op is sent once; polls, waits, timeouts,
yields and changes of the forward are unbounded. `ops_end` has no timer thread,
so that the liveness properties fit. Of the eonce `reply_queue` has two sources,
outstanding at once, which three threads trigger while its owner gives it up or
re-enables it; they are told apart by nothing, so TLC takes them for symmetric.
`ops_end` has one source, triggered by both threads.

In `messages`, bodies of three, four and five bytes with and without a zero byte
lie on both sides of a buffer of four, versions of four and five characters on
both sides of the five bytes, and the records of others lack a key, headers or a
body, or repeat a header. The generator is the real one, with its 2^20 states. The
seed has 21 bits instead of 32: it drops higher bits of the time, as the code's
does, and keeps the 20 that the digits depend on. TLC's integers have 32 bits,
so the pauses are 8 and 1048568 microseconds: two sends can be 16, 2^20 or
2^21 - 16 microseconds apart, which covers a repetition and both of its neighbours.
`Start` = 1048990 puts the readings of one `send` on one or on both sides of a
millisecond and lets the seed wrap. For other distances, clocks and widths there
is the theorem.

Fairness (`FairSpec`): a thread inside the library, inside `closeKafka` or in the
polling loop is eventually scheduled (weak fairness of its steps; callbacks are
assumed to return), and every queued or unanswered message eventually expires
(`message.timeout.ms` is finite unless the application sets it to 0). Nothing is assumed
of the application's calls, of the broker's answers or of the network. For the
consumer, a thread inside `consume` or `closeKafka` is scheduled (weak fairness
of `ConsumeStep` and `CloseStep`); nothing is assumed of the library, the
coordinator or the application. For the queues, a thread inside a call is
scheduled unless it sleeps, an owner polls its queue again and again until it
gives it up and answers what it was asked (strong fairness, since other calls
of the same thread come in between), and the last reference frees the queue.
Nothing is assumed of timeouts: a waiter that is never signalled sleeps on.

Every property has a mutant, a plausible slip in the code that TLC finds to
violate it: the drain loop looks at the reply queue only (`OutqLen_RepliesOnly`),
the limit is off by one or a message is not counted (`CurrMsgsAdd_OffByOne`,
`CurrMsgsAdd_Uncounted`), taken ops stay on the queue (`RkTakeAll_NoReset`), an
uncertain delivery is reported as failed (`Verdict_Strict`), the loop of the
polling thread is inverted (`ThreadCheck_Inverted`), `closeKafka` does not join,
or joins without clearing `bRun` (`Stop_NoJoin`, `Stop_StillRunning`); the
destructor deletes a callback that is not its own (`Destroy_Always`), a replaced
callback is not deleted (`SetSendCallback_NoDelete`); a failed `consume` keeps its
message (`ConsumeFails_NoDelete`), a record without headers is taken for a
failure (`ConsumeReturns_NoHeaders`); a temporary reference to a queue is not
taken or not dropped (`Follow_NoKeep`, `Drop_Never`), a refused op is forgotten
(`EnqRefused_Leak`), what is put back goes behind (`PutBack_Behind`), the owner
does not disable (`DestroyOwner_NoDisable`), nobody is signalled
(`EnqHere_NoSignal`), a source is not counted or a queue not released by the
eonce (`AddSource_NoRef`, `Disown_KeepQueue`); the body buffer is not cleared
(`ReadInto_NoMemset`), the first of repeated headers wins
(`ReceivedHeaders_First`), the seed loses its seconds (`Seed_NoSeconds`), the
logged id is not the header's (`CreateHeaders_Again`), the headers are not detached
(`Report_NotDetached`).

Three disagreements are known but have no run of their own. `initKafka` tests
`pthread_create(...) < 0` (`KafkaProducer.cpp:109`), but a failure is a positive error
number: it goes unnoticed and `initKafka` returns true without a polling thread
(`InitStartsPolling` in `KafkaProducer` fails when `ThreadCreateFails`; what
follows from it, up to the join of a bad thread id, is part of `delivery`). With
`CloseFirst` off, `NothingLeft` fails for an object that is destroyed after a failed
`initKafka`: the destructor's `wait_destroyed(5000)`, "memory leak 방지"
(`KafkaProducer.cpp:139`), waits and frees nothing. And a report of success does
not mean that the message was written (`SuccessMeansWritten` in `KafkaProducer` fails
with one message): `dr_cb` calls `success()` for `MSG_STATUS_POSSIBLY_PERSISTED`, which
`rdkafkacpp.h:2170` describes as sent but not acknowledged, and the default callback
prints "Kafka Produce Success".

## 9. Proofs

`KafkaProducerProofs` proves, for any finite sets of messages, events and
threads, any limit and any number of initialisations, assuming `Quiesce`:
`TypeCorrect`, `AccountingExact`, `DeleteIsSafe`, `NoReportMissing`,
`TakenOnce`, `FailIsFinal` and the refinement `Implementation`. All follow from
`Invariance`, that `IInv` is inductive. Its parts need each other:

- `CountInv` (the counter is the number of outstanding messages) is what makes
  `currMsgs` a natural number at all, so even `TypeOK` is not inductive alone;
  it needs
- `HolderInv` (every taken op is held by exactly one thread), so that a callback
  that returns removes a message that was counted;
- `PlaceInv` and `RoleInv` tie what a thread holds to where it is;
- `CloseInv` is the protocol of `closeKafka`: after the drain loop nothing is
  outstanding, and stays so because a thread that could still add a message
  would be a callback serving an outstanding one; the polling thread runs only
  while the thread id is valid and the owner has not passed the join;
- `ReportInv` and `WriteInv` tie reports to stages and the client's belief to
  the broker's log: while a message is believed not persisted, at most the
  request being waited for can change that.

There is one lemma per part, with one step per action. The refinement
(`ContractStep`) maps `InitOK` and `InitNoThread` to `Open`, an accepting
`SendProduce` to `Accept`, `DrCb` to `Report`, a first `BrokerAppend` to
`Write`, `Delete` of a live handle to `Close`, and everything else to a
stutter.

`ProducerLifecycleProofs` proves, for any set of callbacks and any number of
initialisations, assuming `CloseFirst` and `FreshCallbacks` (`Disciplined`):
`TypeCorrect` (nothing is deleted twice), `UseIsSafe` and `AllReleased`. The
invariant has three parts: `HeapInv` (at most one handle and one configuration
are allocated, the ones the members point to), `ThreadInv` (at most one polling
thread runs, the one that will be joined, on the handle that will be deleted)
and `CallbackInv` (exactly which callbacks have been deleted). `InitBeginFacts`
is the heart of it: when `initKafka` may be called, nothing of the earlier
generations is left.

`KafkaConsumerProofs` proves, for any group and any number of records,
`TypeCorrect`, `NoSilentLoss` and `Gapless`; the invariant behind them
(`CoverInv`) is that nobody fetches, stores, commits, handles or has received
an offset before all the earlier ones are covered, where an offset is covered
once it is received, held, dropped or skipped. For a member alone in its group
that starts at the earliest record (`Alone`), `Implementation` proves the
refinement of `ConsumeContract`; it needs `AloneInv`, that all a member has
fetched past the committed offset is received but the record it holds, so that
a death loses that one only.

`EnqOnceProofs` proves, for any finite sets of queues, ops, threads and sources
and whoever owns, sends and forwards what: `TypeCorrect`, `RefcntCorrect`,
`NoUseAfterFreeHolds`, `EonceCorrect` and `NothingStrandedHolds`. The invariant
ties the counter to its holders: `AskInv` (an op that asks for an answer has
been sent), `CallInv` (what each call holds where it is, and that the queue
whose lock it takes next is one it holds a reference to, or its own),
`CallsFinite` (so that holders can be counted), `RefcntExact` itself, `FreeInv`
(a freed queue has no reference and no ops) and `EonceAsserts`. Each holder is a
set; its cardinality changes by one exactly when the step adds or removes a
reference, which is what the lemmas on `Forwarding`, `Asking` and `Calling` say.

`NothingStrandedHolds` strengthens that invariant (`StrandedInv`): a queue is
ready exactly while it is owned, a forwarded queue is empty, and ops in a queue
without an owner have a thread at that queue's lock to purge it
(`PurgerPreserved`: the thread stays there until the list is empty). Its
hypothesis `YieldersDoNotForward`, that threads whose callbacks yield have no
forwarded queue, is needed: `rd_kafka_q_prepend` does not look at `READY`, so a
thread that puts its rest back through a forward could put it on a queue that
the other owner has purged in the meantime. The instance of the runs satisfies
it.

`OpPlacesProofs` proves `OnePlaceHolds` from the invariant `OpInv`: `PlaceInv`
(an op is not sent, settled, on the eonce, or with exactly one thread or queue,
and then nowhere else), `ListInv` (no op is twice in a list, and `rkq_qlen` is
its length) and `HandsInv` (a thread carries an op exactly while it is in
`rd_kafka_q_enq1`, and has ops moved out only while it serves or destroys
them). Its first half is about the operators: `SortedAdds` and `Enq0Adds` (an
insertion adds the op, keeps the others in their order, and puts an op without
priority behind all), `ConcatMerges` (a concatenation loses and doubles nothing,
and keeps the order of ops without priority). The list that `Concat` builds op
by op is a recursive function; that there is one, and what its members are, is
shown from the least index where it would fail (`GoesOn`, `GoesTakes`). The
second half has one lemma for each way an op moves (`TakesUp`, `PutsDown`,
`MovesOut`, `HandlesOne`, `SettlesOne`, `PutsBack`, `Concatenates`, `SetsUp`,
`TakesBack`), to which the actions are reduced.

`OpOrderProofs` proves `NoOvertakingHolds`. What stands in line in a queue is
more than its list: a thread whose callback yields will put the rest of what it
has taken back before the list (`Back`). `OrderInv` says of an op `o` and an op
`a` that waited when the call that brings `o` began: in no line is `o` before
`a`; if they are in two lines, `a` is in the last queue already; and while `o`
is carried, it is on its way to the line of `a` or `a` is in the last queue. Most
actions only make lines shorter (`OrderLoosened`); the others are those that set
out (`OrderNoted`), enqueue, follow, take, put back and forward. Its hypotheses
are `YieldersDoNotForward` and `LeadsTo(h)`, that all forwards lead to one queue
`h` and none leads out of it, as those of a consumer do: its main queue and its
fetch queues are forwarded to the consumer queue (`rdkafka.h:3213-3218` and
`4846-4853`). The instance of the runs satisfies both.

`MessagesProofs` proves, for any messages, records of others, buffer size, clock and
width of the seed of 20 bits or more: `TypeCorrect`, `ReadsBackHolds`,
`OfOneRecordHolds`, `PlainIsDefinedHolds`, `FreedOnceHolds`, `SameIdHolds` and
`IdsRepeat`. Here what is said of the conversions carries the weight:
`CStrReads` (a C string is what precedes the first zero byte), `BufferReads` (what
`strncpy` and the reading back leave of a body), `DecimalIsText` (what `sprintf`
prints of a number has as many bytes as it has digits, none of them zero),
`UuidIsCStr` (an identifier is text without a zero byte), `SixReceived` and
`LastOfName` (what the caller gets of six headers, and of repeated ones).

`IdsRepeat` (`IdsRepeatByPeriod` without a hypothesis on the generator) needs both
directions. That a period gives the same digits is `SeedKeeps`: the seed keeps the
low 20 bits of the time. That nothing else does is about glibc's constants:
`DrawnDraws` says what the recursive function of the states is (its equation
shown by the least index that breaks it, `StepsGoOn`); by `RandTurns` a step
multiplies the distance of two states, up to a turn of 2^20; two states with the
same digit are less than 2^16 apart (`SameDigitIsClose`); and two different states
cannot keep so close over all digits: nine combinations of successive
distances with small coefficients would have to be both short and a turn or
more (`NoCloseDistances`). So the nine digits before the eleventh character tell the
states apart (`DigitsTell`), and with the characters the digits are written in
(`HexTells`), the identifiers (`SameIds`).

The invariant `Inv` of `MessagesProofs` adds the
histories: `SentInv` (what each send read, drew and logged), `OwnerInv` (the
owner of each header list in each state of its message, and that it has not
been destroyed before), `BegunInv` and `PrintedInv` (which sends have begun, and
which identifiers were printed), `LogInv` (each of our records has the headers of
its send), `ReceivedInv` (what the caller holds comes from the record before
`next`) and `HarmInv` (what has made something undefined).

`ListLemmas` holds what both need: `SmallestOf` and `GreatestOf`, the well-founded
form of induction that the library offers without an operator parameter, and
lemmas on `Range`, on members that are distinct and on what is before what, for
lists that are joined, shortened and inserted into.

The models' named assumptions on the constants only say what they are (flags
are Booleans, a bound is a natural number, messages and records are made of
texts, the default callback is not one of the application's). `Quiesce`,
`Disciplined`, `Alone`, `YieldersDoNotForward` and `LeadsTo` are
hypotheses of the theorems that need them.

Every safety property that a run checks is stated by a theorem, and so are the
two refinements. Only model-checked: the liveness properties (`CloseTerminates`,
`EveryAcceptedReported`, `CloseReturns`, `OpsEnd`, `AllFreed`: fairness is out of
the prover's reach), and the refuted statements.

## 10. Not modelled

Blocking `produce` (the code never asks for it), the size limit of the queue
beside the count limit, the partitioner and topics, compression and
transactions, statistics, log output, `setDebugMode` (stored and never read),
JsonCpp, and the declarations of librdkafka that no inline code implements:
nine tenths of the repository are such headers. Log lines are left out with
what is racy in them: `getNowTimeString` (`KafkaProducer.cpp:227`) uses the
static buffer of `localtime`, which concurrent calls of `send` share.
Of the producer: the outcome of `initKafka` over a live handle, which leaks the
handle and lets two threads share one `EventPoll`, can be explored with
`CloseFirst` off but is checked by no run, since nothing claims that it works.
Of the consumer: `initKafka` over a consumer in use, the memory of a consumer
that failed to subscribe and is overwritten, one consumer shared by threads, and
several partitions. Of the op queue: IO events, timed pops, versions, sizes and
serve callbacks of ops.
