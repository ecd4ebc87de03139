# protonats in TLA+

protonats turns protobuf services into NATS clients and handlers: methods of a
`.proto` file become request/reply calls, publishes, or durable JetStream work
with an optional rollback.  A small Go runtime (and a TypeScript one for core
NATS) is what the generated code calls.  This directory models the parts of it
where the order of steps decides whether work is lost, done twice, undone
without reason, or delivered to the wrong handler.

    tlc -workers 2 -config task_adverse.cfg MCConsume.tla    # check a run
    tlapm ConsumeProofs.tla                                  # check the proofs

`PROJECT.json` lists the runs, the source lines of every definition, the
hazards and the theorems.

## Inventory of the system

### Consuming: `jetstream.go`, `acker.go`, `context.go`
State: the durable consumer and its configuration and the stream live in the
NATS server; a worker process keeps the `ConsumeContext`, the `MaxDeliver` and
`BackOff` it read at registration, and one running callback.
Operations: `resolveConsumer` (override, bind, or create), the callback (decode,
interceptors and handler, then ack, nak, or give up), `dispositionOf`, `nak`,
`giveUp`, `publishRollback`, the deferred `recover`, `Drain` and `Stop`.
`ConsumeJetStream`, `ConsumeTask` and `ConsumeRollback` are all `Conn.consume`.
Interactions: the server calls the callback; the callback answers the message
and publishes to the stream; a rollback consumer reads what it published.
Hard: several processes share a durable, AckWait makes their deliveries overlap,
answers are not waited for, a process may die between any two steps, and a
publish that reports an error may have been stored.
Correct when: given-up work is terminated only after its rollback is stored,
with one rollback that says why; nothing is acked that was not done; nothing
runs out of attempts silently; retries keep their distance; registration does
not overwrite an operator's settings; and each half of each method is handed its
own messages, once per half, or once per instance where no consumer is named.

### Errors and policies: `errors.go`, `disposition.go`, `ts/.../errors.ts`
No state.  An error crosses NATS in two headers, `error` and `code`; a missing
`error` header is success, an empty one is a failure.  A policy maps an error to
retry or terminate.
Correct when: what is read on the other side, in either language, is what was
written.

### Request/reply: `conn.go`, `ts/runtime/src/conn.ts`
State: pending requests in the client, callbacks running in the handler.
Operations: `Request` and `Publish`, `Subscribe` and `SubscribePublish`,
`replyError`, `withTimeout`.
Hard: deadlines race replies; a recipient may drain, die or panic.
Correct when: the caller is told what a handler did, or that nobody knows;
every call that was taken is answered; a call is handled by one instance.

### Calling: `conn.go`, `interceptor.go`, `callopts.go`, generated clients
State: of each call its options, the caller's response message, the `ack` of the
closure `PublishJetStream` passes down, and the frames of the interceptor chain.
Operations: the generated method appends its name to the caller's options, the
runtime applies them, interceptors pass on, substitute, fail or retry, and
`adoptResponse` or the check for a nil ack decides what the caller gets.
Hard: concurrent calls share a caller's slice; what one attempt left behind is
there in the next; interceptors are the application's.
Correct when: a call that succeeds has a whole answer or the ack of a stored
message, and interceptors are told the method that was called.

### Registration: `registration.go`, `ts/.../registration.ts`, generated `Register`
State: the subscriptions and consumers of one service instance.  Operations:
adding them one by one, `Drain`, `Unsubscribe`, the options (queue group,
consumer overrides, policy, `onTerminate`).
Hard: a subscription may be refused when others already take calls; queue
groups are matched by name across subjects.
Correct when: a registration is whole or absent, draining finishes what was
delivered, and methods do not steal each other's calls.

### Subjects: `internal/gen/resolve.go`, `generate.go`, `gents/subject.go`
No state beyond the files of one generator run.  A template such as
`orders.{id}` yields a wildcard subscription, a concrete subject per call, and a
rollback subject, the last at generation time from the pattern and at run time
from the subject that arrived.  `ValidateFile` refuses what cannot work.
Correct when: these agree on every value, and no two handlers answer one call.

### The example: `examples/rollback`
State: a ledger both services share, and the stream with the orders and their
rollbacks.  Operations: the generated registrations of worker and rollback, the
client's call, `ChargeCard` of either half, `charge` and `refund`.
Hard: the two halves are separate consumers in separate processes, each with its
own retries, and what one stores the other reads later, perhaps twice.
Correct when: an order that failed is refunded, none is charged twice, the
rollback is told why, and in the end what is charged is what was completed.

### The rest
Handler interceptors (`interceptor.go`), `codec.go` (protobuf and JSON), the
generated option types, the two plugin commands and the test support.  `PROJECT.json` says of each what is
modelled or why it is not.

## The modules

| Module | Models | Checked by |
|---|---|---|
| `Errors` | error values, headers, policies | used by `Consume`, `RequestReply` and `Shop` |
| `Consume` | `Conn.consume` in several processes, against the server | `MCConsume`, `ConsumeProofs`, `ConsumeAttemptProofs`, `ConsumeDoneProofs` |
| `TaskPromise` | what a task promises, without workers, deliveries or attempts | refined by `Consume` (`KeepsPromise`) |
| `Bindings` | which consumer each registration ends up on, and what it is handed | `MCBindings`, `BindingsProofs` |
| `Shop` | the example: two instances of `Consume`, worker and rollback, and the ledger | `MCShop`, `ShopProofs` |
| `Subjects` | templates, patterns, matching, `subjectsOverlap` | used by `Routing` and `Bindings` |
| `Routing` | declaring, validating, generating, calling, rolling back | `MCRouting`, `RoutingProofs` |
| `RequestReply` | core calls and publishes between clients and instances of both languages | `MCRequestReply`, `RequestReplyProofs` |
| `ClientCalls` | options, interceptors and results of Go client calls | `MCClientCalls`, `ClientCallsProofs` |

### How Consume follows the code

A worker's `pc` is where its registration or callback is.  Each arrow is an
action, and anything may happen between two of them:

    idle -Take-> handling -HandlerSucceeds-> acking -AckMsg-> idle
                 handling -HandlerFails-> naking -nak-> idle
                 handling -HandlerFails-> givingUp -giveUp-> publishing
                 publishing -publishRollback-> term -TermMsg-> idle
                 publishing -publishRollback-> nakNow -NakNow-> idle
    handling, givingUp -Panic-> nakNow
    idle -resolveConsumer-> idle | creating -CreateConsumer-> idle

A callback is split exactly where another process or the server can observe or
disturb it: the answer to a message, the publish, the handler, and the two round
trips of `resolveConsumer`.  Code between two such points is one step.  `Take`
decodes: the payloads in `Poison` go straight to `Term`.  `giveUp` calls
`onTerminate` (recorded in `told`).  `cached` is `CachedInfo` at registration;
`dispositionOf` and `nak` read it, not the server's `config`.  `spent` is
`ErrMsgAlreadyAckd`: a second answer to one delivery does nothing.  Messages
stand for their stream sequences, so a `Nats-Msg-Id` is the message.

The server is external.  `stat` of a message is "ready" to be delivered, "out"
at a worker, or settled.  What the code relies on and the model gives it: a
delivery counts up `NumDelivered`; a message out of attempts is dropped; an
answer, being matched by stream sequence, counts though a newer delivery is out;
a message id in the duplicate window is acknowledged and not stored.  Delays are
recorded and compared but do not gate delivery: the server is free to be late,
and RetriesSpaced is about what was asked for.

`Hazards` switches what the environment may do: `crash`, `loss` (an answer or a
delivery), `slow` (AckWait runs out on a delivery still held), `panic`,
`publish` (fails, or is stored and its ack lost), `acker` (the handler answers
by itself), `window`, `stop`, `drain`, `reconfigure`.

### How Shop follows the code

`Shop` has two instances of `Consume`: `W`, a consumer with a rollback
(`ConsumeTask`), and `R`, one without (`ConsumeRollback`), whose messages are the
rollbacks of `W`.  The one action they share is `publishRollback`: what `W` stores
in the stream is a `Publish` of `R` in the same step.  Every other action is a
step of one half that leaves the other alone.  The ledger is joined to the
handlers: `WorkerChargeCard` is `HandlerSucceeds` or `HandlerFails` of `W` together
with the `charge` main.go makes before it returns, `RollbackChargeCard` is
`HandlerSucceeds` of `R` together with the `refund`, and reads the code of the cause
off the headers the rollback was stored with.  The handler's charge and its return
are one step: a process dying between the two is the handler running and its answer
being lost, which Consume has as `loss` and `crash`.  `run` registers the worker,
then the rollback, then calls, which is the order of the guards.

### How Bindings follows the code

Consume has one durable; `Bindings` has all those of a stream, and the registrations
of several methods, halves and instances that look for theirs by name.
`ConsumeConfig` is what the generated `Register` functions pass,
`RollbackConsumerFor` the derived name, `resolveConsumer` and `CreateConsumer` the two
round trips, `filled` the override with the method's name and filter where it leaves
them empty.  An empty consumer name makes an ephemeral consumer, which is its
registration's own and gone when the instance leaves; a durable stays with what it
has delivered.  Delivery is one step, and retries are left to Consume.

### How Routing follows the code

`Declare` puts a method into a file, `Generate` is `ValidateFile` with its
outcome, `Call` sends what a generated client sends, `GiveUp` what
`publishRollback` sends.  `Running` is what the generated `Register` functions of
accepted files subscribe to.  The server splits a subject at its dots (`Split`),
also those inside values, and routes only subjects without empty tokens.

### How RequestReply follows the code

A registration subscribes method by method (`SubscribeNext`), may be refused
(`SubscribeFails`; Go undoes what it had, TypeScript leaves it), and ends by
`Drain`, `Unsubscribe` or `Crash`.  `Recipients` is the server's choice of one
subscription per queue group, and of each without one.  A callback ends in any of the
ways the code has (`Endings`): `Respond`, of a `Subscribe`, replies unless the message
was published, and `Conclude`, of a `SubscribePublish`, never does; `Receive` and
`Timeout` race.  A response may not decode at the client (`Decode`).

### How ClientCalls follows the code

`Begin` is the `append(opts[:len(opts):len(opts)], ...)` of every generated method: a
slice is its backing array and the room left in it, so that an append in place would
be visible to other calls.  `level` is the interceptor in control, `at` whether the
call is on its way down or up.  An interceptor may do what its type allows:
`CallNext`, `ShortCircuit`, `PassOn`, `Replace`, and `Retry` after an error.  One that
calls next again after a success is left out: both attempts fill the same message,
and no document says what it may expect.  `resp` is the caller's message, which
`doRequest` leaves whole, torn (a failed decoding) or as it was; `ack` is the
variable of the closure.  The wire itself is `RequestReply`'s subject.

## The runs

| Run | Instance | Shows |
|---|---|---|
| `task_adverse` | 1 message, 2 workers, 2 attempts, 8 hazards | the safety of giving up, and that a task implements its promise |
| `task_retries` | 1 message, 2 workers, 4 attempts, BackOff of 2 entries, `slow`, fairness | the last attempt, the delays and the end of every message |
| `task_orderly` | 2 messages, one undecodable, 2 workers, one with an override, an operator who edits the consumer, the duplicate window, `panic drain stop` | completed work is not undone, what is terminated was reported, registration overwrites nothing |
| `shop` | 3 orders (paid, declined, timed out), 2 attempts, a worker and a rollback process, `slow publish panic`, fairness | the two halves together: refunds follow failures, no second debit, the books in the end |
| `bindings` | 6 registrations of 3 halves in 2 instances, 2 of them overridden, 2 departures, fairness | every half gets its own messages, shared or copied as named |
| `client_calls` | 2 calls of any kind sharing a slice, 2 interceptors, 2 attempts | answers are whole, acks real, methods not mixed up |
| `routing` | 1 file, up to 2 of 12 methods, up to 3 messages | calls and rollbacks reach their handlers and no others |
| `request_groups` | 1 call or publish, 2 overlapping methods (one of them PUBLISH), a Go and a TypeScript instance | queue groups, half-done registrations, outcomes |
| `request_drain` | 2 calls or publishes from a Go and a TypeScript client, a Go and a TypeScript instance that drain, panics, fairness | drains finish, taken calls are answered without waiting for a deadline |

The other three runs expect a violation; see "Where the code and its documents
disagree".

**Why the bounds are enough.**  Two workers are the least whose deliveries of one
message overlap, and the rollback logic treats messages apart: the properties of
`task_adverse` relate one message to the rollbacks of the same one, so one
message suffices there (the proofs below cover any number).  Two attempts have a
first and a last one; `task_retries` has four over a list of two, so that the
list runs out before the attempts do.  `task_orderly` needs a second message
because a worker that stops discards what it buffered behind the running one, and
because an undecodable one must not take a decodable one with it.
Errors are one that the policy retries
and one it does not; `task_orderly` has the default policy and `ErrTerminate`, the other
runs `TerminateOnClientError`.  In `Routing` overlap
and misrouting are about pairs of methods, and a third message lets a call be
followed by a rollback and another call.  Two interceptors are the least where one
stands between the other and the wire, and two attempts the least where one leaves
something behind for the next.

`shop` has the three orders of main.go, one for each way `ChargeCard` ends.
`InFlight` is 1, as the program sleeps after each call for its retries and rollback
to play out; within one order everything still interleaves (overlapping deliveries,
the rollback in the other process, publishes that fail after storing), and orders
meet only in the ledger, by their own key.  Main.go has three attempts; two have a
first and a last.  `UndoBound` cuts off the deliveries of one rollback, which the
code does not (its consumer has no `MaxDeliver`): `SettlesRight` excepts a rollback
that used it up (`CutOff`).  The safety properties hold with a third attempt as well
(1.3 million states); the run leaves it out for the time of checking liveness.

`bindings` has a worker with an override and one without, so that whichever comes
first creates the consumer for the other, a rollback in two instances, and an
unnamed subscriber of both halves' subjects.  `LeaveBound` of two lets both
instances leave once, or one twice.

`AttemptBound` equals the consumer's `MaxDeliver` in `task_adverse` and `task_retries`,
where it cuts off nothing.  In `task_orderly`, whose operator may set `MaxDeliver` to
three or to no limit, it is two: a retry, which is a last attempt under one of the
configurations and not under the others.  `Prefetch` bounds a worker's
buffer (the client library's default is larger; more of it adds only deliveries
waiting in the same order).

**Deadlock** is not checked: each model stops when every message is settled,
every call has ended, or the bound on messages is reached.

**Symmetry** is used where workers (and messages) are treated alike, and never with
a liveness property.

## Fairness

`Consume!FairSpec`: weak fairness of `Work(w)` (the goroutine of a callback runs
on), `Registers(w)` (a process that is up registers), delivery of a message to
some worker that wants it, `AckWaitExpires` (a server timer) and `Drop`.  No hazard
is fair: nothing needs to crash or expire for progress, and the `slow` hazard may
strike or not.  `Concludes` is checked with `slow` only: processes that crash, panic
or drain for ever make no progress, and the code does not claim otherwise.  It is
checked with `MaxDeliver` set: without it a failing message is retried for ever, as
documented.

`Shop!FairSpec`: weak fairness of `Progress`, the union of all steps of both halves, the
client and the server's deliveries.  Attempts and deliveries of each message are
bounded, so in any run only finitely many steps are of each kind, and fairness of
some step is fairness of every one that stays possible: nothing is postponed
for ever.  Panics and passing windows are left out of it, being nobody's duty.
`Bindings!FairSpec` is the same of registering and delivering: instances leave at
most `LeaveBound` times, and each message is handed once to each consumer.

`RequestReply!FairSpec`: a callback that can start or return does, and a reply on its
way reaches its client.  Deadlines may fire at any moment but are not fair, so that
`EveryCallIsAnswered` says something of the handlers: with fair deadlines every call
would end whatever they did.  Neither registration nor draining is fair: a service may
never come up.  The run has no lost replies, crashes or `Unsubscribe`, after which a
caller has only its deadline.

## What is proved

Every invariant and action property that a passing run checks is also the statement
of a theorem: the run shows it on a small instance, the theorem for every number of
messages, workers, errors, configurations, files, declarations, calls, interceptors,
instances, registrations and orders, and for every set of hazards.  The theorems rest
on the assumptions on the constants that the modules name and TLC evaluates on every
run (see "Assumptions"), and, where the code promises something only under a
condition, on that condition, named in the theorem.

**ConsumeProofs.**  The inductive invariant is `RollbackInv`, the conjunction of
- `TypeInv`: the types, and that a callback past `Take` holds a delivery, and an
  error once its handler failed (`CallOK`);
- `Accounted`: a worker holds a delivery exactly while its callback runs, and no
  attempt in hand or buffered is ahead of what the server has delivered;
- `CallInv`: a worker that publishes has told `onTerminate` of that very delivery and
  error, one about to terminate has its rollback stored or an undecodable payload (or
  has no rollback and has told), and one about to ack has work that is completed;
- `StatInv`: the same of what the server has recorded as terminated or acked;
- `WindowInv`: a message id in the duplicate window has its rollback in the stream,
  and while windows last there is at most one rollback and its id is remembered;
- `HeadersTellWhy`: each stored rollback is that of an entry of `told`.

It is needed because `RollbackBeforeTerm` says nothing about a worker that is about
to terminate: the step `TermMsg` preserves it only since the control point "term" is
reached with the rollback stored (or from an undecodable payload), a fact that must
survive the steps of all other workers.  From it follow `TypeCorrect`,
`RollbackPrecedesTerm`, `RollbackIsExplained`, `RollbackIsUnique`, `AckMeansDone` and
`TermIsReported`, each under all hazards at once.

`ImplementsPromise` proves the refinement, assuming that the task has a rollback and
that the duplicate window lasts (`"window" \notin Hazards`).  Under `RollbackInv` each
step of `Consume` is one step of `TaskPromise` or a stutter: a publish that the server
stores is `AskUndo` (its id would still be in the window had it been stored before), an
answer the server accepts is `End` (a termination finds the rollback stored, by
`CallInv` and `WindowInv`), a handler that answers is `ByHand`, the server's own drop
is `End`, and everything else leaves what the promise sees alone.  Without the two
assumptions it does not hold: the rollback is then not unique, or not there.

**RoutingProofs.**  `OverlapExact` shows that `subjectsOverlap` answers exactly whether
some subject matches both patterns, for patterns of any length: one direction
constructs the common subject, the other reads a mismatch off any candidate.
`SubscribeMatches` and `RollbackMatches` show that what is computed from one
template in two ways meets.  With `RoutingInv` (types, every file in `generated` was
valid when it was accepted and has not changed, everything received was matched by
a subscription of an accepted file) they give `RoutingTypes`, `OneFileOneAnswer`
(assuming one file) and `UndoReaches` (assuming that no task subject ends in `>`,
which the generator does not check and no document recommends).

`CallsReachHandlers` is about what goes over the wire: the client joins its tokens
with dots, the server splits the subject at every dot, and what comes out must be
matched by the pattern of the same template.  It needs what `FlattenSeq`, a recursive
function, computes for sequences of any length.  The library's induction theorems
cannot be instantiated here, but its statement that `<` on the naturals is well founded
can: `LeastNat` says that a set of naturals that has a member has a least one, and
`JoinedExists`, `FlattenJoins` and `PrefixLength` are inductions by least counterexample.  With it,
`SplitPlain` shows that splitting what was joined gives the tokens back when no value
has a dot in it (`PlainCall`).  `RefusalsHaveReasons` adds to the invariant that what
was refused is invalid, and takes from `OverlapShared` a subject that two overlapping
patterns share, made of their own tokens (`Candidates`); it assumes that `>` is only
at the end of a pattern, as NATS requires of subjects and the generator does not check.

**ClientCallsProofs.**  `ClientInv` says that options are in an array of the call's own
(`OwnOptions`), that while the chain returns the caller's own message that message is
a whole answer and that a non-nil ack is of a stored message (`WholeSoFar`), and what
follows for a call that is done (`EndsWell`).  The second part is what a property of
finished calls cannot see: an interceptor may still retry, and the attempt may leave
the message torn, but only where the result is an error.  `MethodsAreOwn`,
`AnswersAreWhole` and `AcksAreStored` follow.

`CallTypes` adds the types, and that a call has an outcome exactly when it is done: an
error, or a value of the kind its method returns (`OutcomeOfItsKind`).

**ConsumeAttemptProofs.**  What a worker read of the durable at registration decides
how it retries and gives up.
- `DefaultsNeverClobber` is an action property and needs no invariant: of all steps
  that change an existing configuration none is `CreateConsumer`, which fails when what
  it finds is not the defaults.
- `GivesUpInTime` needs that what workers cached is still true (`ConfigInv`: a cached
  configuration is the durable's, and nothing is delivered before one is cached).  It
  assumes `OneConfiguration`: all workers have the same override or none, and no
  operator edits the consumer.  Without it the property fails, which `raised_max_deliver`
  shows.
- `RetriesAreSpaced` adds that every delivery in hand has a number from one up
  (`Numbered`) and that nobody answers with a plain nak (`NeverNaksNow`); the latter is
  what a panic or a failed publish breaks, so they are excluded, as in the run.
- `NothingIsLost` strengthens `NoSilentLoss` to `LastInv`: a message is out of attempts
  only if it was handled or somebody still holds its last delivery, before the server
  has dropped it.  With `NaksRetry` (only an attempt that is not the last is answered
  with a nak) the holder of the last one either completes it or gives it up, and a
  publish that succeeds stores the rollback.  `NothingLost` excludes what takes a last
  delivery away: a crash, a loss, a panic, a failed publish, and `Unsubscribe`, which
  discards what is buffered.  AckWait may run out, handlers may answer by
  themselves, consumers may drain and duplicate windows pass.

**ConsumeDoneProofs.**  `DoneStaysDone` needs to know in whose hands a message is.
`OneHolder` says that a message which is out is in one pair of hands, once;
`OneWorkerAtATime` proves it from `Punctual` (AckWait does not run out under a worker,
and handlers leave the answer to `consume`), under crashes and losses.  `DoneInv` then
follows the message from the handler's success to the ack, and from the rollback to the
termination; `NothingRepeats` excludes the hazards under which the code may do the
work again: those, lost answers, crashes and publishes whose ack is lost.

**RequestReplyProofs.**  `TypeInv` is the types and that an instance with no
registration has no subscriptions, and one whose Go registration failed no deliveries
either (`RegOK`); `RequestTypes` and `RegistrationIsWhole` follow.  `AnswersInv` adds
that each reply under way carries the headers of what some handler of that call ended
with, and `HeadersRoundTrip` that either runtime reads back from headers what either
wrote: `OutcomesAreReal` has no hypothesis.  `CallsHandledOnce` is about traces: what
a call left in queues, in handlers and in `ran` names one instance for each method
(`OnceInv`), since it all comes from the one routing of the call.  It assumes
`OneQueueOption`: instances of a service are started with the same option, the default
or one name, and not with the empty name, which asks for no group and so for
every instance to answer.  `MethodsDoNotSteal` assumes that no instance names a group:
then groups are per method (or absent), and one given name for all methods is what the
code's comment warns of.

**BindingsProofs.**  `BindInv` says where each registration may be, that its consumer
exists while it is bound, and that every consumer of the server is as some registration
that may use its name asked (`AskedFor`); `BindingTypes` states these three.  `HandedOwnWork` assumes `NamesAreOwn`: registrations whose consumers have the
same name are for the same subject, and an override filters the subject of its method.
`DerivedNamesAreOwn` shows that methods without overrides meet it when each has a consumer
name of its own, and none the name that is derived for another's rollback: the derived
names then collide with nothing.  "What is not modelled" says what happens to
consumers shared by mistake.  `HalvesShare` remembers that
a durable has delivered what any of its instances was handed (`ShareInv`), and assumes
that instances of one half use one name (`HalvesAgree`).

**ShopProofs.**  No hypothesis: both halves may be slow, panic, crash, lose answers and
fail to publish, and the duplicate window may pass.  `WorkerHalfConsumes` and
`RollbackHalfConsumes` show that each half of `Shop` is a behaviour of `Consume`, for
the rollback half using that what is stored is what a worker with an error of the
example gave up.  The second also states what passes between the halves (`HandsOver`):
the messages of the rollback half are the rollbacks in the stream, by order and
attempt, each once.  All theorems of `ConsumeProofs` then hold of each half, by
instantiating that module twice (`WP`, `RP`), and `ShopInv` adds what the halves have
to do with one another: only the last attempt or a client error is given up on
(`GivesUpRight`), a rollback is the last word (`LastWord`: an order that
timed out has then used up its attempts, and with one worker process none of them is
still running or buffered), a rollback is published exactly for what was stored and
is never terminated or dropped (`UndoInv`), the ledger has one of three histories for
each order and a refund only after its rollback (`LedgerInv`), and the trace tells the code of
the cause (`TracedInv`).  `FailuresAreUndone`, `ChargedAtMostOnce` and `CausesFit` follow.

**Assumptions.**  `ConstantsAssumption`, `RoutingAssumption`, `RequestAssumption`,
`ClientAssumption`, `BindingsAssumption`, `ShopAssumption` and `HalvesAssumption` give
constants their types, bounds their ranges, and keep model values that stand for
"none" apart from the values they stand beside.  What they say beyond that: a method
matches its own subject and has a name (`RequestAssumption`), a dotted value has at
least two parts (`RoutingAssumption`), a rollback has a consumer name, which
`ConsumeRollback` derives from the one the generator demands (`BindingsAssumption`), and
the two orders that fail are different ones (`ShopAssumption`).

**Only model-checked**: the properties under fairness, which the prover cannot reach:
`Concludes`, `SettlesRight`, `Arrives`, `EveryCallIsAnswered` and `DrainFinishes`.

## Where the code and its documents disagree

Three runs exhibit a disagreement as a counterexample:
- `panic_on_last_attempt` (`jetstream.go:131`): a panic is answered with a plain nak
  whatever the attempt; on the last one the server drops the message, and no
  rollback runs, which `docs/go-library.md:192` rules out.
- `raised_max_deliver` (`jetstream.go:122`): a raised `MaxDeliver` makes a running worker
  give up, and roll back, with attempts left; the comment calls the cached value
  the conservative direction.
- `rollback_read_as_work` (`internal/gen/resolve.go:141`): task subjects are not
  compared, so the rollback of one may be the work of another.

The models show these as well, without a run of their own; each is reproduced by
adding the named hazard or method to a run:
- with `publish`, NoSilentLoss fails: a rollback publish that fails on the last
  attempt is not tried again (`jetstream.go:243`, against the comment at 237);
- with `publish`, DoneIsNotUndone fails: an unacknowledged publish may have been
  stored, and the retried work may succeed (`jetstream.go:241`, against
  `internal/e2e/e2e_test.go:648`);
- an undecodable payload is terminated without `onTerminate` (`jetstream.go:141`,
  against `docs/go-library.md:205`), so DecodableTermedIsTold excepts `Poison`;
- with `panic`, RetriesSpaced fails: the nak of a panic asks for no delay
  (`jetstream.go:131`, against `docs/go-library.md:196`);
- with two files, OneMethodAnswers fails: subscriptions are compared within a file
  (`internal/gen/resolve.go:137`, against `docs/design.md:66`);
- a field that is part of a token (`orders.v{id}`) yields a star that is no wildcard, and
  no call reaches the handler (`internal/gen/resolve.go:66`, against the comment at 63),
  so ReachesItsHandler excepts it (`WholeTokens`);
- a value with a dot in it may reach a method with one token more
  (`internal/gen/generate.go:105`, against `docs/proto-definition.md:82`).

## What is not modelled, and why

- The text of generated code, logging and encodings: layout, not behaviour.
- The NATS server and client library: external, and taken to do what the code
  relies on.  Reconnects appear as lost answers and deliveries.
- Consumers shared by mistake: two methods given one consumer name, an override
  whose `Durable` is given to both halves of a task, a durable left over from an
  earlier subject.  The code binds by name and would hand one the messages of the
  other; `Bindings` would show it, and no document says what should happen.
- Two worker processes in `Shop`: an attempt whose AckWait ran out may then still be
  running when the last one has been rolled back, and charge again.  The example has
  one, and `NoSecondDebit` is about it.
- The example's trace, its sleeps, and the drains at its end.
- `ConsumeConfig` rejected by the server: registration then ends with its error.
- The mutex of `Registration` and the errors it collects: `Drain` and
  `Unsubscribe` are single steps.
- `Metadata()` failing: it parses the reply subject, which a message from a
  consumer always has.
- The lazy creation of the JetStream context, and which of two deadlines applies: one
  assignment each.
- Options that are always refused (micro, kv), and default subjects.

## Plan

1. Done: all modules above, their runs, and the proofs of every invariant and action
   property the passing runs check.
2. Proofs: the refinement of `TaskPromise` for a passing duplicate window, with a
   promise that allows a second undo; `NothingIsLost` with crashes before the last attempt;
   `HandledOnce` with a group name per instance.
3. Abstract specifications: of a call (asked, handled, answered or unknown) for
   `RequestReply`, and of the books for `Shop`, each refined by its module.
4. The mutex of `Registration`, were its operations ever to wait while holding it.
