# TLA+ models of modem2sip

modem2sip connects one cellular modem, driven through ModemManager on D-Bus,
to SIP: mobile calls become SIP calls and the other way round, SMS become SIP
MESSAGEs and database rows, and MMS notifications are fetched over HTTP. This
directory holds TLA+ modules for the parts of it in which the order of events
decides whether a call or a message is lost, TLC instances that check them, and
proofs that TLAPS checks for every value of the constants. Paths below are
relative to the repository; `gateway.rs` is `src/gateway.rs` and so on.

## 1. The system

### Components and their state

| component | source | state | operations |
|---|---|---|---|
| event loop, call control | `gateway.rs` | `modem` handle (Option), `call` (Option), the tasks of the call | modem events, SIP requests, internal events, media watchdog, shutdown |
| modem handle | `mm/mod.rs` | none; every operation is a D-Bus round trip | dial, accept, hangup with HangupAll as fallback, delete, SMS, DTMF |
| watcher | `mm/watcher.rs` | session phase, signal subscriptions, one task per call | find and activate the modem, adopt what exists, forward signals |
| SIP core, server side | `sip/core.rs` | `server_cache`, `pending_ack`, `nonce_seen` | claim or replay a request, respond, repeat a 2xx, authenticate |
| SIP core, client side | `sip/core.rs` | `client_txns` | send and retransmit, match responses, answer a challenge |
| digest | `sip/auth.rs` | nonce secret; `nonce_seen` of the core | mint and check nonces, compute responses |
| registration | `sip/register.rs`, `sip/registrar.rs` | expiry, bindings | refresh, back off, accept REGISTER |
| inbox | `gateway.rs`, `db.rs` | `messages` table, retry timers, deletion tasks | assemble, de-duplicate, store, delete from the modem |
| MMS | `mms/manager.rs` | status of an MMS row, attachments | handle a push, fetch, acknowledge, send |
| outbox | `gateway.rs`, `http_api.rs`, `mms/manager.rs` | a task per submission, its row, its object in the modem | submit, send, record, settle, tidy up |
| CDR | `db.rs` | `calls` table | start, answered, ended |
| RTP session | `media.rs`, `sip/sdp.rs` | signalled and latched address, last event, silence clock | receive, latch, digits, renegotiate, watch for silence |
| sound card | `audio/alsa_io.rs` | threads per stream, ring to the modem, tone queue | open, fail, stop, detach, trim, play tones |
| HTTP API | `http_api.rs` | a deadline per request | list, send, retrieve |
| encodings | `sip/message.rs`, `uri.rs`, `sdp.rs`, `mms/pdu.rs`, `wsp.rs`, `audio/codec.rs` | none | parse, format, convert |
| process | `main.rs`, `config.rs`, `state.rs` | configuration | start, stop |

### How they interact

The event loop is one task. It `select!`s over three channels, which hold the
events of the watcher (`ModemEvent`), of the SIP core (`SipEvent`) and of its own
helper tasks (`Internal`), and over a watchdog tick and the shutdown signal. A
handler runs to its end before the next event is read, D-Bus round trips
included, so while it runs events pile up in the channels and are stale when
their turn comes. Everything else is concurrent with it: a task per watched
call, a task per SIP datagram, retransmission tasks, a task that waits for the
response to an INVITE, detached tasks that delete messages or fetch an MMS.

### What is hard

* Two endpoints hang up, answer, cancel and time out at once, and the handler
  sees the consequences one by one.
* The modem, ModemManager or the process can go away between any two steps. A
  mobile leg outlives them, connected and billed.
* UDP loses, duplicates and reorders; a handler may take far longer than the
  peer's retransmission timer.
* Messages stay in the modem and are announced again under other object paths;
  deletion goes by path, minutes later, by a detached task.

### What makes each component correct

* **Call control**: no mobile leg, SIP dialog, waiting caller or ringing callee
  is left behind, but for a caller that leaves with an early BYE (section 5);
  nothing follows a final response; nobody is connected to a leg that still rings;
  the CDR tells what happened; every call attempt ends.
* **Watcher**: every call and message that exists is announced, once a session is
  up, whatever happened before.
* **SIP server side**: a request is executed once; a 2xx to an INVITE arrives.
* **Inbox**: a message leaves the modem only when it is stored, is stored once, and
  is stored eventually.
* **Digest**: a nonce and count get in once; a client with the right password is
  refused only for a nonce that is too old or used up.
* **Registrar**: a REGISTER that was overtaken by a later one with the same nonce is
  not let in; what a user agent was told about its binding is so.
* **Client transactions**: an outcome is that of the request it is taken for; a
  lost final response is recovered; no table entry or retransmission outlives
  its user; the gateway is registered again in the end.
* **MMS**: what is reported as received, and what the MMSC may drop, has all its
  parts; a message is fetched in the end if the carrier keeps notifying.
* **Outbox**: submitter, table and network agree about what was sent; a sent
  object stays for delivery reports and otherwise leaves the modem.
* **RTP session**: both ends agree after every re-INVITE; each digit arrives once;
  silence ends a call when, and only when, the peer was to send. The code misses
  this for the direction of an offer with a null address (section 5).
* **Sound card**: a stream lets go of the card however it ends; a card whose open
  blocks does not block the gateway, unless the other direction fails meanwhile
  (section 5); the jitter depth is kept, tones are whole.

`PROJECT.json` lists every component with its status, and under `hazards` each
place where one of these can go wrong, with the properties that would show it.

## 2. The modules

| module | models | builds on |
|---|---|---|
| `ModemLink` | call objects of ModemManager, the watcher, the modem handle | |
| `Gateway` | the event loop, with the SIP peers as environment | extends `ModemLink` |
| `AtMostOnce` | what the SIP core promises about a request: abstract, no network | |
| `SipServer` | server transactions over an unreliable network | refines `AtMostOnce` |
| `SipAccess` | digest nonces and the registrar, with user agents as clients | |
| `SipClient` | client transactions and their three kinds of user | |
| `RtpSession` | the RTP receiver, re-INVITEs and the silence watchdog | |
| `AudioStream` | the sound card's threads, the jitter buffer, tones | |
| `SmsInbox` | incoming SMS and pushes, from the modem's storage to the table | |
| `MmsStore` | retrieval of MMS, with the MMSC as environment | |
| `Outbox` | submissions of SMS and MMS, by SIP or HTTP | |
| `MCGateway`, `MCSipAccess`, `MCSmsInbox` | symmetry, bounds per client, concrete messages, for TLC | extend the above |
| `GatewayProofs`, `SipServerProofs`, `SipAccessProofs`, `SipClientProofs`, `SmsInboxProofs`, `MmsStoreProofs`, `OutboxProofs` | theorems | each extends the module it is named after |
| `MediaProofs` | theorems about both ends of a call's media | extends `RtpSession` and `AudioStream` |

### ModemLink

`leg[l]` is the state of the call object at path `l`; `"none"` means there is no
object. `session` is the phase of the watcher's session loop, `announced` the
calls that have been signalled or listed but not handled by `supervise`, `sub`
the state of the spawned per-call task, and `modemQ` the `ModemEvent` channel.

A state change of a call is forwarded only if the call's task has already made
its subscription (`StateSignal`). `hangup` has three outcomes: it fails because
nothing is reachable, it works, or the leg will not end and HangupAll ends
all legs. `ModemVanishes` takes any subset of the calls with it; the others live
on on the network and are found by the listing of the next session (`Adopt`).

### Gateway

Each handler of the loop is an action that removes the head of its channel and
makes all the changes the handler makes. `teardown_call`, `finish_call`,
`cancel_outgoing_invite`, `call_id_matches` keep their names. `call` is a record
with the flags of `ActiveCall` the handlers read: `answered`, `ringing_sent`,
`early_media`, `media`, plus `listening` (the task that waits for early media)
and `auth_retried`. `peer[d]` is the dialog as its SIP peer sees it and
`spurious` collects callers that were sent a response after their final one.

What the gateway sends is seen by the peer at once, whereas what a peer sends
waits in a channel. The two directions still cross, which is the part the code
has to cope with; loss is the subject of `SipServer`. A caller whose BYE ends its
early dialog is `"leaving"` until the BYE is handled and `"unanswered"` after it,
because `on_sip_bye` answers the BYE only (`AnswerBye`).

### SipServer

A request is a transaction: an INVITE, named by its sequence number, or a member
of `Messages` for any other method. The class of a final response makes a difference
for an INVITE only, so the others are answered `"ok"` (`Answers`). `cache`, `repeating` and `working` are
`server_cache`, `pending_ack` and the handlers in progress. The final response
is cached under the lock, and sent later (`RespondFinal`, `SendFinal`), so
copies of the request, and the ACK of a replayed response, can come in between.
A datagram that is taken from the network may stay there, which is duplication.

`Expire` forgets a transaction after `TXN_LIFETIME`, also while its handler still
runs. It assumes what RFC 3261 assumes with Timer B and T4: 32 s after the first
copy the client does not send any more and no copy is in flight. The code
collects the cache lazily and only above 64 entries; the action may therefore
happen or not.

`AtMostOnce` is the service without network, copies and cache: a request that was
asked is executed at most once, and its asker learns of an answer only after the
execution has ended with one. `Service` instantiates it under a refinement mapping
over what `SipServer` keeps: the requests that were sent, the history `handled`,
the handlers in progress, and the clients that have a final response.

### SipAccess

`seen` is `nonce_seen`, `bindings` the registrar's table. A user agent has habits
that do not change: whether it uses qop, so that it counts its requests, and
whether it knows the password. A nonce is the tick it was issued in, which is
what `issue` does up to the HMAC, so user agents that are challenged together
share one. Requests are handled in any order, each by a task of its own. `Handle` is
`check_auth` with the nonce claimed under its lock; the task of a REGISTER that got
in is then in `admitted`, writes the registrar in a second critical section
(`ApplyRegister`) and answers from what it finds there in a third (`ReplyRegister`),
with the steps of other tasks in between. `gc` forgets used nonces `SeenLife` after
their first use.

### SipClient

The module follows one user of the table: `pc` is where it is in `transact`,
`register_once` or the task of the INVITE; `txns`, `timer` and `stopped` are the
table and the retransmission tasks. The keys are random, so users do not meet.
`SendFails` leaves an entry behind, as `send_request` does when the socket refuses.
The other side is an RFC 3261 server transaction that says what it likes while the
network is not `calm`, and, as a registrar that is in order, asks for credentials,
then for a longer lifetime, and then grants it. A CANCEL shares the branch of its
INVITE, and its 200 must not be taken for an answer.

### RtpSession

The receiver looks at the signalled address in `Receive` and latches in `Process`,
as it lets the lock go in between. A re-INVITE can move the peer, hold the call,
resume it, renumber its telephone-events, leave the codec out or have no body at
all. An offer with a null address counts as none (`has_media`), whatever direction
it names; `taken.held` is a history of whether one was lost that way. `AnswerEvent` is what the filter before `Sdp::answer` leaves. The peer goes by
the answer, or back to what was agreed before. Sent packets keep their order and
may be lost.

### AudioStream

`loop` is how far `AudioStream::start` or `shutdown` has got for the stream in use,
`threads[s][d]` the two threads of each stream, of which those of earlier calls
may still run. A direction of the card belongs to the thread that opened it. An
open may fail at once, or block: then `OpenTimeout` detaches. A failure that is
reported while the other thread is still opening leads to `shutdown`, which joins
that thread (`"joining"`). `ring` and `tone` are
counted in periods; the card may run ahead of the packets or behind them.

### SmsInbox

`sim` is the modem's storage, `object` the paths under which ModemManager shows
it, `nextPath` its counter. A message is a record of what the network said:
timestamp, sender with text, binary data. `incoming_sms_id` and the two checks
of `insert_message` are taken over as they are, so a row's external id contains
the path exactly when there is no timestamp. `timers`, `pushes` and `deleters`
are the tasks: assembly retries, push handling and deletion by path.

### MmsStore

It takes over where the push task of `SmsInbox` has decoded a notification.
`task[k]` is how far a push task or an API request has got, a database
operation or an HTTP exchange being one step, and `stored` its count of parts.
`status[m]` and `attached[m]` are what the tables say of a message, `mmsc[m]` is
the MMSC's copy. Every step can fail: in `retrieve` the callers write
`retrieve_failed` (`RetrieveFails`, `MarkFailed`), elsewhere the task ends
(`GiveUp`). A request can also be dropped by its deadline (`Deadline`), and the
process can die. `config` is `mms.enabled` with `mms.auto_retrieve`, and may
change with a restart.

### Outbox

`pc[r]` is the next step of a submission's task, a D-Bus call, an exchange with
the MMSC or a write to the table being one step. `verdict[r]` is what the network
has said, `row[r]` what the table says and `told[r]` what the submitter heard; they
are separate, since each step can fail and a deadline, a crash or the loss of the
modem can come between any two. An SMS of ours is announced by the watcher
like an incoming one, so `on_sms_added` tidies up as well as the task does.

## 3. Runs

`tlc -config X.cfg M` for each row; times are for two workers.

| run | config | checks | states, time |
|---|---|---|---|
| gateway_calls | `GatewayCalls` | NoStrandedLeg, NoForgottenDialog, TryingIsPending, NoResponseAfterFinal, AnsweredMeansConnected, CdrTellsTheTruth, NoAbandonedCallee | 2.3 M, 80 s |
| gateway_live | `GatewayLive` | LegInv, OrphanIsDealtWith, OfferEnds | 418 k, 2 min |
| gateway_crossed_answer | `GatewayCrossedAnswer` | AnswerIsNotForgotten: violated, see section 5 | |
| sip_server | `SipServer` | HandledOnce, AnswerIsRepeated, ImplementsService, AnswersArrive | 47 k, 190 s |
| sip_access | `SipAccess` | AcceptedOnce, RegistrarInv, OvertakenIsRefused, RefusedForCause | 6.2 M, 140 s |
| sip_client | `SipClient` | OutcomeIsTrue, ClientInv, LostFinalIsRecovered, RegistersInTheEnd | 227 k, 1 min |
| rtp_session | `RtpSession` | DigitsAreTrue, WatchdogIsFair, SessionInv, VanishedPeerIsNoticed | 910 k, 70 s |
| audio_stream | `AudioStream` | CardInv, DepthIsKept, DigitsAreWhole, StartsAndStopsEnd | 101 k, 30 s |
| audio_wedged_join | `AudioWedgedJoin` (module `AudioStream`) | StartReturns: violated, see section 5 | |
| sms_inbox | `SmsInbox` | NothingLost, StoredOnce, EventuallyStored | 406 k, 80 s |
| mms_store | `MmsStore` | ReceivedIsComplete, AcknowledgedIsKept, EventuallyFetched | 7 k, 10 s |
| outbox | `Outbox` | ToldTheTruth, KeptForReports, SentLeavesTheModem | 33 k, 6 s |

Type invariants: `TypeOK` of each module with a proof module is proved for every
instance, and no run repeats it, except that in `SipClient`, `RtpSession` and
`AudioStream` it is a conjunct of ClientInv, SessionInv and CardInv.

### Bounds and why they are enough

* `GatewayCalls` has two legs, one dialog of each direction and a shutdown. The
  gateway has one call at a time, so the second leg is what a busy gateway
  refuses or what is left from before; a caller and a callee at once are what
  can compete for `call`. The proofs cover every other instance. `MaxEvents = 1` stops the outside world while an event
  waits, but handlers, watcher and tasks still add theirs, so queues of several
  events, with a Down or a CallDeleted between two others, do occur.
* `GatewayLive` has one leg, every fault and early media off. Crashes make
  safety properties about peers meaningless (a dead process cannot answer), so
  only LegInv is checked there. The proof covers all other instances of LegInv.
* `SipServer` has two INVITEs, so that an ACK may be for the wrong answer, and
  one MESSAGE, of which a behaviour sends any two (`MaxSent = 2`): transactions meet
  only in pairs, as the key of `pending_ack` is all they share. Its safety
  properties are proved without the bound.
* `SipAccess` has two user agents with three and two requests: three are needed to
  be challenged and then use the nonce twice. `NonceLife = 1 < SeenLife = 2` and a
  clock of three ticks: a nonce expires, and is forgotten, while requests that
  carry it are on their way. `SeenCap = 0` lets `gc` run whenever it could. A
  lifetime above the cap and a zero are asked for.
* `SipClient` needs two branches, the transaction before and the one in progress;
  of older ones only responses are left, and they match nothing.
* `RtpSession` has two hosts, two re-INVITEs, two digits and one packet in flight.
  With a move and a move back, an offer refused after one accepted, and a packet
  that was tested before a move and latches after it, this has every race there
  is between the receiver and one renegotiation. Any offer may have a null address
  and name any direction.
* `AudioStream` has two streams, so that threads of the first hold the card while
  the second opens it, a jitter depth of two periods, tones of two periods and a
  gap of one in a queue of four: the second digit fits or does not.
* `SmsInbox` has a stamped text message and a push, and four paths: each message
  can be renumbered once. `Attempts = 2` instead of ten, as only the last differs.
  Two messages that one of the duplicate checks confuses are excluded, see
  section 4.
* `MmsStore` has one message of two parts, as messages do not affect each other,
  two push tasks and one request. Any two of them can be anywhere in
  `store_retrieved` at once, with the third failing.
* `Outbox` has one SMS and one MMS, both by HTTP, since submissions share nothing but
  the modem; HTTP has every behaviour of SIP and the deadline. `Attempts = 5`, with
  at most three deletions refused, as in the code the modem settles a message long
  before the last of the tries.

### Deadlock

`Gateway` is checked for deadlock: the process can always be restarted or the
network can act. The others may stop, with everything asked, answered and
forgotten, all bounds used up, or the call over.

### Fairness

* `Gateway`: `select!` chooses at random among ready branches, so each channel
  that stays non-empty is read (weak fairness for the three kinds of events). The
  watcher, its tasks and the ring timer are tokio tasks. A leg that HangupAll has
  ended gets to `terminated`. Nothing is assumed of peers, modem or network.
* `SipServer`: the retransmission tasks run, and a datagram sent again and again
  arrives (strong fairness for reception). Nobody has to answer or to give up.
  AnswersArrive is about the 2xx of an INVITE, which arrives and is then not repeated
  any more, and about the answer to a MESSAGE.
* `SmsInbox`: the loop, the watcher, the timers and the push tasks run. Nothing
  makes the modem accept a deletion.
* `SipClient`: tasks and timers run, the other side answers what it hears, and a
  final response that is sent again and again arrives. The liveness properties
  are for a network and a registrar that stay in order (`calm`) from some time on.
* `RtpSession`: the watchdog's clock and its check run, nothing else.
* `AudioStream`: threads run, an open that does not block returns, and the event
  loop comes round. A blocked open need never return, which is what
  StartsAndStopsEnd leaves to `JoiningWedged` and `audio_wedged_join` shows.
* `Outbox`: tasks, watcher, event loop and deletion retries run. That a submission
  gets on means that D-Bus and the MMSC end their calls, which the code bounds;
  the setup command it does not bound, and no property relies on that.
* `MmsStore`: tasks run, the carrier notifies again until it has an answer (this
  is what the code says it relies on), and an operation that is tried again and
  again succeeds in the end (strong fairness for each step of a retrieval).
  Nobody has to use the API.

The liveness properties have premises: the process and, where it matters, the
modem stay up from some time on. Without these the system may simply be off.

### Mutants

Each property of a passing run has a mutant: an operator, next to the one it
replaces and marked `Mutant` in its comment, with a plausible mistake. TLC finds
the property violated with the mutant in place.

## 4. Proofs

`tlapm` checks eight modules, with no assumptions but the named ASSUMEs of the
modules they extend. `MediaProofs` takes `RtpSession` and `AudioStream` together, which
is why what the two would both define has the prefix `Audio` in the second; they
share no state, and each theorem is about one of them.

* **Type correctness** of `Gateway` (`TypeCorrect`), `SipServer`
  (`ServerTypeCorrect`), `SipAccess` (`AccessTypeCorrect`), `SmsInbox`
  (`InboxTypeCorrect`), `MmsStore` (`MmsTypeCorrect`), `Outbox`
  (`OutboxTypeCorrect`) and `RtpSession` (`RtpTypeCorrect`), one step per action; for
  `SipClient` and `AudioStream` as part of ClientInv and CardInv. For `Gateway` this
  includes that no handler uses a field of a call it does not have.
* **`NoLegIsStranded`**: `Spec => []NoStrandedLeg` for any number of legs and
  dialogs, any queue bound, with crashes, shutdowns, reused paths and lost modems.
  `NoStrandedLeg` alone is not inductive: a leg whose CallAdded waits in the
  queue is safe only if the gateway will have a handle when it reads it (it
  ignores the event otherwise), and only if no Down follows that would drop
  the call it made of it. `LegInv` adds the missing parts:
  * `Covered(l)`: a live leg is announced, or will be listed by a session that is
    not supervising yet, or has a CallAdded that no Down follows, or is that of
    the call while no Down waits;
  * `HandleForCalls`, `HandleForSession`: before each CallAdded, queued or about
    to be sent, the latest of Up and Down is an Up;
  * a call implies a handle, and a modem that is gone implies a session that
    waits for it or is ending.

  The argument in one sentence: Down is sent only at the end of a session, the
  next session lists what is left, and its Up comes before its CallAdded.
* **The dialogs of `Gateway`**: `NoDialogIsForgotten`,
  `EveryTryingIsPending`, `NothingAfterTheFinal`, `CallsTableIsRight` and
  `NoCalleeIsAbandoned` prove NoForgottenDialog, TryingIsPending,
  NoResponseAfterFinal, CdrTellsTheTruth and NoAbandonedCallee for any legs,
  dialogs and queues. TryingIsPending covers callers that wait and callers that have
  left with a BYE that is not handled yet: of all the ways a call ends, only the
  answer to that BYE leaves the INVITE without a final response. None is inductive; `DialogInv` says where each part of a call
  is when the others are where they are:
  * `BridgeInv`: the call, its peer's state and its row agree, and no other peer is
    proceeding or connected, no other row open;
  * `RequestInv`: a peer has one request under way at most, and a BYE comes only
    from one that is past its final response;
  * `OutcomeInv`: the outcome of an INVITE is awaited by one task or reported by
    one event, never both, and only before the ACK. This is why a late event
    cannot connect or reject somebody else.

  `SetupInv` is about the legs: once `active` is reported, or the call answered, no
  alerting event of that leg is left to be read, which is why a 180 cannot follow
  the 200. It alone proves `AnsweredLegIsConnected` (AnsweredMeansConnected).

  Assumed: ModemManager does not give a path to a new call while the gateway
  still has events of the old one (`"reuse" \notin Env`), and, except for
  AnsweredLegIsConnected, no crash and no copy of an INVITE that gets past the
  transaction layer. With `"reuse"`, a stale `active` answers the next caller; with
  `"copies"`, a copy that arrives after the end gets a second final response; a
  process that has died answers nobody. TLC finds each of them at once.
* **`RequestIsHandledOnce`**: `Spec => []HandledOnce` for any requests. `OnceInv`:
  the cache knows a request that has been handled, or else its client is past
  sending and no copy is in flight.
* **`AnswerIsAlwaysRepeated`**: `Spec => []AnswerIsRepeated`. `AnswerInv`: an ACK on
  the wire proves its caller has the answer, and without that the 2xx is unsent,
  being repeated, or given up.
* **`CoreImplementsService`**: `Spec => Service!Spec`, the refinement. A step of
  the network, the cache or a timer is a stutter of `AtMostOnce`; the first copy
  taken is `Execute`, for which `OnceInv` says that nobody executed it before;
  hearing a first final is `Learn`, for which `EndedInv` says that a final response,
  on the wire or in the cache, is that of a handler that has ended.
* **`NonceCountsAreAcceptedOnce`**, **`OvertakenDoNotGetIn`** and
  **`RefusalsHaveACause`**: `AcceptedOnce`, `OvertakenIsRefused` and `RefusedForCause` of
  `SipAccess`, for any user agents, lifetimes and cap, assuming only
  `NonceLife < SeenLife`. The core of `AccessInv` is `RememberedInv`: what has been
  accepted is still in `nonce_seen` with a count at least as high, or its nonce is
  too old to be valid. `gc` keeps it because a nonce is first used after it was
  issued (`SeenInv`), so what is old enough to be forgotten is older than
  `NonceLife`. `CountInv` (a user agent counts up) makes of this that an overtaken
  request has a count that is no longer claimable. That is all a claim can do: the
  registrar is written later, in an order of its own (section 5). `WitnessInv` (an entry of `nonce_seen` is that of an
  accepted request) is what a refusal needs for a cause, and why a refused
  request must not touch the table.
* **`RegistrarIsBelieved`**: `Spec => []RegistrarInv`, for any user agents, lifetimes
  and network. What a user agent believes was said in a reply, and what a reply said
  was done by an accepted request; `RequestsInv` and `GrantInv` carry this along,
  requests and replies that are lost, old or overtaken included. `Backed` is its
  core: if the request behind a reply is still the last one that was applied, the
  binding it granted is there, and one it removed is not. A request that is admitted
  or applied but not answered yet has told nobody anything (`Answered`).
* **`OutcomesAreTrue`** and **`NothingIsLeftBehind`**: `Spec => []OutcomeIsTrue` and
  `Spec => []ClientInv` of `SipClient`, for any branches and queue bounds. OutcomeIsTrue
  is about the response that is read; `ToldInv` says the same of those that wait in
  the channel and of those on the wire that carry the method of the request. It
  needs ClientInv (the channel of a branch not in use is empty) and that no branch
  is used twice.
* **`DigitsAreReported`**: `Spec => []DigitsAreTrue`, for any number of digits, packets
  in flight and re-INVITEs, with any offers. `FlowInv` orders the digits along their
  way: those in flight, then the one the receiver has in hand, then `last_ts`, which
  is the last one reported, so that equal timestamps are the same digit.
  `PromiseInv` keeps the payload type: every number promised, agreed or on its way is
  0 or the one the receiver listens to, whatever later offers name, so that no
  packet of a digit is passed over.
* **`EndsStayAgreed`** and **`WatchdogWaits`**: `Spec => []SessionInv` and
  `Spec => []WatchdogIsFair`, for any offers, those with a null address included, whose
  lost direction (`held`) is the exception both name (section 5). SessionInv speaks
  only of the time between re-INVITEs. `AgreeInv` says what holds during one: the
  peer is where its offer says, what was agreed before is what the gateway still
  has, and after the answer one of the two has become common. `SilenceInv` says that
  the watchdog's clock is never older than the offer in force, and that the
  direction it goes by is the one announced last unless that one was lost.
* **`CardIsKnown`**: `Spec => []CardInv`, for any number of overlapping streams, with
  opens that block and threads that fail. `StreamInv` adds that a thread which is
  opening or running belongs to the stream in use or to one told to stop, and that
  the ready channel has room for what is still to be said.
* **`JitterDepthIsKept`** and **`QueuedDigitsAreWhole`**: `Spec => []DepthIsKept` and
  `Spec => []DigitsAreWhole`, for any depth, tone and queue length. Both are
  inductive with the types: the first because trimming goes down to a target no
  lower than the jitter depth, the second because a digit is queued as a whole and
  leaves by its head.
* **`StampedIsStoredOnce`**: `Spec => []StoredOnce`, with no condition on the
  environment: crashes, renumbering and detached deletions included. Rows are only
  written by `insert_message` (`WhoWrites`), which knows a stamped message it has a
  row of under whatever path it comes again (`StampedIsKnown`), since the row is in
  the table of its sort (`KindTells`).
* **`NothingIsLost`**: `Spec => []NothingLost`, assuming that ModemManager does not
  restart its numbering (`"mm_restart" \notin Env`) and that no two text messages
  look the same to the duplicate check (`Unlike`). `InboxInv` says that a
  deleter's path names nothing, a push, or a stored message; since deletion goes
  by path, this rests on paths being fresh (`PathsAreFresh`). Both assumptions
  are needed: for the first see section 5; two binary messages of one sender with
  the same timestamp violate the second, as `insert_message` (`db.rs:224-240`)
  compares only their empty text.
* **`MessagesStayInView`**: `Spec => KeptInView`, the action half of EventuallyStored,
  under `Unlike` alone: no step but a failed INSERT lets go of a message that is complete
  on the modem and not stored. The danger is an announcement that is taken while the
  gateway has no handle, after which nobody looks at the path again. `ViewInv` excludes
  it: while a session lasts, the handle is there or its Up is in the queue with no Down
  behind it (`HandleForSession`), and whatever is on the modem is announced, or will be,
  behind every Up (`AnnouncedAfterUp`), so an announcement read too early is never the
  only one. `SimIsShown` and `SessionHasModem` make the next listing complete. For want
  of `Unlike`, a message that only looks like a stored one is dropped here as well.
* **`ReceivedMessagesAreComplete`** and **`AcknowledgedMessagesAreKept`**:
  `Spec => []ReceivedIsComplete` and `Spec => []AcknowledgedIsKept` for any
  messages, parts and tasks. Neither is inductive: `StoreInv` adds `Progress`, that
  the parts a task has counted are in the table, whoever stored them, and all
  of them when it is about to acknowledge. Parts are replaced and never removed
  by a retry, which is what keeps `Progress` true while others work.
* **`SubmittersAreToldTheTruth`**: `Spec => []ToldTheTruth` for any submissions and
  faults. `Steps` ties verdict and row to the step a task is at, and `Kinds` keeps
  SMS and MMS to their own steps.
* **`ObjectsAreKeptForReports`**: `Spec => KeptForReports`. While reports are on
  nobody deletes (`NoDeleterWithReports`; a restart, which reads the configuration
  again, has ended the deleters of the time before), and the only other place
  that removes an object, a failed Send, has one that is not sent
  (`SentByItsTask`).

Only model-checked: all liveness, as fairness and ENABLED are out of the prover's
reach. Every invariant and every action property of a passing run has a theorem.

## 5. Disagreements found

Two runs end with a counterexample; `PROJECT.json` quotes the lines.

**gateway_crossed_answer**: the ring timeout or a teardown sends CANCEL and
drops the task that waits for the response. A 2xx already under way is heard by
nobody: no ACK, no BYE. In the same way the 487 that the CANCEL provokes is not
ACKed.

**audio_wedged_join**: one direction of the card reports that it cannot be opened
while the other is wedged in `snd_pcm_open`. `AudioStream::start` then calls
`stream.shutdown()` (`alsa_io.rs:253`), which joins the wedged thread, and the event
loop awaits `start`. The comment above it (`alsa_io.rs:243-249`) says that this join
would wait "forever" and "take the gateway's event loop down with it"; the code
avoids it only when the open has timed out. StartsAndStopsEnd says that this is the
one way in which `start` does not end.

The models contain more behaviours that the code does not prevent. The properties
are stated so that they hold beside them, with the exception named where it is one:

* A caller that ends its early dialog with a BYE gets the BYE answered, and its leg
  hung up, but no final response to its INVITE (`gateway.rs:823-838`), although "every
  path out of here owes it a final response" (`gateway.rs:668-670`). TryingIsPending
  excepts this one path.
* Two REGISTERs of one user agent that are let in in the right order may be applied
  in the wrong one: the nonce is claimed under one lock (`core.rs:440-451`) and the
  registrar written under another (`core.rs:473`, `core.rs:484`), by a task per
  datagram. The earlier can then undo the later. OvertakenIsRefused is about the
  claim; RegistrarInv speaks of a user agent whose last answer is for what was
  applied last.
* A peer may hold the call with a null address. That counts as no offer
  (`has_media`, `sdp.rs:190-197`), so it is answered 200 while the old direction is kept
  (`gateway.rs:770`): the two ends differ about it, and when the peer stops sending, as
  it has announced, the watchdog ends what its comment calls "a perfectly good call"
  (`gateway.rs:1380-1383`). EndsAgree and WatchdogIsFair except the directions lost
  this way (`held`), and no others.

* A leg that is active when a lost modem comes back is offered to SIP again
  (`gateway.rs:248-268` looks at the direction, not at the state). If its `active`
  event is still queued, it marks the new offer as answered (`gateway.rs:480`) while
  the callee rings ("Media is already running (started when SIP answered)",
  `gateway.rs:474`), and the end of the call is then a BYE instead of the CANCEL.
  With `OutIds = {o1, o2}` and `MaxEvents = 2` TLC reaches this in 21 steps;
  NoAbandonedCallee allows it, and for it requires that the row says "completed".
* The per-call task subscribes after it is spawned and never reads the state
  (`watcher.rs:547`): a call that ends before that is not noticed by it.
* Not only the 2xx is irrecoverable (`core.rs:589`): a failure response that is
  lost after the 100 is not repeated either, as the caller has stopped sending.
* A deletion retried by path (`gateway.rs:2178`) across a restart of ModemManager
  deletes another message. `SmsInbox` has this with `"mm_restart"` in `Env`.
* A retrieval that fails writes `retrieve_failed` (`manager.rs:253`) even when
  another one has made the row `received` since. The parts are there, but the
  MMSC has dropped its copy, so the message stays "not fetched".
* An MMS whose setup command or attachment fails (`manager.rs:472`), or whose
  request outlives the deadline of the HTTP API (`http_api.rs:50`), has a row that
  says `sending` for ever.
* A send that the socket refuses leaves its entry in `client_txns`
  (`core.rs:651`); ClientInv allows these entries and no others.
* A push is deleted from the modem whether it could be stored or not
  (`gateway.rs:1766-1770`). NothingLost is about text messages; for a push the
  carrier's next notification is what brings it back (EventuallyFetched).

## 6. What is abstracted, and what is left out

* A handler is atomic: nothing else changes `call` while it runs. D-Bus errors on
  an object that is present, and socket errors, are left out of `Gateway`, except
  dial, accept and hangup. HangupAll works when the modem is there.
* Channel capacity (64) is not modelled; see the hazard.
* Reason codes are abstracted to final or provisional. A CDR insert does not fail.
* A re-INVITE is a 491 in `Gateway`; its negotiation is in `RtpSession`. SIP MESSAGE is
  in `Outbox`. INFO and DTMF towards the modem, and the SIP notification of an
  incoming message, are in no module.
* `SipAccess` takes the digest as a right or a wrong password, one contact per user
  agent and one address of record. The clock of the nonces and that of
  `nonce_seen`, wall and monotonic in the code, advance together, and the
  age of a nonce is tested in the same step as it is claimed. That the lifetime in a
  response is cut to whole seconds (`as_secs`) is below a tick. Nobody adds a nonce
  count to a header that has none. OPTIONS, CANCEL and requests within a dialog touch
  neither table and are left out.
* `SipClient` takes the refresh interval and the back-off as a sleep that ends. What
  happens in the call once an INVITE is answered is in `Gateway`.
* `RtpSession`: packets are not reordered, all come from the peer, and the sender's
  counters are left out, as are the digits the gateway sends.
* `AudioStream`: packets are as long as a period, so what resampling and other
  packet times do to `trim` is left out; the capture ring, which drops its oldest
  samples when it is full, and levels are too.
* `SmsInbox` takes `delete_from_modem` as on, and leaves out SIP notification and a
  failed listing. Our own messages, which the watcher announces as well, are in
  `Outbox`.
* `MmsStore` leaves out what files contain: a crash may leave a file short that a
  later attempt writes again. The MMSC sends the same parts each time, so
  `prune_attachments` has nothing to remove. A failed INSERT while the push is
  deleted from the modem (`handle_mms_push`) is `GiveUp` at `insert`: the carrier's
  next notification brings the message back.
* `Outbox` takes the parts of an MMS and the setup command as one step (`Prepare`),
  which fails or not. The row of an SMS is inserted as `sent`, so an SMS has no
  status in between.
* Not modelled, with the reason in `PROJECT.json`: parsers and encoders, D-Bus
  declarations, sysfs discovery, vendor AT commands, HTTP and DNS clients.

## 7. Plan

In order of weight:

1. `CallBridge`: the abstract call (idle, offered, connected, ended) as a
   specification of its own, and `Gateway` shown to implement it.
2. Channels with a capacity, composed from the loop and the watcher, for the hazard
   at `main.rs:94`.
3. INFO and DTMF in `Gateway`, and the RTP sender: 16 and 32 bit counters that wrap,
   events that replace audio.

The number of runs is kept at a dozen, one per question: a new one takes the
place of the least instructive.
