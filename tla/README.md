# A TLA+ model of SRTLA

SRTLA bonds several network links into one SRT stream. The sender
(`src/src/sender.cpp`) takes the packets of an SRT caller and shares them out
among its links; the receiver (`srtla_rec`, `src/src/receiver_main.cpp` and the
directories beside it) collects the links of a sender into a *group* and relays
between the group and an SRT server.

```
 SRT caller <-> srtla_send == link 1..n ==> srtla_rec <-> SRT server
                 Sender                      Receiver
                 SenderLink                  ConnectionRegistry
                                             AuthRateLimiter, NakDedup
                                             EventLoop (around Receiver)
                                             Quality, QualityScore
                 `------------ Bond ------------'
```

Both programs are single threads around an event loop. What makes them hard is
not shared memory but the order in which packets, failed system calls, timeouts
and periodic work arrive, and state that was right when it was stored and is
stale when it is used.

## The parts of the system and the modules

| Part | Code | Module | Status |
|---|---|---|---|
| Connection registry | `connection/` | `ConnectionRegistry`, `Receiver`; `LinkDirectory` is what it promises | modelled |
| SRTLA packet handler | `protocol/srtla_handler.cpp` | `Receiver`; answers in `Bond`, statistics in `Quality` | modelled |
| SRT server handler | `protocol/srt_handler.cpp`, `forward_policy.h` | `Receiver` | modelled |
| Receiver event loop | `receiver_main.cpp` | `EventLoop` | modelled |
| Authentication rate limiter | `utils/auth_rate_limiter.cpp` | `AuthRateLimiter`, `AuthThrottle` | modelled |
| NAK deduplicator | `utils/nak_dedup.cpp` | `NakDedup` | modelled |
| Sender and its links | `sender.cpp` | `SenderLink`, `Sender`; its packets in `Bond` | NAK ranges and `last_sent` left out |
| Bond of sender and receiver | both programs | `Bond` | modelled |
| Quality evaluator, load balancer | `quality/` | `QualityScore`, `Quality` | modelled |
| Metrics exporter | `metrics/` | | not modelled: formatting and I/O |
| Parsing, clock, padding | `common.c`, `pad_sendto.h` | in their users | packets are told apart by kind |
| Arguments, sockets, logging | `utils/network_utils.cpp`, the `main`s | initial states | not modelled: start-up I/O |

`PROJECT.json` gives, for every definition, the lines it models.

### Receiver

`ConnectionRegistry` has the data: a connection is a record of its address,
`last_rcvd`, `recovery_start` and the sequence numbers not yet acknowledged; a
group is a record of its connections and of `last_addr`, whether it has an SRT
socket, whether data was seen, whether the SRT server established it, when it was
created, the contents of its socket-info file and the NAK counters. `groups` maps
group numbers to records. Numbers grow with registration, so they stand both for
the random group id and for the place in the vector.

`Receiver` has one action per handler:

| Action | Code |
|---|---|
| `register_group` | REG1: refusals, rate limit, eviction of a ghost, REG2 |
| `register_connection` | REG2: unknown group, address elsewhere, full group, REG3 |
| `process_single_packet` | keepalive, data, control, NAK of a known link; forwarding, creation of the SRT socket and its failures |
| `handle_srt_data` | one packet of the SRT server: relay, establishment, rejection, failed read |
| `EpollWait`, `EndRound` | the clock is read once per round; `cleanup_inactive` and the rate limiter's `cleanup` end it |

Failures of `sendto`, `send`, `recv`, `socket`, `connect` and `epoll_ctl` that the
handlers notice are choices. `ts`, the time of the round, and `clock`, the time a
handler reads itself when it records a failed authentication, are separate
variables because the code compares the one with the other.

`EventLoop` refines the order of the handlers: `epoll_wait` yields a set of
events, one of which may be the SRTLA socket, handled by a batch of packets
(`recvmmsg`); each other event carries the raw pointer of a group. The round ends
early when the number of groups shrank. A pointer to a removed group may lead to
any group or to none, since the memory may have been reused.

`LinkDirectory` is the abstract specification of the table: groups open with a new
number and close, a link joins an open group if it is in none and there is room,
and it leaves when its group closes or, in a sweep, when it was silent. `Receiver`
maps its groups and connections onto it (`Members`, `Silent`);
`ImplementsDirectory` is the refinement. The eviction of a ghost is part of an
`Open` (or a `Close`, when the registration then fails), a failed send and the end
of a group through the SRT server are a `Close`, a cleanup is a `Sweep`: none of
them may move a link to another group, or drop one that was just heard while its
group lives.

### Quality evaluation

`QualityScore` has the arithmetic of `evaluate_group`, `adjust_weights` and
`evaluate_connection_legacy`: bandwidth against the median of the good links, loss,
round trip times, NAK rate and window use become error points, and those a weight.
The code's doubles are whole numbers of bytes a second, ratios are cross products,
and the NAK counters wrap at their widths (`NAK_MOD`, `NACK_MOD`). `Quality`
has the times: the second a round began in, the clock that `evaluate_group` and
`handle_keepalive` read again, evaluations at the end of a round and on a burst of
NAKs, and the two times that `adjust_weights` compares. It models one group; which
links time out is left open.

The two weight scales differ: `adjust_weights` gives the weight 40 from 25 points
(`load_balancer.cpp:51`), `evaluate_connection_legacy` from 30
(`quality_evaluator.cpp:444`), although the comment at `quality_evaluator.cpp:441`
calls them the same logic and `docs/connection-info-comparison.md` calls the two
algorithms functionally identical without telemetry. No run is about this: the
legacy values are only logged.

### Rate limiter and NAK filter

`AuthRateLimiter` has the operations on the map of failures. `Receiver` uses them
through INSTANCE; `AuthThrottle` drives them alone, with the two clocks of the
receiver, and keeps as history every failure and the map as it would be without
cleanup. `NakDedup` is the filter of one group in milliseconds, with the failure
of `get_ms` that the code ignores (the time is then 0) and unsigned subtraction.
`Receiver` has only a counter per NAK hash in its place; `ImplementsCounter` is
the statement that the filter moves that counter as `Receiver` allows.

### Sender

`SenderLink` has `conn_t` and what happens to one link: `reg_pkt` writes a ring of
`PKT_LOG_SZ` sequence numbers, a NAK or an acknowledgement searches it and changes
`window` and `in_flight_pkts`, a failure empties it. `Sender` has the list of
links, registration (`pending_reg2_conn`, `pending_reg_timeout`), the choice of
the best link, housekeeping with its outage timer and the walk through the
receiver's addresses, and the reload of the ips file on SIGHUP.

A packet with several sequence numbers is as many packets with one. The order of
the handlers in the main loop is free, which allows more behaviours than the
code. Sends whose result the code ignores change nothing in `Sender`; `Bond` has
the packets.

### Bond

`Bond` takes `Sender` and `Receiver` through INSTANCE, with an idle SRT caller and
no SRT server, and adds the packets between them: REG1, REG2, keepalives, the
answers REG2, REG3, REG_NGP, REG_ERR, the echo of a keepalive and the keepalives
that a cleanup sends to quiet links. Packets on their way are a set, so they arrive
in any order. Faults, of which there are at most `MaxFaults`: a packet is lost; it
is repeated later; some links lose their signal for any length of time; the
receiver restarts without its groups.

Liveness needs a state space without an end of time. In `Bond` the clock stands
still and `Tick` moves every stored time one second into the past instead, as far
as a comparison can tell; that makes the state space finite with the real timeouts
of the code.

## What is checked

| Run | Shows | Instance |
|---|---|---|
| `receiver_structure` | one group answers for an address (`LookupUnambiguous`); limits hold (`WithinLimits`); ghosts have no socket (`GhostsHaveNoSocket`); the info file is current (`InfoFileCurrent`); a live link is lost only to its own traffic (`LiveLinksSurvive`); the table implements `LinkDirectory` (`ImplementsDirectory`) | 3 addresses, 2 groups of 2 links, 3 registrations, clock 1 to 4 |
| `receiver_timing` | types; nothing outlives its timeout by more than the cleanup's throttle (`ReapedInTime`); the log of unacknowledged numbers never fills (`RecvLogBounded`) | 2 addresses, 1 group, every packet kind of both sides, an acknowledgement every 2 packets, clock 1 to 9 |
| `event_loop` | a pending event dangles only after a registration in the same round (`DanglesOnlyAfterReplacement`); eviction leaves no event behind (`EvictionNeverDangles`); every other step is one of `Receiver` (`ImplementsReceiver`) | 2 addresses, batches of 2 packets, 3 events |
| `auth_throttle` | types; cleanup is invisible (`CleanupInvisible`), blocks expire (`BlockExpires`) and follow a burst (`BlockJustified`) | threshold, window and cooldown 3, 5 failures, 12 ticks |
| `nak_dedup` | types; repeats are bounded and spaced (`RepeatsSpaced`); the filter implements the counter (`ImplementsCounter`) | 2 hashes, 8 ms |
| `sender_window` | types; windows stay in bounds (`WindowBounded`); `in_flight_pkts` never undercounts the log (`InFlightCovers`) | 2 links, a ring of 3, 1 number sent repeatedly |
| `sender_links` | the pending link exists and can send (`PendingListed`); a new group id is kept (`GroupKept`); the sender exits only after a full outage (`ExitJustified`) | 2 links, 2 receiver addresses, 1 reload, 5 ticks after start |
| `bond` | sender and receiver end up in one group with all links, or the sender gave up (`EventuallyBonded`); with the links in order that takes less than 12 s (`RebondsInTime`); the sender gives up only if all links were down at once or, which one fault is too few for, its patience was worn out (`ExitWithCause`); without a fault a connected sender never sees all links failed (`ContactKept`) | 2 links, the code's timeouts, 1 fault of any kind at any moment |
| `quality` | weights follow the latest scores (`WeightsCurrent`); evaluations are far enough apart (`MeasuredLongEnough`) and measure all links over the same time (`SameTimeBase`); the fastest link, if it carries the minimum, lost nothing and sends no telemetry, gets no points (`FastestUnpenalised`) | 2 links, 1 with telemetry, 2 packet sizes, 1 packet a link between evaluations, clock 1 to 5 |

Three further runs state what a document or a comment says and find that the code
does otherwise:

| Run | Said | Done |
|---|---|---|
| `doc_FailedRecoveryDrops` | after a failed recovery the connection is dropped | it is kept until it times out |
| `doc_EventsLive` | comparing group counts avoids stale pointers | a batch that removes one group and registers another goes unnoticed |
| `doc_BurstBlocks` | 5 failures inside 60 s block | only if they fall in one fixed window |

`RebondsInTime` is tight: 11 s do not suffice. The longest way back is from a lost
answer to REG1. The receiver has made a group whose last address is the sender's
link and refuses the repeated REG1; the sender takes the refusal (REG_ERR) for a
sign of life and waits, until the receiver reaps the group.

A note without a run: `docs/HOW_IT_WORKS.md` calls `GROUP_TIMEOUT` an idle timeout,
but the code counts it from the group's creation (`connection_registry.cpp:176`),
so an old group goes in the cleanup that drops its last connection.

### Bounds

Three addresses and two group slots are the least with which one client's
registration can evict another's group while a third address is refused. The
timeouts of the small instances keep the code's order of size, as far as they can,
in the run `receiver_timing`, where it matters (the cleanup's period below the
timeouts of connections and groups, the pending timeout below the group's), and
are 1 or 2 elsewhere so that everything can expire within the clock; `bond` has
those of the code, of which `GROUP_TIMEOUT` does not come into play because no
data flows. With the one round trip time on record in `quality`, the points for
jitter never occur. Bounds in guards: `MaxTime`, `MaxMs` (clocks), `MaxIds`,
`MaxId` (groups), `MaxFailures`, `MaxInFlight`, `MaxActive`, `MaxReloads`,
`MaxFaults`, `Lifetime` (seconds a repeated packet lingers), `MaxLag`
(milliseconds a round may run past the second it began in) and `MaxPackets`. The
one fault in `bond` can hit any packet and any second of a start and of a bond at
rest, but not the recovery from another fault: with two faults TLC did not finish
within 400 seconds. The specifications treat all addresses behind one IP, and all
links, alike (the sender's list may start in any order), so permuting them is a
sound symmetry. A run with a bounded clock could hide what happens after the
bound, which is why the properties are also proved.

`CHECK_DEADLOCK FALSE` is set for the sender and the bond only: the sender exits.

### Fairness

Only `Bond` states fairness, for `EventuallyBonded`:
`SF(Work) /\ WF(Round) /\ WF(Signal)`. `Work` is what happens in a second:
housekeeping (the sender's `select` waits 200 ms at most, so it runs once a
second), the delivery of packets that no fault took, and the passing of the second
once all that is done. It is one condition because the work of a second is finite;
it is strong because a packet for the receiver can only be handled inside a round,
and rounds come and go. `Round` is the receiver's loop, which `epoll_wait` wakes
within a second. `Signal` says an outage ends. Nothing is assumed about faults,
except that they are bounded.

The other properties are safety or action properties; `ReapedInTime`,
`BlockExpires` and `RebondsInTime` are bounded forms of what would otherwise be
liveness.

## What is proved

The theorems hold for every value of the constants that satisfies the named
assumptions, without bounds on addresses, groups, links or times.

| Module | Theorems | Assumptions |
|---|---|---|
| `ReceiverProofs` | `TypeCorrect`, `LookupCorrect`, `LimitsCorrect`, `GhostsCorrect`, `InfoFileCorrect`, `RecvLogCorrect`, `ReapingCorrect`, `DirectoryCorrect`, `LiveLinksCorrect` | `RegistryConstants` and those of `Receiver`: positive limits and timeouts, the pending timeout not above the group timeout |
| `AuthThrottleProofs` | `TypeCorrect`, `CleanupCorrect`, `ExpiryCorrect`, `BlockCorrect` | `ThrottleConstants`: positive threshold, window, cooldown |
| `NakDedupProofs` | `TypeCorrect`, `SpacingCorrect`, `CounterCorrect` | `NakConstants`: the clock stays below the word size |
| `EventLoopProofs` | `BreakSuffices`, `EvictionIsSafe`, `LoopImplements`, `LoopStaysSafe` | those and `EventLoopConstants`: room for an event and a packet |
| `QualityProofs` | `WeightsAreCurrent`, `TimeBasesAgree`, `PeriodsAreMeasured`, `FastestIsUnpenalised` | `ScoreConstants`, `QualityConstants` |
| `SenderProofs` | `TypeCorrect`, `WindowCorrect`, `InFlightCorrect`, `PendingCorrect`, `GroupCorrect`, `ExitCorrect` | `LinkConstants`, `SenderConstants` |
| `BondProofs`, with the lemmas of `BondBudget` | `ExitCaused`, `ContactStays` | `BondConstants`: at least one link, finitely many, positive timeouts that end before `Now`, a receiver that takes at least one group |

**Receiver.** The inductive invariant is `GroupTable /\ Times /\ Entries`.
`ReapedInTime` speaks only of the moments when the loop waits and is not
inductive. `FreshGroup` relates every connection and group to the time of the last
cleanup instead of to now, which handlers preserve because they only move times
forward, and `Times` says that a loop that waits has cleaned up less than
`CLEANUP_PERIOD` ago; together they give the bound. `Exclusive` (no address
answers for two groups) is preserved by a registration because the handler looks
the address up first, and by the rest because no address is added.

**Directory.** `Effect` classifies what a step can do to the table: nothing, an
update of one group with the same links, a removal, an entry, an eviction, an
opening, a cleanup. Each handler is shown to have one of these effects once, and
each effect is shown to be a step or a stutter of `LinkDirectory`. For
`LiveLinksSurvive` the invariant is joined by `NotAhead`: no connection was heard
later than the time of the round.

**Event loop.** `Pending` says that an event is about a number already given, and
about a group with a socket if that group still exists; sockets are never given up
while the group lives, so an evicted group has no event. `Matching` is why the
comparison of counts suffices as long as no group is registered: during a batch
both the groups and the events are among the groups the batch began with
(`FromSameGroups`), so the same number of groups at its end means the same groups.
The receiver's invariant is carried along, through steps that follow a dangling
pointer too, which gives `LoopStaysSafe`.

**Quality.** `WeightsCurrent` holds only while the loop waits and rests on the order
of two times in whole seconds. `Balanced` says what that order tells: if
`adjust_weights` ran no earlier than the last evaluation, the weights are current;
if it ran later, all links have joined since. `Bases` says that a link that was
evaluated was past its grace period in the last evaluation, and bounds the clock
reading it was given, for `MeasuredLongEnough`; `SameBase` is `SameTimeBase`. The
last conjunct of the invariant says that a loop that waits has applied the last
evaluation unless the group is empty.

`FastestUnpenalised` is about one evaluation. The links with at least half of the best
bandwidth are not none, so the value ranked in the middle of them exists and is at
most the best (`RankedIsValue`, `MedianBounded`); what a link is held to is the
minimum or the larger of it and that median, so the fastest link carries it
(`ExpectedBounded`) and gets no points for bandwidth. `Counters` says that a link
which sends no telemetry has never sent any, so it is evaluated without, and the
rest is that no loss costs no points.

**Rate limiter.** `Agrees` says how an entry may differ from the one never cleaned
up: the window is over, or the block is over, at the round's time. `Counts` says
an open window consists of the last failures logged, which makes the block that
ends it a burst.

**NAK filter.** The cache holds the last time a hash passed and the number of
times; unsigned subtraction does not wrap because the code compares first.

**Sender.** `GoodLink` holds of each link: its window is in bounds, the packets an
acknowledgement can find number at most `in_flight_pkts`, and a link that is not
connected has none (`Quiet`). The last is why the window's upper bound holds:
`register_srtla_ack` widens the window before it asks whether the link is
connected and applies the maximum only if it is. `Registration` orders
`pending_reg_timeout` after the last change of the group id, for `GroupKept`;
`Outage` relates the outage timer, the addresses left and the clock, for
`ExitJustified`. `Shape` adds for the type invariant that the list of links names
each of them once, which a reload keeps because it puts new links in front of those
it keeps, in their order (`ListsJoined`).

**Bond.** `ExitWithCause` is an account of time (`Budget`). `Wait` is the longest the
sender may be barred from registering again. `Endured` counts the disturbances so
far: the faults, and a repeated packet only once it arrives. While all links count
as failed, the time since then plus what is still to be waited is at most
`Wait * Endured`. A disturbance pays for a new wait; a second that passes is
paid for by what is waited less. The rest is to show that nothing else makes the
sender wait: once it may register, an attempt that nothing disturbs leads within the
second to a sign of life. `Promise` says which packet on its way will, through the
chain REG2, REG_NGP, REG1, REG2 with the group id, REG2 on all links, REG3; `Orderly`
says that no second REG1 interferes and that the group asked for is of this second
and so survives a cleanup. `HousekeepingEffect`, `SenderEffect`, `ReceiverEffect` and
`RoundEffect` reduce the actions of the two programs to what the account sees.

The account allows no wait to an outage before the first disturbance, so it needs
`Calm`: what a run looks like that nothing disturbed yet. It is at its `Start`; or in
the `Opening` second, where the first registration is under way, no group has links
and the sender was never connected; or some link keeps the programs `Together`: the
receiver heard it a second ago at the latest, and in the second under way its
keepalive, an answer to the sender or the sender's `last_rcvd` shows that the sender
hears of it. No step but a disturbance ends this, the cleanups included, because the
connection is never silent for a whole timeout. This is also `ContactKept`: in a
housekeeping without faults and after a connection, the link that is `Together` is
not failed.

With the times of `sender.cpp` (10, 4 and 4 s) `WornOut` takes three faults. That is
sharp: on an instance with one link TLC finds no exit after two faults and finds one
after three.

Only model-checked: `EventuallyBonded`, because liveness under fairness is outside the
prover, and `RebondsInTime`, whose limit of 12 s is the length of one way back with
the code's timeouts and not a function of them that could be stated for all.

## What the model takes for granted

- The receiver's random group ids do not repeat, and writes of the info file
  succeed. A failed `get_seconds` in the receiver's main loop or in the sender's
  choice of a link changes nothing; its failure where a failed authentication is
  stamped and in the sender's `handle_srtla_data` is not modelled.
- Metrics change no modelled state. Keepalive echoes and the keepalives of a cleanup
  are packets of `Bond` only.
- In `Bond` a packet that is neither lost nor repeated arrives within the second it
  was sent in, and every send succeeds.
- In `Bond` a repeated packet lingers for `Lifetime` seconds at most. Without a
  bound, a no-group answer from before the group existed could reach a sender whose
  links have all failed, after the receiver dropped one link and before it dropped
  another: the first would register a new group, the second stays in the old one,
  where its keepalives are answered, and the bond stays split. This follows from
  reading the code; no run shows it.
- In `Quality` a round reads the clock less than `MaxLag` milliseconds after the end
  of the second it began in.
- The sender's machine has been up for longer than `CONN_TIMEOUT` when it starts
  (`SenderConstants`); before that, a link never heard would count as connected.
- No SRT packet of the sender has number 0: `calloc` leaves a fresh log full of
  zeros, which look like packet 0.
- SRT sequence numbers are compared as plain numbers. A NAK range is a NAK for each
  of its numbers; a range across the wrap, for which the code registers nothing,
  is not told apart.

## Not modelled

- The metrics exporter renders counters for HTTP clients; nothing else reads them.
- Parsing, padding and byte order of packets: packets are told apart by kind.
- Arguments, name resolution, sockets at start-up, logging: I/O that happens once or
  has no effect on the state.
- `last_sent` of a link, which only decides whether a keepalive is due; `Bond` has the
  case of an idle caller, in which it always is.
- The branch of `adjust_weights` for a group without load balancing, and
  `reset_period` and the `*_in_period` functions of `MetricsCollector`: nothing
  switches load balancing off, and nothing in the program calls the latter.
