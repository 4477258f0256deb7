# Castiel DNS Defender: TLA+ models, checks and proofs

Castiel is a DNS proxy that sits between a host and its resolvers. It judges
every query and every response, forwards over DNS-over-HTTPS (DoH) or plain DNS,
caches answers and raises alerts. This directory holds TLA+ models of its
concurrent core, the TLC configurations that check them on small instances and
TLAPS proofs of the properties that should hold at every size. `src/` below is
the repository; line numbers refer to it.

1. The system
2. The modules
3. The runs, their bounds and what they show
4. Where code and documentation disagree
5. Fairness
6. Proofs
7. What is only model-checked, and what is not modelled
8. What is left

## 1. The system

| Part | State | Operations | Touched by | Correct when |
|---|---|---|---|---|
| DoH client (`dnsproxy/doh.go`) | atomic flag, atomic failure counter, time of last check | Exchange, recordFailure, SetEnabled, HealthCheck | query goroutines, health checker, signal loop | breaker never stuck; follows the endpoint; obeys the kill switch |
| Pipeline (`dnsproxy/proxy.go`, handleDNS) | per query: question, response, stage | twelve stages in a fixed order | one goroutine per query | one reply; nothing rejected passed on |
| Response cache (`cache/cache.go`) | map with expiry, RWMutex | Get (two critical sections), Put with eviction | query goroutines | capacity; no stale answer; no needless loss |
| Rate limiter (`detectors/ratelimit.go`) | token bucket per client | Check | query goroutines | ceiling; no unfair refusal |
| NXDOMAIN tracker (`detectors/nxndomain.go`) | counter and block per apex domain | RecordNXDomain, IsBlocked, Cleanup | query goroutines, cleanup | floods block, nothing else does, blocks last |
| Sparse-DGA detector (`detectors/sparse_dga.go`) | history per client | RecordQuery, Analyze, Cleanup | query goroutines, cleanup | flags what it is meant to |
| Alert manager (`alerts/manager.go`) | count per type, last reset | Send | everything | quota; nothing important suppressed |
| Blocklists (`blocklists/manager.go`) | blocked, wildcard and allow maps | load, refresh, IsBlocked | refresh goroutine, queries | listed names never answered |
| EDNS inspector (`detectors/edns.go`) | last alert per client and option | Inspect (two critical sections), Strip | query goroutines | nothing suspicious leaks but in a cooldown |
| Low-and-slow detector (`detectors/lowslow_exfil.go`) | window per apex domain | RecordQuery, Analyze | query goroutines | a slow leak is found |
| C2 and fast-flux detectors (`detectors/rebinding_c2.go`, `fastflux.go`) | history per name | Track, Analyze | query goroutines | a rotation is one of new addresses; races hide nothing |
| Response checks (`detectors/response_validator.go`, `cname_chain.go`) | none | one call per response | query goroutines | the answer fits the question |
| DNSSEC (`dnssec/validator.go`, `detectors/dnssec_downgrade.go`) | caches of keys and DS records, trust anchors; history per name | Validate, RecordValidation | query goroutines | accepted chains are anchored; downgrades are reported |
| Name heuristics and tables (the other `detectors/*.go`) | none to speak of | one call per name or response | query goroutines | see section 7 |
| Daemon (`main*.go`, `signals_*.go`, `service_windows.go`) | process, context | start, signals, clean-up | main goroutine | no redirect without a listener |
| Redirection (`firewall`, `pf`, `nft`, `windivert`) | kernel rules | InstallRedirect, Cleanup | daemon | all rules removed again |
| Monitors (`endpointmonitor`, `pfguard`) | failing set; none | periodic checks | own goroutines | an alert per edge |
| macOS application, simulator, scripts | | start, stop, display | user | |

How they interact. handleDNS runs in a new goroutine per query and calls the
rate limiter, the blocklists, the detectors, the cache and the upstreams in the
order of its source. Each of these has its own lock (the C2 detector has none),
so other queries, the cleanup goroutines and the clock come in between any two
calls; nothing is atomic across two of them. Findings go to the alert manager.
The health checker and the signal loop share the DoH client with the queries.

What is hard to test: those interleavings; windows that tumble at the edge of a
minute; state that is read, used after an upstream exchange and stale by then;
the two critical sections of `Cache.Get`; the atomics of the DoH client; and
failures that come together. `PROJECT.json` lists each as a hazard at its line,
with the properties that would catch it, or why none does yet.

## 2. The modules

    Clock
      NXDomainTracker --+                      RateLimiter ------+
      SparseDGA --------+-- QueryTracking      AlertManager      |
        SparseDGAProtocol (abstract)             EndpointMonitor +-- Admission
                                                 PFGuard --------+
      Handler                                  Cache ----- Pipeline --+
        EDNSInspector ---+                       ResponseChecks ------+-- Answers
        LowSlowExfil ----+
        FastFlux --------+-- Inspection        DoHClient
        DNSSECDowngrade -+                     Daemon
        DNSSECValidator -+                     Blocklist

`Clock` is `time.Now()` in whole ticks. Several steps may share a tick, which is
how two goroutines read the same time.

**DoHClient** has one step per atomic access, so `recordFailure` is three steps
(add, load, swap) and `SetEnabled(true)` is two (swap, then store of 0).
`Queries` forward any number of times; `Checker` is the health checker; `Operator`
is the signal loop (SIGHUP, SIGUSR1, SIGUSR2). The endpoint is up, down, or
"garbage": a captive portal that sends HTTP 200 with a body that is not DNS,
which the probe accepts and a query does not. `rested` stands for the minimum
spacing of the checks: the ticker's period equals it, so a tick may be skipped
but not two in a row. `killed` is history.

**NXDomainTracker** and **SparseDGA** have one action per method, each of which
holds its detector's mutex throughout. A counter of zero stands for an absent
map entry.

**SparseDGAProtocol** is the abstract specification of how the detector is used:
one record per arriving query, at most one more per query when its answer is
NXDOMAIN. **QueryTracking** is the handler's tracking stages in order, over both
histories; it implements the protocol with the queries in flight counted by
whether their client's present window saw them arrive.

**RateLimiter** keeps tokens in units of 1/Second of a token, so that a tick
refills a whole number of units; the code keeps the same quantity as a float64.
`watch` is an observer that starts to count a client's queries at any time.

**AlertManager** is Send with its severity filter and the tumbling quota: one
time of reset for the counts of all types, so that a type's count may be reset
by another type's alert. The count and the line in the log are two critical
sections in the code (`manager.go` 124-136 and 80-87) and one step here: `written`
has the time at which an alert was let through, and its line may follow a little
later, or behind that of another. **EndpointMonitor** is the monitor's goroutine, endpoint
by endpoint: the failing set changes under the mutex, the alert follows after its
release. **PFGuard** is the guard's scan: it lists the anchors, reads the rules of
each in a `pfctl` call of its own while other programs load and flush theirs, and
reports what it found; `steady` is history, the rules in force ever since a scan
began whose dumps did not fail. **Admission** puts queries at the entry of
handleDNS, the monitor and the guard over the rate limiter and the one alert
manager: a query is refused with an alert, or admitted, and raises another if it
is for a zone transfer, the first of the stages that send one.

**Cache** is Get in its two critical sections and Put in its one. An entry
carries when it was put (history). **Pipeline** is handleDNS from admission to
its reply with that cache: a query is at a stage, each stage ends the query with
a reply of its own or goes on to the next stage in `After`. What a detector
finds in a name or a response is data (`BadNames`, the flaws of a response);
what the proxy does about it is control and is modelled. A query has one
question: the DNS library rejects messages with any other number. NXDOMAIN answers
to one name may block its kin under the same apex domain (`Kin`),
as the tracker works on apex domains. `block_loops` and `block_dangling`, which `config.yaml` has
apart (`proxy.go` 537-546), are one switch with that of the CNAME checks: on for
both or for neither. The blocklists grow while queries run
(`LoadFeed`); `listed` is the names that the lines loaded so far cover, and
**Blocklist** says which those are: `IsBlocked` is the loop over a name's parents,
`Covers` what a line stands for. A line with the dot at its end that a query's
name loses is a name whose last label is empty, and covers nothing.
**ResponseChecks** is `ValidateResponse`, `ValidateChain` and
`IsRebinding` as operators on messages, record by record as the code goes
through them. **Answers** puts the two together: a response of `Pipeline` stands
for the messages with its rcode and its flaws, and `AnswersFit` says of both what
neither module can. `MCPipeline` gives it every answer of a bounded shape, and
has TLC compare `IsBlocked` with `Covers` on every name of up to four labels.

**Handler** is the goroutine of handleDNS as the detectors with a history see it:
of the stages, those whose feature is on, in the order of the source. The
modules over it hold one detector each:

- **EDNSInspector** goes through the options of a message one by one. The cooldown
  is looked up in one critical section and renewed in another, so two handlers
  may both report. A message is only stripped when its inspection reports.
- **LowSlowExfil** has RecordQuery and Analyze as two critical sections, with the
  tumbling window between them. Regularity, a ratio of floats in the code, is
  exact here, in integers.
- **FastFlux** is `fastflux.go`, one critical section per call, and the C2
  detector of `rebinding_c2.go`, which has no lock: TrackResponse has a beginning
  and an end, what it read at its beginning is what it writes from, and two
  that touch the maps at the same time may abort the process, as the Go runtime
  does when it notices.
- **DNSSECValidator** is ValidateResponse and the walk up the chain of DS records.
  `walk` is the handler's call stack: the groups of signatures still to try, and a
  frame per level of `verifyDSChain`. Records and signatures are grouped as the code
  groups them, by type alone, whoever owns them; the walk goes to the name with a
  label less, be it a zone or not; and a key in an anchor's zone is trusted for the
  anchor's tag alone. Tags need not tell keys apart. A lookup is a plain UDP
  exchange: it gives what the zone has, nothing, a part of it, or records that
  nobody published, as the constants `KeyAnswers` and `DSAnswers` allow. Caches are
  filled record by record, so that another handler may find a part of a set;
  `misled` is history, whether a lookup has given this walk anything but the truth.
  Cryptography is a relation: a signature belongs to a key, covers the records of
  one owner and type, and is current or not.
- **DNSSECDowngrade** is RecordValidation and the cleanup; `trail` is history, the
  verdicts of each name.

**Inspection** is the handlers with these five detectors.

**Daemon** is runDaemon with the rules it installs, on Unix and as a Windows
service. The rules belong to the kernel and outlive the process; the process may
start again with what an earlier one left. A backend is two lists of commands:
`PF` loads an anchor and then enables pf, which may fail unnoticed, and flushes it;
`Nft` offers a ruleset that nft refuses, and deletes its two tables one by one;
`Iptables` has a command per rule (`Iptables4` where `ip6tables` is missing);
`SystemDNS` and `SystemDNS53` set a Windows host's resolver with `netsh`, with or
without the port proxies that a port other than 53 needs; `PortProxy` is the
configured method of that name, proxies alone. Each command may fail; `must`
marks those whose failure ends the installation. Checking for a rule and adding it
is one step; the rules for the known resolvers are one. The interfaces of a Windows
host count as one, which goes up and down at any time (`LinkChanges`): without one
that is up the installation succeeds with nothing set (`Skips`), and the clean-up
resets an interface that it saved or that is up. Nobody else removes rules or
disables pf, and the main ruleset is taken to refer to Castiel's anchor.
`main` is the main goroutine with handleSignals and the deferred Cleanup,
`server` the goroutine that calls proxy.Start; both may clean up at once.
`Panics` is a panic in a handler, whose goroutine is the DNS library's. main.go
124 assigns a `ctx` that the goroutine of line 83 reads without order: that
goroutine may see the cancellation or not (`ServerStops`). A service is stopped by
`ServiceStop`, which cancels, and `ServiceEnds`, which ends the process two seconds
later while the main goroutine, which also waits two seconds, may not have cleaned
up yet. A changed configuration between two lives (another port or
resolver list) is not modelled.

The `MC*` modules give the constants their values for TLC. Operators whose names
extend that of another (`ExceedsAtThreshold` beside `Exceeds`) are faulty
variants, used to confirm that the properties notice such faults; no
specification uses them.

## 3. The runs, their bounds and what they show

| Run | Instance | Properties beside the type invariant |
|---|---|---|
| `doh` | two queries, checker, operator; threshold 2 | `BreakerNotStuckClosed`, `EveryQueryAnswered`, `RecoversWhenUp`, `FallsBackWhenDown` |
| `trackers` | four queries of one client, two names under one apex; threshold 1, windows of 1 tick, clock to 4 | `TripJustified`, `FloodCaught`, `CleanupSparesBlocks`, `FollowsProtocol` |
| `admission` | one client with up to five queries, observed; a monitor of two endpoints; a guard with its own anchor and another; quota 1 per 2 ticks, clock to 5 | `RateCeiling`, `RefusedOnlyOverShare`, `SuppressionJustified`, `AlertCeiling`, `RefusalsAreHeard`, `OutageAnnounced`, `BlockingReported` |
| `inspection` | six configurations, each with the traffic that tries it: up to four queries, three names, two clients; windows and cooldowns of 1 tick | `LeaksOnlyInCooldown`, `SlowLeakCaught`, `RotationIsNew`, `OldFindingsConfirmed`, `ValidIsAnchored`, `RejectionExplained`, `DowngradeReported` |
| `cache` | three keys, two readers, two places, four kinds of answer, clock to 3 | `Capacity`, `AnswersRespectTTL`, `EvictionSparesFresh` |
| `pipeline` | two queries, a name that can be listed, one that a detector dislikes, one transfer; the verdicts of every bounded answer; three configurations; a cache of one place, clock to 1 | `AnswersFit`, `OnlyVettedPassedOn`, `ListedNeverAnswered`, `OneReply`, `EveryQueryEnds` |
| `daemon` | the seven backends, any number of starts, any command failing | `RedirectionWhole`, `NothingLeft`, `StopEnds` |

All but `cache` and `pipeline`, whose type invariants are proved (section 6), also
check their type invariant.

*doh*. The breaker is never left closed past its threshold, though the flag and
the counter are separate atomics and a success, a failure and a re-enable may
interleave in every way; a query always ends; and DoH converges to the state of
a steady endpoint if the operator leaves it alone. Two queries are the smallest
number with two `recordFailure` calls in flight at once; a threshold of 2 makes
one call trip and the other not. The counter saturates above the threshold
(`FailCap`): the code compares it with the threshold only. Note the condition of
the liveness properties: an endpoint that answers probes but not queries
("garbage") makes DoH flap for ever, which the code allows.

*trackers*. A domain trips only on more than Threshold NXDOMAINs within one
window, and more than twice Threshold always trip it: the window tumbles, so the
Threshold alone does not. The cleanup never lifts a block in force. The
sparse-DGA detector is called as its protocol says: each query is recorded on
arrival and once more on its NXDOMAIN answer. What follows from that for the
detector is the run `sparse_unflagged` (section 4). Four queries suffice for a trip, a lapse and a second count; the clock
outlives two windows and a cleanup.

*admission*. From any moment on, a client gets at most one full bucket plus its
rate; whoever is refused has had its share; alerts of a type are suppressed only
when that type has been written within the last window, and no window carries
more than two quotas (a burst may straddle a reset). The rest joins the alerts
with what raises them: while queries are refused, while an endpoint's probes
fail, and when a rule against Apple's network outlives a whole scan, an alert has
been written in time or so short a time before that the quota was used up. The
three loads are: queries alone, observed; the monitor beside a query for a zone
transfer, whose alert may be what resets the monitor's counts, as may the monitor's
recoveries, which a minimum severity of "info" lets through; and the guard, whose rule in the main ruleset stays
while one beside it and one in another anchor come and go between the dumps.

*inspection*. With stripping on, a suspicious option goes upstream only in the
cooldown of an alert for it. Twice the threshold of names under one apex within
the window, less one, are reported. A reported rotation is one of addresses that
are new. What the older of the two flux detectors says of a name's addresses the
newer says as well, though the older loses updates to races. A signed response is
accepted only if each signed type in it is one RRset with a current signature by a
key from which DS records and keys lead to an anchor. These are the records that
lookups gave, since the walk believes them, and the anchor is what the code takes
for one: `ValidIsAnchored` says what the validator ensures, which is less than
DNSSEC promises (section 4). A response whose signatures lead to an anchor by the
records there are, in the way the walk can go, is rejected only after a lookup or
a cache gave it others; the signatures that no walk can follow are in section 4 as
well. A name that has validated and fails
twice in a row is reported. Three queries of two clients, with up to two
suspicious options each, overlap in the cooldown; four queries of three names pass twice the threshold of
2 less one; three addresses in two answers make a rotation and a lost update;
three verdicts a downgrade; two handlers share a cache that fills; a zone in the
middle of a key rollover, a name two labels deep, and a root with a key-signing and
a zone-signing key have every branch of the walk, while lookups may fail, or give a
key with the anchor's tag or one for a name that is no zone; the answers include two
aliases signed as they should be. Each configuration has a clock of
its own (`until`), long enough for its windows to end once.

*cache*. The capacity holds at all times. An answer served is no older than the
least of its TTLs, or than the default time if it has none, though the clock moves
between the lookup and the examination; the exception, which `AnswersRespectTTL`
names (`ZeroServed`), is an answer with a TTL of zero (section 4). Making room takes
an unexpired entry only when none is expired. Three keys for two places, answers of
two TTLs, one of zero among them, and two readers at once have every branch of
Put and both orders of Get's critical sections with it.

*pipeline*. With the response validator and the CNAME checks blocking, what a
client gets fits its question: aliases end within the allowed depth, and each
address belongs to the question's name or to a name that an alias before it led
to. Neither check gives this alone. The answers have up to four records out of
twelve when they are successful and up to two when they are NXDOMAIN: four are a
chain of the greatest depth with an address, and one record too many. No response
that the configuration rejects reaches a client, neither
the one who asked nor, through the cache, another. A name that is listed from a
query's arrival on is not answered and not asked upstream. One reply per query;
every query ends. The responses include two that look rejected and are not: an
unsigned NXDOMAIN (signatures are checked on successful answers only) and an
address whose check is not configured to block. One place in the cache makes
two names evict each other. The configurations are DoH with plain upstreams,
DoH alone, and plain DNS alone.

*daemon*. Unbounded: the state space is finite as it is. A firewall manager means
that every indispensable rule is in place, including rules a crashed process left,
with one exception: where no interface was up the DNS server is not set. It does
not mean that pf is enabled. An orderly end, by signal or by a failing listener,
leaves nothing behind but what a failing command was to remove, or what the
interface had when it was down at clean-up, though both goroutines may clean up at
the same time and either may end the process while the other is at work; and a stop
always ends. Three limits are visible in it: a process that never got a manager
removes nothing (initFirewall returns nil after a partial `iptables` installation),
SIGKILL, or a signal before signal.Notify, leaves the rules to the next start, and
so may a service whose two seconds are over before its clean-up is.

## 4. Where code and documentation disagree

Each is a run in which TLC finds the documented property violated; `PROJECT.json`
has the quotations.

- `kill_switch`: a healthy probe re-enables DoH whoever disabled it, so the kill
  switch holds until the next probe (`doh.go` 246).
- `block_lifted`: the first NXDOMAIN after a counter's window replaces the
  counter with its block; a query that was already past the block check can so
  lift a block early (`nxndomain.go` 58).
- `sparse_unflagged`: a query is recorded with the sparse-DGA detector on arrival
  and once more on its NXDOMAIN answer, and both add to the total, so that a client
  all of whose queries fail has a share of about one half and is not flagged at the
  configured 0.6 (`proxy.go` 323 and 505, `sparse_dga.go` 102), though the detector is
  to flag a client by its share of failing queries (`sparse_dga.go` 15-19; the
  repository's `README.md` 121; `tier2_test.go` 65-73, which records each once). `ProxyFlagsOnlyStragglers`
  (section 6) says that this is so at every size.
- `nil_response`: with DoH in use and no plain upstream, an accepted
  configuration, the fallback returns neither response nor error, and handleDNS
  reads through nil unless response blocking is on (`proxy.go` 777).
- `daemon_panic`: the recover in main.go covers the goroutine that calls
  proxy.Start, not those of the handlers, so a panic in a handler leaves the
  redirection without a listener (`main.go` 84).

Further observations, met while modelling and visible in the models, which no
run is spent on:

- EDNS: options are stripped only when an alert is due, so during the cooldown
  they go upstream, against the comment at `edns.go` 185-186; this is why
  `LeaksOnlyInCooldown` has its exception. MaxCookieLen and AlertOnUnknown are
  configured and not used.
- DNSSEC, what is believed: keys and DS records come from UDP lookups whose
  signatures are never verified; a key in an anchor's zone is taken for the anchor
  if its 16-bit tag is the same (`validator.go` 233-240, unlike 284-290, and against
  the chain of trust that the comment of 14-18 describes). RRsets without a
  signature pass beside signed ones. An unsigned response counts as a validation
  for the downgrade detector.
- DNSSEC, what is rejected though its signatures are valid, against line 166, "Only
  reject responses with *invalid* signatures": answers with a type that several
  owners have, as a chain of two CNAMEs, since records are grouped by type alone
  (162-173, 411-430); keys of the name above that is no zone (243-246); and zones
  that sign with a separate zone-signing key, as most do, since DS records are
  compared with the signing key itself. A cache of keys or DS records that another
  handler is filling, or one key's DS records during a rollover, may serve a part
  of the set, and the response is rejected (DS records are cached by zone,
  algorithm and digest type).
- Cache: a least TTL of zero is taken for none, and the answer is kept for the
  default time, against `cache.go` 63, "Use minimum TTL from response records". Get
  deletes the key it found expired in a critical section of its own (43-49), so a
  fresh answer put in between is lost.
- Low-and-slow: the square root takes ten Newton steps, overestimates large
  deviations and so misses some slow beacons; the model's is exact.
- Fast flux: `Cleanup` has no caller and addresses seen are never forgotten. The
  C2 detector's maps have no lock.
- CNAMEs: of several for one name only the last is followed. The targets of all
  CNAMEs, in the chain or not, are admitted as owners of records, and the owners of
  CNAMEs are not looked at (`response_validator.go` 88-89); the two checks
  together still give `AnswersFit`.
- Alerts: three senders use the severity "warning" (`proxy.go` 363, 379, 580), which
  `meetsSeverity` does not know (`manager.go` 106-122), and their alerts are never
  written. The counts of all types are reset at once. The monitor's alert of a
  recovery ("info") is below the default minimum severity. One rule that names the
  network and the ports yields two alerts. The guard's scan stops when the main
  ruleset is empty or cannot be read. The monitors start before the context is
  made cancellable and are not stopped.
- Rate limiter: nothing removes a bucket, so the map grows with every source
  address.
- Firewall: the rules that block the resolvers stand outside a chain (`nft.go`
  94-97), which nft refuses with the whole ruleset, so that a host with nft has no
  redirection and the daemon runs on. The failure of `pfctl -e` is ignored
  (`pf.go` 50-52), and the rules may be in an anchor that nothing evaluates.
- Windows: with no interface up the installation succeeds and sets nothing
  (`windivert.go` 60-87, 156-187); an interface that is neither saved nor up at
  clean-up keeps 127.0.0.1 (121-128). Cleanup, which "restores the original DNS settings" (`windivert.go`
  112), resets them to DHCP. The service's two seconds (`service_windows.go` 39)
  and those of handleSignals (`signals_windows.go` 45) end together, so the
  clean-up may be cut off. The listener may end at the cancellation, while the
  redirection is in place for two more seconds.

## 5. Fairness

`DoHClient` assumes weak fairness of each query's steps once it forwards, of the
health checker and of the operator's steps once a signal is being handled: Go
schedules runnable goroutines, an HTTP exchange ends by the client's timeout, and
the ticker ticks. Queries need not arrive, signals need not be sent, the network
owes nothing; a steady endpoint is a premise of the property, not an assumption.
`Pipeline` assumes weak fairness of each handler once its query has arrived:
each of its exchanges has a timeout. `Daemon` assumes it of each goroutine's own
work, commands included, and of the end of a stopped service; signals, listener
failures and restarts are owed by nobody. The other specifications state safety
only.

A clock with a bound stops; time-dependent properties are therefore all safety
properties. Deadlock is checked except in two runs that come to an end of their
own: `admission` without an observer stops at the clock's bound, and `inspection`
when its queries are done, or the process has aborted, and its clock has stopped.

## 6. Proofs

`tlapm` proves, for every value of the constants that the `ASSUME`s allow:

- **DoHClientProofs**: `TypeCorrect`, `BreakerSafe`. The type invariant confines
  each goroutine to its own code; with it `BreakerNotStuckClosed` is inductive:
  the step that makes its premise true leaves its own goroutine unsettled, and
  the steps that settle a goroutine falsify the premise. This holds for any
  number of concurrent queries and any threshold. Three action properties are
  what the liveness properties of `doh` rest on. `QueriesAlwaysAdvance`: a query's
  rank falls with each of its steps and nobody else moves it.
  `FailuresAlwaysDrain`: while the endpoint is up the set of goroutines that may
  yet switch DoH off only shrinks, and each time the checker or a query does so
  it leaves the set. `SuccessesAlwaysDrain`: the same, while the endpoint is down, of
  those that may yet switch DoH on or clear the count.
- **TrackingProofs**: for `NXSpec`, in which the tracker's methods are called in
  any order, `BlockShapeHolds` (a blocked counter has exceeded the threshold and
  its block ends one window after an NXDOMAIN it has seen) is the inductive
  invariant; it gives `CleanupIsSafe` (two windows of silence outlast the block)
  and `BlocksBeginAtThreshold`. For `SparseSpec`, `AtMostHalf` is the
  inductive count `2*nx + open <= total + carried`, from which
  `OnlyStragglersFlag` follows by arithmetic. `HandlerUsesTracker` and
  `HandlerFollowsProtocol` show step by step that the handler of `QueryTracking`
  implements both, so that what is proved of them holds in the proxy:
  `ProxyFlagsOnlyStragglers` is why `sparse_unflagged` happens. `TripsAreJustified` and `FloodsAreCaught` rest on
  `AccountsHold`, which ties each counter to the history of NXDOMAINs: it has
  counted the last of them, from its first on, and what came before those has
  tripped or is too old to add to a flood.
- **RateLimiterProofs**: `SharesHold` is an invariant that bounds spent and
  remaining tokens from above and below relative to the observer; `CeilingHolds`
  and `RefusalsAreFair` are its two halves. The products of two variables are
  isolated in lemmas of their own (`OneMore`, `TickEarns`).
- **AdmissionProofs**: `EntryUsesRateLimiter` carries the limiter's theorems over
  to the entry of handleDNS. `AdmissionInv` has a part for each of the others.
  `AlertInv` divides the alerts written of a type at the last reset, as its count
  says (`Epochs`), since another type's alert may be what reset it; `MonitorInv`
  ties the failing set to the outages; `GuardInv` follows a rule that stays in
  force through the stages of a scan; `SuppressionIsJustified`, `AlertsAreBounded`,
  `RefusalsAreAlwaysHeard`, `OutagesAreAnnounced` and `BlockingIsReported` follow
  for any quota, any endpoints and any rules.
- **CacheProofs**: `CacheInv` is inductive. It says that the map is within its
  capacity, that every entry held, in the map or by a reader, was put at some
  time with the lifetime its response has, which is what `AgesRespected` needs in the
  gap between Get's lookup and its examination. That `Min` and `Max` of the
  TTLs exist is taken from the library's well-foundedness of the naturals.
- **PipelineProofs**: `PipelineInv` adds to `CacheInv` that everything in the
  cache has been vetted and, per query, what its stage implies: a response past
  "record" is not malformed, past "vet" it is clean, and a query for a listed name
  is never past "blocklist". A step of one handler leaves the other queries'
  parts alone (`HandlerStep`), and the stages end in one of two ways (`Ends`,
  `Passes`). `HandlersUseCache` shows that handleDNS implements `CacheSpec`, so
  the theorems on the cache hold in the proxy. `OnlyUnguardedPanics` delimits the
  run `nil_response`: a response is missing past the upstreams only where there is
  no plain one, and past ValidateResponse only where that does not block
  (`NilInv`). `HandlersAlwaysAdvance` is the measure behind `EveryQueryEnds`: the
  stages to come, and within the cache the steps of Get to come.
  `AnswersFitTheirQuestions` rests on `SoundAnswerFits`: a message that is not
  malformed and whose chain is not bad fits the question. `ChainWalks` is its
  lemma about extractCNAMEChain: the chain is a walk along the aliases, and it has
  not stopped early, for it stops at a name that is no alias or that it has met
  before, and with one pass per record it cannot run out of passes first: that
  would take more different aliases than there are records. The walk is a
  recursive function of the number of passes, over an answer of any length; the
  induction on passes is over a set of naturals that contains 0 and successors
  (`NatInduct`), which follows from the library's well-foundedness of `<`.
  The same lemma makes `LoopDetectionIsExact`: DetectLoop looks at a chain that has
  been cut off, and yet reports exactly the aliases that lead to no end.
  `ApexOfSubdomain` is about ExtractApexDomain, on which the trackers key.
  `BlockedIsCovered` and `BlockedBelow` are about the blocklists, for lines and
  names of any length: the bounds of the loop leave out the name itself, as the
  tests ask, and the last label, so that `*.zip` blocks nothing; a star reaches
  every depth, and allowing a name does not allow what is below it. Both rest on
  `BelowLabels`: what is strictly below a name is told by its last labels.
- **DaemonProofs**: `DaemonInv` is inductive. It says that every rule present but pf's
  being enabled is one that some command of Cleanup removes which is issued whatever
  was saved (`Removable`, `Sure`; `BackendsAreWhole` derives it from the backends'
  lists), that the installation has brought every rule it needs but what it was
  excused (`Excused`), that a goroutine at a certain command of its clean-up has
  removed, or failed to remove, what the commands before it name, whatever the
  other goroutine does (`Progress`), and that the server's goroutine runs only when
  the installation is over. `RedirectionIsWhole` and `NothingIsLeft` follow, for
  any number of starts, a service's early end included. `WorkAlwaysAdvances` is the
  measure behind `StopEnds`: while the process lives a goroutine's work takes it to
  its next command or a later stage, and nothing sends it back.
- **InspectionProofs**: `HandlerInv` is what `Handler` gives every detector: a
  query is at one of the stages that are on, and a step of one handler moves it
  forward and no other (`Moves`). Each detector has an invariant over it.
  `EDNSInv` accounts, per query, for its suspicious options: each is yet
  to be looked at or reported, or was in its cooldown (`NoLeakBeyondCooldown`). `FluxInv` says that
  the older detector, also within an unfinished call, knows no address that the
  newer does not (`RacesHideNothing`), and that a history holds an address at the
  time it was first seen (`RotationsAreNew`). `DowngradeInv` reads the failures
  of a name off the trail of its verdicts (`DowngradesAreReported`). `WalkInv`
  says that a walk in progress is sound: the key of each frame is anchored if the
  one on top of it is, what has been given up was not anchored or the walk has been
  misled, and the caches hold only what some lookup gave
  (`AcceptedIsAnchored`, `RejectedForTrouble`). Nothing is assumed of lookups but
  that an answer holds records of the name asked for; nor of tags. "Anchored" is stated by a chain, a
  set of keys closed towards what the code takes for an anchor, instead of by recursion along the zones.
  `ExfilInv` says that the low-and-slow detector's window knows every name recorded
  in it and that a full one has its reporter, and the same of the window before it;
  of twice the threshold, less one, names within a window's length one of the two
  holds as many as the threshold (`SlowLeaksAreCaught`). `InspectionTypeCorrect`
  puts the detectors' parts of the type invariant together.

The proofs rest on the named assumptions on the constants, which TLC evaluates in
the runs: `ClockAssumption`, `DoHAssumption`, `NXAssumption`, `SparseAssumption`,
`TrackingAssumption`, `RateAssumption`, `AlertAssumption`, `MonitorAssumption`,
`GuardAssumption`, `TypesAssumption`, `LoadsAssumption`, `CacheAssumption`,
`PipelineAssumption`, `AnswersAssumption`, `HandlerAssumption`, `EDNSAssumption`,
`ExfilAssumption`, `FluxAssumption`, `ValidatorAssumption`, `DowngradeAssumption`. They say that
quotas, windows and thresholds are positive numbers, that tables are functions on
the sets they are about, that there are finitely many names, each with the root above it, that a lookup
gives records of the name asked for and may give what there is or nothing, that an answer is a
sequence of records and a name one of labels, and that the alerts sent have types
the manager knows.

## 7. What is only model-checked, and what is not modelled

Only model-checked:

- liveness (`EveryQueryAnswered`, `RecoversWhenUp`, `FallsBackWhenDown`,
  `EveryQueryEnds`, `StopEnds`): the prover has no rules for fairness and `ENABLED`
  here. What is proved of them is their safety part, measures that fall
  and sets that drain (section 6); that a goroutine which can run does run, and
  the conclusion drawn from both, is TLC's.

Every invariant and action property of the passing runs is proved.

Left out within what is modelled: alert texts, logging and counters, and all
metrics but the DoH gauge; shadow queries (they compare and alert); the
statistics methods; the disabled branches of each stage's switch, which skip the
stage. Float rounding of tokens and ratios is replaced by exact integers. A hit
carries the TTLs it was stored with; the models keep its age only. In
`Inspection` the stages that `Pipeline` and `QueryTracking` have are left out:
they may end a query, and touch none of its detectors.

Not modelled, with the reason:

- the name heuristics (`dga`, `ngram`, `entropy`, `lookalike`, `dictionary_dga`):
  functions of one name into floating-point scores, without state; their
  verdicts are data in `Pipeline`;
- DNS calculation, DoH bypass, Apple pinning and WHOIS: tables looked up per
  response, and a network client; their verdicts are data as well;
- the parsing of the blocklists' feeds: a feed is the lines it yields;
- what a rule of the firewall does to a packet, and so the proxy's own queries
  that the OUTPUT redirect may catch;
- the macOS application, the attack simulator and the shell tools: a front end to
  launchctl, a test client, and scripts that send the signals `DoHClient` has;
- code that nothing calls: `exchangePooled` and the connection pool,
  `ExchangeGet`, `CheckNXDomain`, `SetMode`, fast flux's `Cleanup`.

`PROJECT.json` lists every component with its modules, and the hazards that no
property covers with the reason.

## 8. What is left

1. Pure algorithms as operators, against reference definitions over bounded
   inputs: the three feed formats, dictionary segmentation, edit distance, the
   cache key.
2. The path of a packet through the rules.
3. A circuit breaker as the abstract specification of `DoHClient`.
