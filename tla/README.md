# Hexfield in TLA+

Hexfield is a peer-to-peer hex board game. There is no game server: the seats of a game (one to six
voters) run a Byzantine-tolerant agreement among themselves, height by height, over WebRTC links that
a small signaling server introduces. Each height of the log is one certified game or control entry;
the rules engine replays the log deterministically.

This directory holds TLA+ modules that model the parts of it that carry its correctness, the TLC
configurations that check them on small instances, and TLAPS proofs of what matters most. Paths below
are relative to the repository; `protocol/` is `packages/protocol/src/`.

## 1. Inventory

| Part | State | Operations | Talks to |
|---|---|---|---|
| Certificates, proposer rotation (`protocol/votes.ts`, `proposal.ts`) | none | quorum size, certificate verification, the proposer of a round | called by the reducers |
| Consensus reducers (`protocol/consensus.ts`) | the safety record of a height: round, step, votes, proposals, hints, timers, lock, valid value, evidence, decision, halt | `dispatch` of eleven events; `restoreConsensusState` | controller |
| Durable voting controller (`consensus-controller.ts`, `safety-store.ts`) | the record in memory, its revision, a serial queue, the stopped flag | create, restore, dispatch, resume, dispose, effect delivery | reducers, journal, log |
| Protocol journal (`journal.ts`; `storage/src/indexed-db-protocol-journal.ts`) | certified entries, the record and revision of the open height | initialize, load, saveSafety, commit | controller, log |
| Replicated log (`replicated-log.ts`, `log.ts`, `replay.ts`) | certified log, head, open controller, held commits, derived-state repair, outstanding sync and snapshot requests, budgets per peer, the promise given for a submitted command | pulse, receive (heartbeat, commit, sync and snapshot requests and answers), submit, decide, commit, repair, retirement | everything in `protocol/` |
| Turn timeouts (`turn-timeout.ts`, `session-timing.ts`) | the certified anchor of each pending timer, each voter's own observation of it | advance anchors, observe, propose and admit a timeout command | log |
| Recovery and membership (`recovery-*.ts`, `transfer-membership.ts`, `takeover-policy.ts`, `authority.ts`) | the controllers (seat, key, epoch), presence markers, a pending takeover or transfer, barriers, consents | seat offline and online; authorize, amend, activate, void; transfer authorize, cancel, activate | log |
| Verified randomness, hidden hands (`beacon-state.ts`, `deck-*.ts`, `steal-state.ts`, `hand-transition.ts`, `escrow-lifecycle.ts`, `master-reveal.ts`) | contributions and ledgers | contribute, open, draw, steal, reveal, audit | log, engine |
| Lobby, genesis ceremony (`lobby.ts`, `online-ceremony.ts`) | roster revisions, readiness, ceremony stages | join, ready, start, contribute | peer links |
| Signaling room (`apps/signaling/src/room-core.ts`) | sessions, rooms with their rosters and last activity | open, join, signal, leave, disconnect, sweep, restore of a session | its host |
| Signaling hosts (`apps/signaling/src/server.ts`, `worker/cloudflare-room.ts`) | sockets, pings; attachments, the stored activity and one alarm | connection, frame, close, heartbeat; fetch, alarm, hibernation | room, peer links |
| Peer link (`packages/p2p/src/peer-link.ts`) | negotiation role, session and revision, a queue of jobs, early candidates, the hello handshake, ping deadlines, the reason it ended | negotiate, answer, candidate, hello, ready, ping, restart ICE, fail | signaling, log |
| Mesh transport, framing (`packages/p2p/src/`) | attempts per pair; partial messages | connect, retry, reassemble | peer links |
| Browser storage (`packages/storage/src/`) | writer lease, vault, map and snapshot stores | acquire, run, lose | log |
| Engine (`packages/engine/src/`) | the stack of phases, offers, hands as the public knows them (`bounds`), bank, deck | apply a command, certified random results, timeouts | log |
| Crypto, codec, bots, maps, renderer, web application | - | - | - |

What is hard here, and where tests can hardly reach:

- **Interleaving and loss.** Votes, proposals and certificates of several rounds arrive in any order,
  twice or never, while locks move; one voter may lie. (`Implements`, `AgreementInv`,
  `CommittedValueIsLocked`, `RoundIsEarned`, `EveryoneDecides`.)
- **Restart.** `restoreConsensusState` re-validates the whole record. A transition that leaves any field
  inconsistent makes the voter unrecoverable much later. (`AlwaysRestorable`, `RestartIsExact`.)
- **Evidence.** Four doors (votes, proposals, control entries, accusations) lead to the same decision to
  stop. (`EvidenceStopsVoter`, `HonestNeverHalts`, `HaltIsFinal`.)
- **One key, several processes.** Two tabs, or a restarted process whose predecessor's write is still on
  its way. (`NoEquivocation`, `SentIsDurable`, `RevisionFixesRecord`, `JournalIsMonotone`.)
- **Catching up.** A hint overtakes the entry it announces, a queue drops, a budget is spent, the journal
  commits and the process dies before it says so, the derived state is repaired while commits arrive, and the user
  was promised something about a command. (`ImplementsCertifiedLog`, `VerdictIsTrue`,
  `HeldCommitIsApplied`, `EveryoneCatchesUp`.)
- **Who votes.** A player vanishes, is replaced, moves to another device or comes back, while consents
  signed earlier lie around and a second change is under way. (`AuthorityIsValid`, `PendingStaysUsable`,
  `KeysServeOnce`, `ConsentIsOwned`, `ConsentIsFresh`, `MarkersAreCurrent`, `VotersSurvive`.)
- **Deadlines without a shared clock.** Voters observe the anchor of a timer at different times, restart
  and lag, and one of them proposes timeouts at will. (`TimedOutHadTheirTime`, `TimersRunOut`.)
- **A game nobody sees whole.** Hands are private; offers, monopolies, steals and forced discards are
  resolved against public bounds, and a phase waits for a seat that may never answer.
  (`HandsWithinBounds`, `OffersAreSound`, `TurnsEnd`.)
- **Two ends that offer at once.** Descriptions collide, answers are stale, candidates come early, the
  hello of one end crosses the failure of the other. (`SettledEndsAgree`, `AttemptSettles`,
  `HonestEndsNeverAccuse`.)
- **A room that forgets.** Sends fail in the middle of an announcement, a key rejoins while its old socket is
  still closing, the object loses its memory between two frames and has a single alarm for all deadlines.
  (`RoomIsConsistent`, `SocketsAreSessions`, `SleepIsExact`, `SilenceIsReleased`, `DeadPeerLeaves`.)

## 2. Modules

```
Votes <- Agreement  --- AgreementProofs <--+        SafetyWriter <- MCSafetyWriter
  ^          ^  (refinement, INSTANCE)     |             ^--- SafetyWriterProofs
  |          |                             |
  +------ Consensus <- MCConsensus         |        CertifiedLog
  |          ^------ ConsensusProofs ------+             ^  (refinement, INSTANCE)
  |                                                      |
  +- Membership --- MembershipProofs                LogSync <- MCLogSync
  |     ^                                                ^--- LogSyncProofs
  |  MCAgreement (Agreement, Membership)
  |                                                 RoomCore <- CloudflareRoom <- MCSignaling
  +- TurnTimeout                                        ^                            |  ^
        ^                                               +--- SignalingServer <-------+  |
     MCTurn, TurnProofs (TurnTimeout, BaseGame)                (INSTANCE)          RoomProofs
                                                    PeerLink <- MCPeerLink
                                                        ^--- PeerLinkProofs
```

**Votes** has `quorumSize` (1, 2, 3, 3, 4, 4 for one to six voters), the signer sets that
`verifyCertificate` accepts, `tolerated` (how many offenders a voter lives with) and `proposerFor`.
Signatures are abstract: a vote exists when its signer made it.

**Agreement** is what the voters of one height promise, without messages: one action `Step` whose
conjuncts are the voting rules (one prevote and one precommit per round, never against the lock, a lock
and a decision only under a certificate). A Byzantine voter has signed everything from the start.

**Consensus** is `consensus.ts`. `rec[s]` is the safety record of voter *s*, and each event of `dispatch`
is one action: the whole reducer, `drive` and `maybeCommit` included.

| Code | Definition |
|---|---|
| `createConsensusState` | `InitialRecord` |
| `input-available`, `propose`, `proposal`, `vote`, `commit` events | `InputAvailable`, `Propose`, `ReceiveProposal`, `ReceiveVote`, `ReceiveCommit` |
| `accusation`, clearing of a stale one | `StageAccusation`, `ClearStaleAccusation` |
| `timeout` (`propose`, `prevote`, `precommit`) | `Timeout` |
| terminal halt asked for by the log | `TerminalHalt` |
| `restoreConsensusState`; resume after a replay | `Restorable` and `restored`, `Restart`; `ResumeAfterReplay` |
| `drive`, `maybeCommit`, `maybeJump`, `enterRound`, `addHint`, `recordVote`, ... | operators of the same name |

There is no network variable. A record is persisted before what it signed is sent, and what it signed is
sent again after a restart and by every pulse, so the messages in existence are the ones in the
records plus whatever a Byzantine key can sign. Losing, delaying, duplicating and reordering a message is
receiving it never, late, twice or in any order.

Data: a value is an entry hash (which ignores round and proposer, as `entryHash` does); a proposal is its
round, value and valid round; the certificate that justifies a proposal is chosen on reception among
the signer sets that exist. The engine's verdict on a value is the constant `Rejects`; the local policy
`admitLocalValue`, which may change its mind between two calls, is the set `refused`, chosen anew for
each transition; control entries are values with an `Offender`. The exclusions that earlier heights
certified are the variable `excluded`, fixed when the height starts to one of `Exclusions`; an offender that an earlier
height proved is in `Carried`.

**SafetyWriter** is one key, its journal and every process that holds the key: `ConsensusController` over
the compare-and-swap journal, with `openController`, `handleEffects` and `persistCommit` of the log. A
transition is split where the code awaits: `Dispatch` (reduce), `Save` (the transaction resolves), `Send`
(one vote after another), `BeginCommit` / `EndCommit`. `Crash` may leave a transaction that `Land`s later.
The reducers are abstracted to what the controller sees of them: a transition fills empty vote slots and
may decide or halt.

**CertifiedLog** is what the replicated log promises: one certified sequence that only grows, and in each
replica a prefix of it that only grows. **LogSync** is the part of `ReplicatedLog` that keeps it. Agreement
is another module: one `chain` is certified, and a certificate for a height is one for `chain[h]`.

| Code | Definition |
|---|---|
| `pulse` and its heartbeat, commit hint, requests | `Pulse`, `pulse`, `pulseWhenStuck`; `Tick` for the two seconds |
| `receive` of HEARTBEAT, COMMIT, SYNC_REQ / SYNC_RES, SNAPSHOT_REQ / SNAPSHOT_RES | `ReceiveHeartbeat`, `ReceiveCommit`, `ReceiveSyncReq`, ... |
| `acceptCertified`, `acceptBatch`, `requestSync`, `admitExpensiveRequest` | `acceptCertified`, `acceptAhead`, `acceptBatch`, `requestSync`, `Admits`, `Admitted` |
| `enterDerivedRepair`, `repairNow`, `receiveDuringRepair` | `enterDerivedRepair`; `repairForgetful`, `repairDerived`, `repairHalted`; `ReceiveRepairSnapshot`, `ReceiveDuringRepair` |
| `submit`, `settlePending` | `Submit`, `settlePending`, `settleAll` |
| `persistCommit`, certified values that the engine rejects | `persistCommit`, `dispatchCommit` |
| the page dies, also after the journal's commit; comes back; a link ends | `Crash`, `CrashAfterCommit`; `Restart`; `Disconnect`, `Connect` |

**Membership** is who votes at the next heights. A step is the next certified entry: any entry that the
validators accept may come, because what the voters want is theirs to say.

| Code | Definition |
|---|---|
| `recovery-presence.ts` | `SeatOffline`, `SeatOnline` |
| `recovery-membership.ts` | `RecoveryAuthorize`, `RecoveryAmend`, `RecoveryActivate`, `RecoveryVoid`, with `affected`, `enoughRemain`, `transferInTheWay` |
| `transfer-membership.ts` | `SignConsent`, `TransferAuthorize`, `TransferCancel`, `TransferActivate`, with `ownerConsents`, `returnConsents`, `reserved`, `returnRoot`, `movesBack` |
| `authority.ts`, the dispatch of `log.ts` | `control`, `Extend`, `barrier`, `barrierByEpoch`, `Certify` |

**TurnTimeout** has the certified timers (`advanceTimerAnchors`), the observers (`advance`, with restarts and
repairs as `Install`, `Restart`, `RestartEmpty`), and `ProposeTimeout`, `VoteTimeout`, `CertifyTimeout`. What
an entry does to the game is open: any set of timers may be pending after it.

**BaseGame** is a turn of the base game: `resume`, `pushPhase`, `finalize`, the robber, discards, trades,
development cards and the timeouts of every phase are operators and actions of the same name, one action
per command of `validate`. `hands` are the real hands; `bounds` is what the log knows about them
(`gainKnown`, `loseHidden`, `revealExact`, ...).

**PeerLink** is both ends of one connection. An end's record holds the `PeerLink` and the
`RTCPeerConnection` under it; `startNegotiate` / `finishNegotiate`, `startSignal` / `finishRemote` /
`finishAnswer` are one queued job split where the code awaits the browser. `receiveHello`,
`receiveControl`, `receiveData` and `ping` are the code's; `Trouble` counts what goes wrong (`Network`,
`LoseSignal`, `SendFails`, `Vanish`, `DeadlinePasses`, `ChannelClosed`).

**RoomCore** has the decisions of `room-core.ts` as functions of a record: `open`, `join`, `signal`,
`disconnect`, `reject`, `announce`, `sweep`. As in the code it owns no socket: an operation yields the
next record, the sockets it closed (`closing`) and what each socket was told (`told`), given the
sockets whose sends throw. `announce` is the loop with the announcements nested in it: a failed send
removes a member, announces the smaller roster, and the outer loop stops. **CloudflareRoom** and
**SignalingServer** are the two hosts of the room, one action per handler; **MCSignaling** runs either.

| Code | Definition |
|---|---|
| `fetch`, `webSocketMessage`, `webSocketClose`/`Error`, `alarm` | `Fetch`, `FetchRefused`; `Message`, `Binary`; `CloseEvent`; `Alarm` |
| `#persistAndSchedule`, `snapshotSession` | `Persist`, `Snapshots`, `NextAlarm`; `Snapshot` |
| constructor, `#restore`, `restoreSession` | `Wake`, `restore`, `restoreSession` |
| `connection`, `message`, `close`, `pong` of the server | `Connect`, `Message`, `Binary`, `CloseEvent`, `Pong` |
| the callback of a send, the sweep timer, the heartbeat timer | `SendFailed`, `Sweep`, `Heartbeat` with `pingOrTerminate` |
| the platform and the clients | `Hibernate`, `Vanish`, `Leave`, `Tick` |

Definitions commented `Fault:` are wrong variants of the definition that follows them. No specification
uses them; they exist to show that each property fails when the code is wrong in that way.

## 3. What TLC checks

| Run | Instance | Checks |
|---|---|---|
| `agreement` | 3 voters, 1 Byzantine, 3 rounds, 2 values; beside it a table of 4 players and a bot, 9 entries | `AgreementInv`, `CommittedValueIsLocked`; `AuthorityIsValid`, `PendingStaysUsable`, `KeysServeOnce`, `ConsentIsOwned`, `ConsentIsFresh`, `MarkersAreCurrent`, `VotersSurvive` |
| `consensus_byzantine` | 2 honest voters running the reducers, a Byzantine third | `Implements` (every transition is a step of Agreement), `RoundIsEarned`, `HonestNeverHalts` |
| `consensus_restart` | 1 honest, 1 Byzantine, evidence and a control entry, with and without a certified exclusion | `AlwaysRestorable`, `RestartIsExact`, `HonestProposalIsJustified` |
| `consensus_evidence` | 4 voters, all keys misbehave, the voter's own included; its engine rejects a certified value | `EvidenceStopsVoter`, `HaltIsFinal` |
| `consensus_progress` | 4 voters, the first proposer never answers, 2 candidates, 2 rounds | `EveryoneDecides` |
| `consensus_refused` | the local policy changes between prevote and precommit | `AlwaysRestorable` is **violated** (section 5) |
| `safety_writer` | 2 processes, 2 heights, late transactions | `NoEquivocation`, `SentIsDurable`, `RevisionFixesRecord`, `JournalIsMonotone`, `TypeOK` |
| `signaling` | 3 keys for 2 places behind either host; the object sleeps at any moment, sends fail at once or later | `RoomIsConsistent`, `SocketsAreSessions`, `SleepIsExact`, `SilenceIsReleased`, `DeadPeerLeaves` |
| `log_sync` | 2 replicas of a larger membership, 2 heights, queues of 3, one trouble of any kind | `VerdictIsTrue`, `ImplementsCertifiedLog`, `HeldCommitIsApplied`, `EveryoneCatchesUp` |
| `log_repair_stuck` | the same with one height and two troubles, which may strike the only replica with the newest entry | `EveryoneCatchesUp` is **violated** (section 5) |
| `peer_link` | 2 ends, one trouble: a lost signal, a send that throws, a broken network, a vanished end, a deadline | `HonestEndsNeverAccuse`, `SettledEndsAgree`, `AttemptSettles` |
| `turn` | four games of 2 and 3 seats, 2 card kinds and at most 4 cards; beside them one timer, 3 honest voters and a Byzantine one | `HandsWithinBounds`, `OffersAreSound`, `TurnsEnd`; `TimedOutHadTheirTime`, `TimersRunOut` |

Three runs hold two parts each (`agreement`, `signaling`, `turn`): the initial state says which part moves, so
they cost the sum of the two and share no state.

Bounds, and why they are enough to be interesting.

- `MaxRound`: two rounds are the least in which a lock of one round meets a proposal of the next; three
  let a justification lie between a lock and the current round. Precommit timers stop at the bound.
- `Values`: two. Agreement is about two different values; values are interchangeable, hence the
  symmetry, except where one accuses a seat or is rejected.
- Membership of a height: with two and three voters a certificate needs everybody, with four it leaves one out
  (`consensus_evidence`, `consensus_progress`). The proofs of section 4 cover every size.
- `ByzantineBudget` bounds how many Byzantine votes, hints, proposals and pieces of evidence stand in the
  honest records at once; which of them, and in which order, is free. In `consensus_evidence` the
  pieces of evidence are free (`WithinMessages`).
- `Exclusions`, `Carried`: `consensus_restart` starts with and without an exclusion and a carried offender,
  `consensus_evidence` with and without an exclusion.
- `MaxHeight`, `MaxRevision`, `MaxLanding` bound the journal. Two heights let a write of an old height
  arrive in the next one; one late transaction of a dead process is enough to race its successor.
- `LogSync`: two heights are the least with a gap (a hint for the second entry reaches a replica without the
  first). `LinkCapacity` 3 is small enough to overflow. `RequestLimit` 3 and `Window` 2 let a budget be
  spent and refill. `Users` and `Deciders` say which replica submits and which one sees the votes; the other
  one lives on sync alone. `MaxTroubles` counts every fault, drop, crash and late message.
- Membership: `KeysInOrder` uses that fresh keys are interchangeable; `LateEntries` confines the second
  player's changes, and entries of other kinds, to the first entries. Nine entries are enough for a player to be
  marked, replaced, and to come back while the other one moves. `Window` 2 lets a consent expire, `MaxConsents` 1
  lets one lie around while another change happens.
- Games: each has the cards and development cards of the rules it is about. `Durations` {2}, `Tolerance` 1 and
  `Floor` 1 are the least for which "before its own deadline but not before the floor" differ.
- Peer link: one retry of the first offer. `MaxPending` 8 and `UnauthLimit` 4 are never reached by two honest
  ends, which `HonestEndsNeverAccuse` says; 8 is the least that the assumption `Limits` allows with one retry.
- Rooms: three connections are a full room with a third key at the door, a key that rejoins beside another
  member, or a session id that is handed out again after a hibernation. `MaxNow`, `JOIN_TIMEOUT` and
  `IDLE` are the shortest times in which a late joiner and an idle room are different deadlines
  (`CloudflareRoom`); the plain server needs two sockets and two moments.

Deadlock checking is off in all runs: a bounded height ends when it is decided, when everyone halted or
when the bounds are reached; a log, a game and an attempt to connect end. What must not stop is stated as
`EveryoneDecides`, `EveryoneCatchesUp`, `AttemptSettles`, `TimersRunOut`, `TurnsEnd`, `SilenceIsReleased` and
`DeadPeerLeaves`.

Fairness, and why the code justifies it.

- `Consensus.LiveSpec`. A voter with something left to do (`Pending`) does not stand still forever:
  `ReplicatedLog.pulse` runs every two seconds, sends again what the height has signed, offers the available
  input and asks for missing commits, so what a running voter signed reaches every other running voter in
  the end; timers are re-armed from the record. The delay of a timer doubles with its round
  (`scheduleConsensusTimeout`), so from some round on it is longer than everything else: in the last round of
  the model a timer fires only when nothing is pending, in the earlier ones it may fire too early. All
  running voters are honest in this run; a silent one stands for a crashed one.
- `LogSync.FairSpec`. Timers fire and queued messages are processed (`WF_vars(Work)`), a closed page is opened
  again, the transport reconnects, and the voters decide while one of them has the whole chain (that is
  `EveryoneDecides`). `OnlyServed` keeps context faults away from the last replica with the newest entry; without it the
  property is false, which is the second finding.
- `PeerLink.FairSpec`. An end that can go on does; which end and which of its steps is open. Signaling keeps the order of
  one route, as the room relays it.
- `TurnTimeout.Fairness`. From some moment on no honest voter restarts, and voters that run go on.
- Games. Their only fairness is what `TimersRunOut` gives: a phase other than the main one ends, by its timeout if
  nothing else, and a turn in its main phase ends.
- Hosts. `CloudflareRoom`: time passes, and the platform delivers a due alarm, waking the object for it;
  nothing is assumed of close events, and the object may go back to sleep at any moment. The clients are
  silent after the moment `Busy`, because a busy client may keep its room. `SignalingServer`: the heartbeat
  is an interval timer, and a socket that is being closed gets its close event, which is local
  (`terminate`, and the closing timeout of the WebSocket library).

## 4. What is proved

All for every value of the constants that the named assumptions allow. Each inductive invariant below was first
checked by TLC as an invariant of the instance of its run.

**`AgreementProofs`**, for every finite membership, every set of values, every set of rounds, and at most
`tolerated` Byzantine voters (`VotersAssumption`, `ValuesAssumption`):

- `QuorumIntersection`: two certificates share an honest signer. With *n* > 1 voters a quorum has at least
  *n*/2 + 1 of them, so two have at least two in common, one of them honest; with one voter none is Byzantine.
- `Invariance`: `Spec => []IndInv`. Agreement itself is not inductive. `IndInv` adds that votes are not ahead
  of the round (`VotesAreBehindRound`), what a lock and a precommit stand on (`LockIsCertified`,
  `PrecommitIsLocked`), why a voter may have changed its value (`SwitchIsJustified`), and the heart of it,
  `CertificateIsSafe`: a prevote certificate for *w* rules out every other value in all earlier rounds,
  because each quorum for it holds an honest voter that will never complete it.
- `Safety` (`AgreementInv`), `LockSafety` (`CommittedValueIsLocked`), `Monotone` (`VoterIsMonotone`).

**`ConsensusProofs`**, for every membership, all Byzantine voters, all values, rejected and accusing values, and
policies that refuse (`ConsensusAssumption`):

- `Invariance`: `Spec => []Inv`. A record in the middle of a transition of voter *s* is `Good(s, c)` when it is a
  record (`Records`), what it knows of the others is real (`Known`: votes and proposals that their records
  hold, certificates that exist), its own votes, proposals and timers agree with its round and step
  (`Placed`), and compared with the record that the transition started from it did what Agreement allows
  one step to do (`Moves`). Every helper of the reducers keeps `Good`; so does the loop of `maybeCommit`
  (a least round at which it would fail leads to a contradiction), and so does what the other voters do meanwhile
  (`Stays`).
- `Implementation` (`Implements`): an installed record is then one `Step` of Agreement, under the
  mapping `rounds`, `prevotes`, `precommits`, `lockRounds`, `lockValues`, `decisions`; an active Byzantine voter maps to a stutter.
- `ReplicasAgree`, `DecisionsAgree`: together with `AgreementProofs`, two honest voters that run the code
  never decide different entries.
- `RoundsAreEarned` (`RoundIsEarned`), when all honest voters run and at most one voter is Byzantine: `Moves` carries the reason
  why a voter may stand in its round.
- `StopsForGood` (`HaltIsFinal`), for every active voter, honest or not: no reducer changes the votes or
  the decision of a record with a terminal halt.

**`ConsensusProofs`**, second half, about the records, for every active voter, honest or not:

- `RecordsAreSound`: `Spec => []SoundInv`. `AlwaysRestorable` is not inductive by itself: what restoring demands of one field
  depends on what the reducers did to others. `Intact` states those relations on top of `Good`: the lock and the
  valid value have their proposals and prevote certificates, and the lock is the newest value the voter
  precommitted (`Locks`); a voter in its precommit step has cast both votes (`VotesStand`); a voting timer has its
  quorum (`TimersRestore`); hints are about later rounds, and a proposal hint is its proposer's (`HintsStand`); a
  voter keeps one own proposal of a round and of another seat at most the two that convict it (`ListsStand`);
  proposals and hints of proposals make an input known (`InputStands`); an accusation under way is the
  proven one (`HaltStands`). Every helper keeps it, since a reducer calls `maybeCommit` and `drive` on a record
  that is half changed.
- `RestartsAlways` (`AlwaysRestorable`) needs two hypotheses. `Refusable = {}`: the first finding shows what else happens.
  `Rejects = {}`: when an engine declines an entry that more than the tolerated number of voters certified,
  `commitAt` (`consensus.ts:630-677`) halts a voter that may already have decided, and `restoreConsensusState`
  (`1003-1011`) refuses that record. That voter had stopped for good anyway.
- `ProposalsAreJustified` (`HonestProposalIsJustified`), when all honest voters run.
- `EvidenceStops` (`EvidenceStopsVoter`), for every active voter, when the log excludes no more voters than the
  membership tolerates (`FewExcluded`: an entry that excludes one is valid only while nobody is excluded and
  another voter exists). The invariant is `JudgedInv`.
- `EvidenceIsTrue`, without hypothesis: whom a voter holds an equivocation against is Byzantine. A vote that
  contradicts a recorded one is easy. The hard part is a second proposal: a recorded proposal and a hint may come
  from the proposer or from its own record, over any number of rounds and restarts. `ToldInv` follows each of
  them to a proposal that stands in the record of its (honest) proposer, which holds one of a round.
- `RestartsAreExact` (`RestartIsExact`), when at most one voter is Byzantine (`FewByzantine`) and the log excluded
  nobody else (`FairlyExcluded`: an exclusion carries objective evidence, and `EvidenceIsTrue` says whom that can be
  about). What `restored` looks at then accuses one seat at most, and never its own.
- `HonestStayUp` (`HonestNeverHalts`), when moreover all honest voters run and none rejects a certified entry
  (`Orderly`). A reducer stops a voter for evidence, for a threshold, for an entry its engine rejects, or for two
  certified values. The first three are excluded as above; each reducer is shown to leave the voter running or two
  certificates that contradict each other (`Upright`), and `ReplicasAgree`, a theorem about the whole run, says
  that there are none (`Certified`), before the step and after it.

**`SafetyWriterProofs`**, for any number of processes, slots, ballots, heights and late transactions:

- `IndInv` says that the votes in a controller's memory are stored, and the whole record is while its
  revision is in force (`MemoryIsStored`); that what is about to be written extends memory and what is
  about to be sent is in it (`WorkIsBacked`); that a late transaction which still wins its compare is
  harmless (`LateWriteIsSafe`); and `SentIsDurable`.
- From it follow `Durability`, `KeySafety` (`NoEquivocation`), `RevisionSafety`, `JournalSafety`
  (`JournalIsMonotone`) and `TypeCorrect`.

**`LogSyncProofs`**, for any number of replicas, heights, troubles, and any capacity and budgets
(`LogSyncAssumption`):

- `Invariance`: a replica has a cut of the chain, its answers to its user agree with the chain, and it is halted
  or holds a commit only when a certified entry waits for it; no message speaks of more than the chain
  has. Every helper keeps the record it works on so (`Fits`), the batch of a sync answer too (again by
  a least counterexample).
- `TrueVerdicts` (`VerdictIsTrue`), `HeldIsApplied` (`HeldCommitIsApplied`), and `Implementation`
  (`ImplementsCertifiedLog`): every step certifies at most one entry and lets at most one replica learn
  certified ones.

**`MembershipProofs`**, for any table of players and bots, any number of entries and consents
(`MembersAssumption`):

- `IndInv` adds what makes the seven properties inductive: keys reserved by a pending change have never
  served, a pending takeover or transfer still fits the controllers it was authorized over, nothing it
  depends on changed since its barrier, and epochs and roots only grow.
- All seven properties of the run: `ValidAuthority`, `UsablePending`, `SingleService`, `FreshConsent`,
  `CurrentMarkers`, `EnoughVoters`, and `OwnedConsent`, for which the latest takeover of a seat must be shown to remember
  its last player.

**`TurnProofs`**, the timers, for any voters, keys, durations and tolerances (`VotersAssumption`, `TimesAssumption`):
an observer is never older than the anchor it observes (`ObservedLate`), nor is an honest vote earlier than its own
observation allows (`VotedLate`); a certified timeout has an honest signer, hence `NobodyIsRushed`
(`TimedOutHadTheirTime`), and `TypeCorrect`.

**`TurnProofs`**, the game, for any seats, kinds of cards, boards, costs and first hands (`ConfigsAssumption`):

- What bounds are. Every total between the sums of two functions is the sum of a function between them (`Between`), so
  one round of `normalizeBounds` makes every least and greatest count that of a possible hand
  (`RoundIsTight`, `Normalized`: the second round of the code finds nothing to change, so its error
  `bounds-did-not-converge` is never reported), and `canAfford` asks just whether
  a possible hand covers the price (`AffordIsPossible`). Sums over finite sets are reasoned about through a
  minimal counterexample, for want of induction.
- Each way to gain, lose or open cards keeps the true hand possible: `GainKnownFollows`, `LoseKnownFollows`,
  `HiddenFollows`, `RevealFollows`, `ExactIsSound`.
- `GameInv`: the types; a stack of one phase, or of two when a development card opened one, whose victims and
  payers are other seats than the active one (`GoodTurn`); hands within tight bounds, and all cards
  accounted for (`GoodHands`); what `OffersAreSound` says of offers, and that a proposer has one (`GoodOffers`).
  Every command and every automatic step keeps it (`CommandsKeep`, `AutomaticKeeps`). The hard steps are those
  of two hands: a hidden steal, a trade, and a monopoly, whose counts are
  opened one seat after another.
- Hence `HandsAreEnclosed` (`HandsWithinBounds`) and `OffersStaySound` (`OffersAreSound`).

**`RoomProofs`**, for any keys, connections, places, deadlines, and any choice of sends that fail
(`RoomAssumption`; the connections are numbered from one, as they are accepted):

- `Sound`: the members are exactly the sessions that joined, each with its own key and socket, and no more than the
  places. Every operation on a sound core (a sweep too, `Sweeps`) has an `Outcome`: the core stays sound, sessions only go, their
  sockets are being closed, and either everybody left was told (`AllTold`) or the roster is unchanged
  (`SameRoster`). `Announced` is the hard one: `announce` calls itself through `reject` and `disconnect` whenever a
  send fails, each time with a member less (`Passed`), so it comes to a loop that reaches everybody.
- `RoomInv`, behind the plain server, adds that a connection has the session of its number while it is up, and none
  after its close event.
- `ObjectInv`, behind the Durable Object, is about what is attached to the sockets. It could be restored without a
  conflict (`Restorable`: ids and keys differ, there are places for all that joined), and it fits the core in memory
  (`Fits`). The two are not equal: `fetch` sweeps before it refuses a connection, or before its challenge fails,
  and then saves nothing, so an attachment may outlive its session. Such a session is late or its room idle
  (`Expired`), its socket is ending, and no live session can get its id. Every other operation ends in
  `#persistAndSchedule` and is handled once, for all of them (`Ready`, `PersistKeeps`).
- `Restored`: the loop of `#restore` meets no conflict and rebuilds every attached session (again by a least
  counterexample, over the turns of the loop), and `SleepFromObject`: the sessions it brings back and memory had lost
  are those that the next sweep ends.
- Hence, of `HostSpec`, behind either host: `RosterIsTold` (`RoomIsConsistent`), `SessionsAreOwned`
  (`SocketsAreSessions`) and `SleepsExactly` (`SleepIsExact`).

**`PeerLinkProofs`**, for any number of retries of the first offer, any number of troubles, and limits on
descriptions and on early messages that are at least as generous as the code's (`TwoEnds`, `Limits`):

- `PeerLinkInvariant`: `Spec => []Inv`. What an end accuses the other one of depends on all that is on its
  way to it, so `Inv` is mostly about that.
  - The handshake. `Flags` relates what an end has said and heard, and `Channel` the messages on their way to
    it with both ends: its nonce is still to come exactly when the peer's `HELLO_INIT` is first on the channel, a
    `HELLO` comes next, and anything else only after that one, from an authenticated peer. A ping is unanswered
    only when the peer is gone, so `missed` never grows while it lives.
  - The descriptions. The jobs of an end and the signals towards it hold the descriptions in the order of their
    revisions, with only the first offer repeated (`Sorted`); what they are follows from what the end
    waits for (`Known`): one answer at the most, and two further offers besides the one under way. `QueueIsShort`
    concludes that `OfferRetries` + 6 jobs are the most there can be. With the code's four retries that is ten, and
    the code refuses the seventeenth description; `Limits` asks for no more than this.
  - Both ends (`Pair`). An offer still to be applied is the one its sender waits for, unless the impolite end is going to
    ignore it (`Outstanding`); an answer on its way answers the offer its receiver waits for, and its sender
    has that session in force (`Answered`, `Answering`); while nothing is lost, an end that waits will be answered, or is
    the polite one and gives way (`Served`); with no answer on its way the ends have the same session in
    force (`Agree`).
- Every step of `PeerLink` keeps it. The queued jobs are the hard steps: a lemma for each step of a job says what it
  does to the descriptions (`BothOffer`, `BothAccept`, `BothAnswer`, ...), one for each reducer of the
  handshake what it does to the channels (`TalkHello`, `TalkHeard`, ...), and `LivesOn` puts the two together.
- `HonestEnds` (`HonestEndsNeverAccuse`) and `SettledEnds` (`SettledEndsAgree`) follow. The second one: when nothing is
  left to apply, an end that still waits would have to be the polite one and its peer waiting too, which
  would then have to be the polite one.

Every safety invariant and every action property of the runs is a theorem, and so are both refinements. Only
model-checked: liveness (fairness and `ENABLED` are out of the prover's reach: `EveryoneDecides`,
`EveryoneCatchesUp`, `AttemptSettles`, `TimersRunOut`, `TurnsEnd`, `SilenceIsReleased`, `DeadPeerLeaves`).

## 5. Findings

`consensus_refused`. `drive` sets `state.locked` (`protocol/consensus.ts:710`) before it asks
`signLocalVote` for the precommit, and `signLocalVote` signs nil when `admitLocalValue` declines. For a
recovery proposal the log's policy depends on the clock and on the connected peers, so a value can be
admitted for the prevote and declined for the precommit. The record is then persisted with a lock that
has no precommit, which `restoreConsensusState` refuses (`Stored lock has no matching local precommit`,
line 932), at the next pulse and at every restart. Safety is not touched: Agreement allows a lock without
a precommit, and the proofs cover it. The other runs set `Refusable = {}`.

`log_repair_stuck`. `receiveDuringRepair` (`protocol/replicated-log.ts:1376`) drops everything but the answer to a
snapshot request, and a pulse only asks for snapshots while a repair lasts. A replica that commits an
entry, loses the link on which it announces it, and enters a repair waits for a snapshot that reaches its own
head, which nobody has, and answers nobody's sync request. When the quorum needs it nobody proceeds until
its page is reloaded, while `docs/06-protocol-event-log.md:114` says that messages in flight during a drop
are lost and every protocol step must be retry-safe.

## 6. Abstractions to know about

- Cryptography: signatures cannot be forged, hashes are injective, encodings are faithful.
- A voter with one recorded equivocation and one accepted accusation of a different voter is beyond the
  threshold, but the code notices it only with the next vote or proposal, at the next pulse or at a
  restart. `EvidenceStopsVoter` says exactly that.
- `Restorable` states the structural rules of `restoreConsensusState`. Signature checks hold by
  construction. Certificates are not stored in the model: the signer set behind a lock, a valid value or
  a decision is read from the recorded votes, and the search for unrecorded own votes inside stored
  certificates at restore is left out (it is modelled where certificates arrive).
- `SafetyWriter` leaves out the certified entries (only the height counts), the derived-state repair, and
  the reducers' choice of votes.
- `LogSync`: a decision of the voters is one step; which replicas see it is `Deciders`. Proof material that
  verified games exchange, recovery membership and retirement are left out.
- `Membership`: any valid entry may be certified, whatever the policy of the voters (the policy 'never', which
  refuses all takeovers, is one more voter's wish). A signature over the exact parent is part of the step that
  uses it. Consents are built by honest clients: about the current head, valid for `Window` heights. Left
  out: encryption keys, devices and routes, carried crypto operations, and the limits on the length of histories. Replay
  accepts amendments; whether an honest voter admits one is a matter of its policy (see A5 in
  `docs/verification/stage10/takeover-policy-review-response.md:87`), and the model is the replay.
- `TurnTimeout`: any set of timers may be pending after an entry. `Private` timers are those of a discard, which
  only its owner's client answers.
- `BaseGame`: the board is abstract (a hex yields what the configuration says), building only costs. The seats are not
  honest: a command is anything `validate` accepts, and hidden payments are covered by the proofs that
  `planHandTransition` demands.
- `PeerLink`: the fingerprint of a connection never changes, time is abstract (a deadline may pass once something has
  gone wrong), backpressure and framing are left out.
- Rooms. One room, since rooms share only the counter of session ids. A frame is a join, a signal or the end of
  its session; size, rate, encoding and signature decide which. Sends fail per operation and socket.
  What a sweep announces on its way reaches only sockets that the same sweep closes. The clock does not go
  back, and storage writes of the object succeed.
- `CloudflareRoom` lists a socket in `getWebSockets` until its close event has been handled. This matters:
  restored sessions set the counter of ids to their maximum (`room-core.ts:229`), so an id may be handed out
  again after a hibernation, and the attachment of the old socket must be gone before it ends the new
  session. `SocketsAreSessions` shows that it is, under this reading of the platform.
- One height at a time in `Consensus`. What a height inherits is in `excluded` and `Carried`.

## 7. Not modelled, and the plan

Nothing that the prover can reach is left unproved among the properties of the runs; proofs of progress would need
one that handles fairness.

Worth modelling later: the writer lease and the IndexedDB journal as a refinement of the journal of
`SafetyWriter`; the succession of attempts in the mesh transport and the framer with its 64 remembered ids;
the order of contributions to verified randomness; the lobby and the ceremony; setup, awards and
expansions of the engine; presence timing and readiness before a takeover.

Not planned: cryptography and codec (algebra and bytes, out of TLC's reach), vault and snapshot stores
(input and output), the session layer (adapters), bots, maps, renderer and user interface (no state anyone else
depends on).
