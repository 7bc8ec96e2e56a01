------------------------------ MODULE LogSync ------------------------------
(***************************************************************************)
(* How a replica of replicated-log.ts keeps up with the certified log: the *)
(* two-second pulse, heartbeats, commit hints, sync requests with their    *)
(* window, the budget a peer may spend on expensive requests, the repair   *)
(* of a controller whose context changed under it (derivedRepair), the     *)
(* repair of a certified entry that failed local validation, and the       *)
(* promise that submit() gave for a command.                               *)
(*                                                                         *)
(* Agreement of the voters is a separate module: here one `chain` is       *)
(* certified, and a certificate for height h is a certificate for          *)
(* chain[h].  A queue holds at most LinkCapacity messages and drops the    *)
(* rest; a connection that ends loses what was in flight.                  *)
(***************************************************************************)
EXTENDS Naturals, Sequences, FiniteSets, SequencesExt

CONSTANTS
  Replicas,     \* the replicas that are modelled; the quorum may have more
  Other,        \* a value that is the command of none of them
  MaxHeight,    \* bound: values certified
  LinkCapacity, \* bound: MAX_QUEUED_MESSAGES_PER_PEER
  Window,       \* EXPENSIVE_REQUEST_WINDOW_MS, in pulses
  RequestLimit, \* EXPENSIVE_REQUESTS_PER_WINDOW
  MaxTroubles,  \* bound: troubles of any kind: a connection or a replica that
                \* ends, a context fault, a failed validation, a failed journal
                \* read, two seconds that a queued message lives through
  Users,        \* bound: the replicas whose user submits commands
  Deciders,     \* bound: the replicas that see a decision of the voters themselves
  OnlyServed    \* bound: TRUE if a context fault strikes a replica only when
                \* another running replica has its head

ASSUME LogSyncAssumption ==
  /\ Other \notin Replicas
  /\ MaxHeight \in Nat \ {0} /\ Window \in Nat \ {0} /\ RequestLimit \in Nat \ {0}
  /\ LinkCapacity \in Nat \ {0}
  /\ MaxTroubles \in Nat /\ Users \subseteq Replicas /\ Deciders \subseteq Replicas
  /\ OnlyServed \in BOOLEAN

VARIABLES
  chain,    \* the values certified so far
  log,      \* the entries in each replica's journal
  retained, \* journal: voting halted on a certificate that failed validation
  mode,     \* "down", "running" or "repairing"
  held,     \* the next commit is held during a repair (heldCommits)
  asked,    \* a snapshot was requested less than two seconds ago
  sync,     \* lastSyncRequest: height and age in pulses
  budget,   \* expensiveByPeer: age and keys of the current window
  pulseDue, \* the pulse timer has fired
  verdict,  \* what submit() answered for the command bound to each height
  link,     \* messages queued from one replica to another
  up,       \* pairs of replicas that are connected
  troubles  \* how many there were

vars == <<chain, log, retained, mode, held, asked, sync, budget, pulseDue,
          verdict, link, up, troubles>>

Values  == Replicas \cup {Other}
Heights == 1..MaxHeight
Pairs   == {p \in SUBSET Replicas : Cardinality(p) = 2}
Links   == {l \in Replicas \X Replicas : l[1] # l[2]}
NoSync  == [from |-> 0, age |-> Window]
NoWork  == [age |-> Window, seen |-> {}]

Msg(t, at) == [t |-> t, at |-> at]

Init ==
  /\ chain = <<>>
  /\ log = [r \in Replicas |-> <<>>]
  /\ retained = [r \in Replicas |-> FALSE]
  /\ mode = [r \in Replicas |-> "running"]
  /\ held = [r \in Replicas |-> FALSE]
  /\ asked = [r \in Replicas |-> FALSE]
  /\ sync = [r \in Replicas |-> NoSync]
  /\ budget = [l \in Links |-> NoWork]
  /\ pulseDue = [r \in Replicas |-> FALSE]
  /\ verdict = [r \in Replicas |-> [h \in Heights |-> "none"]]
  /\ link = [l \in Links |-> <<>>]
  /\ up = Pairs
  /\ troubles = 0

-----------------------------------------------------------------------------
(* One operation of the serial queue works on the replica's own state, `me`, *)
(* and collects in me.out what it broadcasts, in order.                      *)

Peers(r) == {q \in Replicas : {r, q} \in up}

\* What an operation spends of a peer's budget is in me.work.
MeWith(r, work) ==
  [log |-> log[r], retained |-> retained[r], mode |-> mode[r], held |-> held[r],
   asked |-> asked[r], sync |-> sync[r], verdict |-> verdict[r], out |-> <<>>, work |-> work]
Me(r) == MeWith(r, NoWork)

Say(me, m) == [me EXCEPT !.out = Append(@, m)]

\* requestSync: the same height is not requested again within the window, and
\* nothing is remembered when no peer is connected.
requestSync(r, me) ==
  LET from == Len(me.log) + 1
  IN  IF \/ Peers(r) = {}
         \/ me.sync.from = from /\ me.sync.age < Window
      THEN me
      ELSE [Say(me, Msg("SYNC_REQ", from)) EXCEPT !.sync = [from |-> from, age |-> 0]]

\* admitExpensiveRequest: a window per peer, a key once per window, a limited
\* number of keys.
Current(work) == IF work.age >= Window THEN [age |-> 0, seen |-> {}] ELSE work
Admits(work, key) ==
  key \notin Current(work).seen /\ Cardinality(Current(work).seen) < RequestLimit
Admitted(work, key) ==
  IF Admits(work, key) THEN [Current(work) EXCEPT !.seen = @ \cup {key}] ELSE Current(work)

\* enterDerivedRepair: voting stops; the anchor is the certified head.
enterDerivedRepair(me) ==
  [Say(me, Msg("SNAPSHOT_REQ", Len(me.log)))
     EXCEPT !.mode = "repairing", !.held = FALSE, !.asked = TRUE]

\* Fault: a pending command is settled as if its own value committed.
settleAll(r, me, v) ==
  [h \in Heights |-> IF me.verdict[h] = "pending" THEN "ok" ELSE me.verdict[h]]

\* settlePending: every pending command was bound to the head that now moves.
settlePending(r, me, v) ==
  [h \in Heights |->
     IF me.verdict[h] # "pending" THEN me.verdict[h]
     ELSE IF v = r THEN "ok" ELSE "renewed"]

\* persistCommit: journal first, then a new controller, then the broadcast.
persistCommit(r, me, v) ==
  LET h == Len(me.log) + 1
  IN  Say([me EXCEPT !.log = Append(@, v),
                     !.retained = FALSE,
                     !.sync = IF h >= @.from THEN NoSync ELSE @,
                     !.verdict = settlePending(r, me, v)],
          Msg("COMMIT", h))

\* dispatch({ kind: 'commit' }) at the next height.  `fault` is what the
\* controller finds: "none", "context" (its context changed under it) or
\* "validation" (the certified entry does not validate here).
dispatchCommit(r, me, v, fault) ==
  CASE fault = "context"    -> [enterDerivedRepair(me) EXCEPT !.held = TRUE]
    [] fault = "validation" ->
         IF me.retained THEN me
         ELSE Say([me EXCEPT !.retained = TRUE], Msg("SNAPSHOT_REQ", Len(me.log)))
    [] OTHER                -> IF me.retained THEN me ELSE persistCommit(r, me, v)

\* Fault: a future entry is treated as the next one.
acceptAhead(r, me, h, fault) ==
  IF me.mode # "running" \/ h <= Len(me.log) THEN me ELSE dispatchCommit(r, me, chain[h], fault)

\* acceptCertified: an old entry of the one chain has no effect; a future one
\* only makes the replica ask for what it misses.
acceptCertified(r, me, h, fault) ==
  CASE me.mode # "running" \/ h <= Len(me.log) -> me
    [] me.mode = "running" /\ h = Len(me.log) + 1 -> dispatchCommit(r, me, chain[h], fault)
    [] me.mode = "running" /\ h > Len(me.log) + 1 ->
         LET spent == [me EXCEPT !.work = Admitted(@, <<"future-commit", h>>)]
         IN  IF Admits(me.work, <<"future-commit", h>>) THEN requestSync(r, spent) ELSE spent

\* Fault: held commits are forgotten.
repairForgetful(r, me) ==
  requestSync(r, [me EXCEPT !.mode = "running", !.held = FALSE, !.asked = FALSE])

\* repairNow with a snapshot equal to the replay of the journal.
repairDerived(r, me) ==
  LET back   == [me EXCEPT !.mode = "running", !.held = FALSE, !.asked = FALSE]
      halted == IF back.retained THEN Say(back, Msg("SNAPSHOT_REQ", Len(back.log))) ELSE back
      caught == IF me.held THEN acceptCertified(r, halted, Len(me.log) + 1, "none") ELSE halted
  IN  requestSync(r, caught)
repairHalted(r, me) == persistCommit(r, [me EXCEPT !.retained = FALSE], chain[Len(me.log) + 1])

-----------------------------------------------------------------------------
(* Installing the outcome of an operation. *)

Queued(q, ms) == SubSeq(q \o ms, 1, Min({LinkCapacity, Len(q \o ms)}))
Broadcast(net, r, ms) ==
  [l \in Links |-> IF l[1] = r /\ l[2] \in Peers(r) THEN Queued(net[l], ms) ELSE net[l]]

Install(r, me, net) ==
  /\ log' = [log EXCEPT ![r] = me.log]
  /\ retained' = [retained EXCEPT ![r] = me.retained]
  /\ mode' = [mode EXCEPT ![r] = me.mode]
  /\ held' = [held EXCEPT ![r] = me.held]
  /\ asked' = [asked EXCEPT ![r] = me.asked]
  /\ sync' = [sync EXCEPT ![r] = me.sync]
  /\ verdict' = [verdict EXCEPT ![r] = me.verdict]
  /\ link' = Broadcast(net, r, me.out)

\* The faults an operation may meet, within the bounds.  A replica in repair
\* serves nothing: replicas that are all in repair wait for each other, so one
\* remains.  A repair also waits for a snapshot of its own head: for ever, if no
\* other replica has that head and none can get it (OnlyServed = FALSE).
Served(r) == \E q \in Replicas \ {r} :
               mode[q] = "running" /\ (OnlyServed => Len(log[q]) >= Len(log[r]))
Faults(r, kinds) ==
  {"none"} \cup {k \in kinds : troubles < MaxTroubles /\ (k = "context" => Served(r))}
Trouble == troubles < MaxTroubles /\ troubles' = troubles + 1
Count(fault) == troubles' = IF fault = "none" THEN troubles ELSE troubles + 1

-----------------------------------------------------------------------------
(* What the network delivers. *)

Arrived(from, r) == Head(link[<<from, r>>])
Taken(from, r) == [link EXCEPT ![<<from, r>>] = Tail(@)]
Arrives(from, r, t, m) ==
  /\ mode[r] = m
  /\ link[<<from, r>>] # <<>>
  /\ Arrived(from, r).t = t
MeFor(r, from) == MeWith(r, budget[<<from, r>>])
Handled(r, from, me) ==
  /\ Install(r, me, Taken(from, r))
  /\ budget' = [budget EXCEPT ![<<from, r>>] = me.work]
  /\ UNCHANGED <<pulseDue, up>>
Answered(r, from, key, answer) ==
  LET work == budget[<<from, r>>]
  IN  /\ budget' = [budget EXCEPT ![<<from, r>>] = Admitted(work, key)]
      /\ link' = [Taken(from, r) EXCEPT
                    ![<<r, from>>] = IF Admits(work, key) THEN Queued(@, answer) ELSE @]
      /\ UNCHANGED <<chain, log, retained, mode, held, asked, sync, pulseDue, verdict,
                     up, troubles>>

ReceiveCommit(from, r) ==
  /\ Arrives(from, r, "COMMIT", "running")
  /\ \E fault \in Faults(r, {"context", "validation"}) :
       LET h == Arrived(from, r).at
       IN  /\ fault # "none" => h = Len(log[r]) + 1
           /\ Handled(r, from, acceptCertified(r, MeFor(r, from), h, fault))
           /\ Count(fault)
  /\ UNCHANGED chain

\* acceptCertifiedBatch: entry by entry, the fault is met at the first entry that
\* is new here.
acceptBatch(r, first, last, me, fault) ==
  LET new == Len(log[r]) + 1
      after[h \in (first - 1)..last] ==
        IF h < first THEN me
        ELSE acceptCertified(r, after[h - 1], h, IF h = new THEN fault ELSE "none")
  IN  after[last]

ReceiveSyncRes(from, r) ==
  /\ Arrives(from, r, "SYNC_RES", "running")
  /\ \E fault \in Faults(r, {"context", "validation"}) :
       LET m == Arrived(from, r)
       IN  /\ fault # "none" => Len(log[r]) + 1 \in m.at..m.to
           /\ Handled(r, from, acceptBatch(r, m.at, m.to, MeFor(r, from), fault))
           /\ Count(fault)
  /\ UNCHANGED chain

\* sendCertifiedBatch: everything from the height asked for, if it is not
\* beyond the next one.
ReceiveSyncReq(from, r) ==
  /\ Arrives(from, r, "SYNC_REQ", "running")
  /\ LET at == Arrived(from, r).at
     IN  Answered(r, from, <<"sync", at>>,
           IF at > Len(log[r]) + 1 THEN <<>>
           ELSE <<[t |-> "SYNC_RES", at |-> at, to |-> Len(log[r])]>>)

ReceiveSnapshotReq(from, r) ==
  /\ Arrives(from, r, "SNAPSHOT_REQ", "running")
  /\ LET at == Arrived(from, r).at
     IN  Answered(r, from, <<"snapshot", at>>,
           IF at > Len(log[r]) THEN <<>> ELSE <<Msg("SNAPSHOT_RES", at)>>)

\* Outside a repair a snapshot matters only to a halt on a failed validation.
\* A failed journal read leaves the halt in place, the work spent.
ReceiveSnapshotRes(from, r) ==
  /\ Arrives(from, r, "SNAPSHOT_RES", "running")
  /\ \E fault \in Faults(r, {"read"}) :
       LET at == Arrived(from, r).at
           key == <<"snapshot-response", at>>
           me == MeFor(r, from)
           spent == [me EXCEPT !.work = Admitted(@, key)]
           wanted == at = Len(log[r]) /\ retained[r]
       IN  /\ fault # "none" => wanted /\ Admits(me.work, key)
           /\ Handled(r, from,
                IF ~wanted THEN me
                ELSE IF Admits(me.work, key) /\ fault = "none" THEN repairHalted(r, spent)
                ELSE spent)
           /\ Count(fault)
  /\ UNCHANGED chain

ReceiveHeartbeat(from, r) ==
  /\ Arrives(from, r, "HEARTBEAT", "running")
  /\ Handled(r, from, IF Arrived(from, r).at > Len(log[r])
                      THEN requestSync(r, MeFor(r, from)) ELSE MeFor(r, from))
  /\ UNCHANGED <<chain, troubles>>

\* receiveDuringRepair, a snapshot of the anchor.
ReceiveRepairSnapshot(from, r) ==
  /\ Arrives(from, r, "SNAPSHOT_RES", "repairing")
  /\ \E fault \in Faults(r, {"read"}) :
       LET at == Arrived(from, r).at
           key == <<"snapshot-response", at>>
           me == MeFor(r, from)
           spent == [me EXCEPT !.work = Admitted(@, key)]
       IN  /\ fault # "none" => at = Len(log[r]) /\ Admits(me.work, key)
           /\ Handled(r, from,
                IF at # Len(log[r]) THEN me
                ELSE IF Admits(me.work, key) /\ fault = "none" THEN repairDerived(r, spent)
                ELSE spent)
           /\ Count(fault)
  /\ UNCHANGED chain

\* receiveDuringRepair, anything else: only the commit at anchor + 1 is held.
ReceiveDuringRepair(from, r) ==
  /\ \E t \in {"COMMIT", "HEARTBEAT", "SYNC_REQ", "SYNC_RES", "SNAPSHOT_REQ"} :
       Arrives(from, r, t, "repairing")
  /\ LET m == Arrived(from, r)
     IN  Handled(r, from, [MeFor(r, from) EXCEPT
                             !.held = @ \/ (m.t = "COMMIT" /\ m.at = Len(log[r]) + 1)])
  /\ UNCHANGED <<chain, troubles>>

Receive(from, r) ==
  \/ ReceiveCommit(from, r) \/ ReceiveSyncRes(from, r) \/ ReceiveSyncReq(from, r)
  \/ ReceiveSnapshotReq(from, r) \/ ReceiveSnapshotRes(from, r) \/ ReceiveHeartbeat(from, r)
  \/ ReceiveRepairSnapshot(from, r) \/ ReceiveDuringRepair(from, r)

-----------------------------------------------------------------------------
(* What the replica, its user and its timer do. *)

Untouched == UNCHANGED <<budget, up>>

\* The quorum decides at this replica's height: a value the chain already has
\* there, or a new one.  A command can only be decided once it was submitted.
Decide(r) ==
  /\ r \in Deciders /\ mode[r] = "running" /\ Len(log[r]) < MaxHeight
  /\ \E v \in Values, fault \in Faults(r, {"validation"}) :
       LET h == Len(log[r]) + 1
       IN  /\ h <= Len(chain) => v = chain[h]
           /\ v # Other => verdict[v][h] # "none"
           /\ ~retained[r]
           /\ chain' = IF h <= Len(chain) THEN chain ELSE Append(chain, v)
           /\ Install(r, dispatchCommit(r, Me(r), v, fault), link)
           /\ Count(fault)
  /\ UNCHANGED pulseDue /\ Untouched

\* submit: refused during a repair or a halt; one command per height here.
Submit(r) ==
  LET h == Len(log[r]) + 1
  IN  /\ r \in Users /\ mode[r] = "running" /\ ~retained[r] /\ h <= MaxHeight
      /\ verdict[r][h] = "none"
      /\ verdict' = [verdict EXCEPT ![r][h] = "pending"]
      /\ UNCHANGED <<chain, log, retained, mode, held, asked, sync, budget, pulseDue, link,
                     up, troubles>>

\* Fault: a replica pulses only while something is wrong with it.
pulseWhenStuck(r, fault) ==
  CASE mode[r] = "repairing" ->
         IF asked[r] THEN Me(r)
         ELSE Say([Me(r) EXCEPT !.asked = TRUE], Msg("SNAPSHOT_REQ", Len(log[r])))
    [] mode[r] # "repairing" /\ fault = "context" -> enterDerivedRepair(Me(r))
    [] OTHER -> IF retained[r] THEN Say(Me(r), Msg("SNAPSHOT_REQ", Len(log[r]))) ELSE Me(r)

pulse(r, fault) ==
  LET beat   == Say(Me(r), Msg("HEARTBEAT", Len(log[r])))
      halted == IF retained[r] THEN Say(beat, Msg("SNAPSHOT_REQ", Len(log[r]))) ELSE beat
  IN  CASE mode[r] = "repairing" ->
             IF asked[r] THEN Me(r)
             ELSE Say([Me(r) EXCEPT !.asked = TRUE], Msg("SNAPSHOT_REQ", Len(log[r])))
        [] mode[r] # "repairing" /\ fault = "context" -> enterDerivedRepair(Me(r))
        [] OTHER -> requestSync(r, halted)

Pulse(r) ==
  /\ mode[r] # "down" /\ pulseDue[r]
  /\ \E fault \in Faults(r, {"context"}) :
       /\ fault # "none" => mode[r] = "running"
       /\ Install(r, pulse(r, fault), link)
       /\ Count(fault)
  /\ pulseDue' = [pulseDue EXCEPT ![r] = FALSE]
  /\ UNCHANGED chain /\ Untouched

\* A window that is over is as good as none.
Older(x, none) == IF x.age + 1 >= Window THEN none ELSE [x EXCEPT !.age = @ + 1]

\* Two seconds pass: every replica that is up has pulsed since the last time.
Tick ==
  /\ \A r \in Replicas : ~pulseDue[r]
  /\ \/ (\A l \in Links : link[l] = <<>>) /\ UNCHANGED troubles
     \/ Trouble
  /\ sync' = [r \in Replicas |-> Older(sync[r], NoSync)]
  /\ budget' = [l \in Links |-> Older(budget[l], NoWork)]
  /\ asked' = [r \in Replicas |-> FALSE]
  /\ pulseDue' = [r \in Replicas |-> mode[r] # "down"]
  /\ UNCHANGED <<chain, log, retained, mode, held, verdict, link, up>>

\* The end of a replica: the process ends, or dispose() after a fatal error.
\* Every pending command is answered "outcome unknown".
Ended(r, durable) ==
  /\ Trouble
  /\ mode' = [mode EXCEPT ![r] = "down"]
  /\ log' = [log EXCEPT ![r] = durable]
  /\ held' = [held EXCEPT ![r] = FALSE]
  /\ asked' = [asked EXCEPT ![r] = FALSE]
  /\ sync' = [sync EXCEPT ![r] = NoSync]
  /\ pulseDue' = [pulseDue EXCEPT ![r] = FALSE]
  /\ verdict' = [verdict EXCEPT ![r] =
                   [h \in Heights |-> IF @[h] = "pending" THEN "unknown" ELSE @[h]]]
  /\ budget' = [l \in Links |-> IF l[2] = r THEN NoWork ELSE budget[l]]
  /\ link' = [l \in Links |-> IF r \in {l[1], l[2]} THEN <<>> ELSE link[l]]
  /\ up' = {p \in up : r \notin p}

Crash(r) ==
  /\ mode[r] # "down"
  /\ Ended(r, log[r])
  /\ UNCHANGED <<chain, retained>>

\* ... between the journal's commit and the broadcast of COMMIT.
CrashAfterCommit(r) ==
  LET h == Len(log[r]) + 1
  IN  /\ r \in Deciders /\ mode[r] = "running" /\ ~retained[r] /\ h <= MaxHeight
      /\ \E v \in Values :
           /\ h <= Len(chain) => v = chain[h]
           /\ v # Other => verdict[v][h] # "none"
           /\ chain' = IF h <= Len(chain) THEN chain ELSE Append(chain, v)
           /\ Ended(r, Append(log[r], v))
      /\ UNCHANGED retained

\* restore: the journal is replayed; no peer is connected yet.
Restart(r) ==
  /\ mode[r] = "down"
  /\ mode' = [mode EXCEPT ![r] = "running"]
  /\ UNCHANGED <<chain, log, retained, held, asked, sync, budget, pulseDue, verdict, link,
                 up, troubles>>

Disconnect(p) ==
  /\ p \in up /\ Trouble
  /\ up' = up \ {p}
  /\ link' = [l \in Links |-> IF {l[1], l[2]} = p THEN <<>> ELSE link[l]]
  /\ UNCHANGED <<chain, log, retained, mode, held, asked, sync, budget, pulseDue, verdict>>

\* onPeerChange: both ends pulse.
Connect(p) ==
  /\ p \notin up
  /\ \A r \in p : mode[r] # "down"
  /\ up' = up \cup {p}
  /\ pulseDue' = [r \in Replicas |-> pulseDue[r] \/ r \in p]
  /\ UNCHANGED <<chain, log, retained, mode, held, asked, sync, budget, verdict, link,
                 troubles>>

Next ==
  \/ \E l \in Links : Receive(l[1], l[2])
  \/ \E r \in Replicas : \/ Decide(r) \/ Submit(r) \/ Pulse(r) \/ Restart(r)
                         \/ Crash(r) \/ CrashAfterCommit(r)
  \/ \E p \in Pairs : Disconnect(p) \/ Connect(p)
  \/ Tick

Spec == Init /\ [][Next]_vars

\* Timers fire and what is queued is processed: two ticks are separated by the
\* pulses that are due and finitely many messages, so fairness of these steps
\* together gives each of them its turn.  A page that was closed is opened again
\* and the transport reconnects.
Work == \/ Tick
        \/ \E r \in Replicas : Pulse(r)
        \/ \E l \in Links : Receive(l[1], l[2])
Fairness ==
  /\ WF_vars(Work)
  /\ \A r \in Replicas : WF_vars(Restart(r))
  /\ \A p \in Pairs : WF_vars(Connect(p))
\* The voters decide while one of them has the whole chain (Consensus).
Decides == WF_vars(\E r \in Deciders : Len(log[r]) = Len(chain) /\ Decide(r))

FairSpec == Spec /\ Fairness /\ Decides

-----------------------------------------------------------------------------
Certified == INSTANCE CertifiedLog

\* replicated-log.ts implements the certified log: no gap, no entry lost by a
\* crash or a repair, no entry that was not certified.
ImplementsCertifiedLog == Certified!Spec

\* submit() "resolves on matching commitment": success and "renewed intent"
\* say what the certified log holds at the height the command was bound to, and
\* a promise that is still open belongs to a live replica and to its next
\* height: no commit, repair or end of the replica leaves one behind.
VerdictIsTrue ==
  \A r \in Replicas, h \in Heights :
    /\ verdict[r][h] = "ok" => h <= Len(chain) /\ chain[h] = r
    /\ verdict[r][h] = "renewed" => h <= Len(chain) /\ chain[h] # r
    /\ verdict[r][h] = "pending" => mode[r] # "down" /\ h = Len(log[r]) + 1

\* A commit that arrived during a repair is applied when the repair ends
\* (unless voting was halted on that very height).
HeldCommitIsApplied ==
  [][\A r \in Replicas :
       mode[r] = "repairing" /\ held[r] /\ mode'[r] = "running"
         => Len(log'[r]) > Len(log[r]) \/ retained'[r]]_vars

\* With finitely many troubles every replica ends up running, not halted, with
\* the whole certified log, and every command that submit() accepted is answered.
EveryoneCatchesUp ==
  <>[](\A r \in Replicas :
         /\ mode[r] = "running" /\ ~retained[r] /\ log[r] = chain
         /\ \A h \in Heights : verdict[r][h] # "pending")
=============================================================================
