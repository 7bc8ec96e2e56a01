------------------------ MODULE SafetyWriterProofs ------------------------
(***************************************************************************)
(* Proofs about SafetyWriter, for any number of processes, vote slots,     *)
(* ballots, heights and late transactions.                                 *)
(*                                                                         *)
(* The argument: a record changes only under its own height and revision,  *)
(* each of which only grows (Advance).  So a controller or a late          *)
(* transaction either works on exactly the stored record, or has lost its  *)
(* compare-and-swap for ever; and what was stored once stays stored.       *)
(***************************************************************************)
EXTENDS SafetyWriter, TLAPS

\* The journal did not change, or it moved past the height and revision that
\* were in force and kept every vote.
Advance ==
    \/ journal' = journal
    \/ /\ \/ journal'.height > journal.height
          \/ journal'.height = journal.height /\ journal'.revision > journal.revision
       /\ \A h \in Heights : h <= journal.height => Extends(journal.records[h], journal'.records[h])

LEMMA FreshIsRecord == Fresh \in Records
BY DEF Fresh, Records, Modes

LEMMA OffIsController == Off \in Controllers /\ Stopped \in Controllers
BY FreshIsRecord, WriterAssumption
   DEF Off, Stopped, Controller, Controllers, Statuses, Heights

\* Every record a controller is built from has the right shape.
LEMMA ControllerType ==
    ASSUME NEW st \in Statuses, NEW h \in Heights, NEW rev \in Nat,
           NEW m \in Records, NEW n \in Records, NEW o \in SUBSET (Slots \cup {Commit})
    PROVE  Controller(st, h, rev, m, n, o) \in Controllers
BY DEF Controller, Controllers

LEMMA WrittenType ==
    ASSUME TypeOK, NEW h \in Heights, NEW rev \in Nat, NEW r \in Records
    PROVE  Written(h, rev, r) \in [height : Heights, revision : Nat, records : [Heights -> Records]]
BY DEF TypeOK, Written

LEMMA CommittedType ==
    ASSUME TypeOK, NEW h \in Heights, h < MaxHeight
    PROVE  Committed(h) \in [height : Heights, revision : Nat, records : [Heights -> Records]]
<1>1. h + 1 \in Heights
  BY WriterAssumption DEF Heights
<1>2. [journal.records EXCEPT ![h + 1] = Fresh] \in [Heights -> Records]
  BY FreshIsRecord DEF TypeOK
<1> QED
  BY <1>1, <1>2 DEF Committed

LEMMA EffectsType ==
    ASSUME NEW r, NEW q
    PROVE  Effects(r, q) \subseteq Slots \cup {Commit} /\ Recovered(r) \subseteq Slots \cup {Commit}
BY DEF Effects, Recovered

\* Every process step keeps the state in its types.
LEMMA TypeStep ==
    ASSUME TypeOK, [Next]_vars
    PROVE  TypeOK'
<1>1. ASSUME NEW w \in Writers, Open(w) PROVE TypeOK'
  BY <1>1, ControllerType, FreshIsRecord DEF TypeOK, Open, Statuses
<1>2. ASSUME NEW w \in Writers, Restore(w) PROVE TypeOK'
  <2> DEFINE c == ctl[w]
             r == journal.records[c.height]
  <2>1. c.height \in Heights /\ r \in Records
    BY DEF TypeOK, Controllers
  <2>2. Controller("sending", c.height, journal.revision, r, r, Recovered(r)) \in Controllers
    BY <2>1, ControllerType, EffectsType DEF TypeOK, Statuses
  <2>3. Controller("idle", c.height, journal.revision, r, r, {}) \in Controllers
    BY <2>1, ControllerType DEF TypeOK, Statuses
  <2> QED
    BY <1>2, <2>2, <2>3, OffIsController DEF TypeOK, Restore, Stop
<1>3. ASSUME NEW w \in Writers, RestoreHalted(w) PROVE TypeOK'
  <2> DEFINE c == ctl[w]
             r == journal.records[c.height]
  <2>1. c.height \in Heights /\ r \in Records
    BY DEF TypeOK, Controllers
  <2>2. [r EXCEPT !.mode = "halted"] \in Records
    BY <2>1 DEF Records, Modes
  <2>3. Controller("saving", c.height, journal.revision, r, [r EXCEPT !.mode = "halted"], {})
            \in Controllers
    BY <2>1, <2>2, ControllerType DEF TypeOK, Statuses
  <2> QED
    BY <1>3, <2>3 DEF TypeOK, RestoreHalted
<1>4. ASSUME NEW w \in Writers, Dispatch(w) PROVE TypeOK'
  <2> DEFINE c == ctl[w]
  <2>1. PICK r \in Records :
            ctl' = [ctl EXCEPT ![w] = Controller("saving", c.height, c.revision, c.mem, r, {})]
    BY <1>4 DEF Dispatch
  <2>2. Controller("saving", c.height, c.revision, c.mem, r, {}) \in Controllers
    BY ControllerType DEF TypeOK, Controllers, Statuses
  <2> QED
    BY <1>4, <2>1, <2>2 DEF TypeOK, Dispatch
<1>5. ASSUME NEW w \in Writers, Save(w) PROVE TypeOK'
  <2> DEFINE c == ctl[w]
  <2>1. c.height \in Heights /\ c.revision \in Nat /\ c.next \in Records
    BY DEF TypeOK, Controllers
  <2>2. Written(c.height, c.revision, c.next)
            \in [height : Heights, revision : Nat, records : [Heights -> Records]]
    BY <2>1, WrittenType
  <2>3. Controller("sending", c.height, c.revision + 1, c.next, c.next, Effects(c.mem, c.next))
            \in Controllers
    BY <2>1, ControllerType, EffectsType DEF Statuses
  <2> QED
    BY <1>5, <2>2, <2>3, OffIsController DEF TypeOK, Save, Stop
<1>6. ASSUME NEW w \in Writers, Fail(w) PROVE TypeOK'
  BY <1>6, OffIsController DEF TypeOK, Fail, Stop
<1>7. ASSUME NEW w \in Writers, Dispose(w) PROVE TypeOK'
  BY <1>7, OffIsController DEF TypeOK, Dispose, Stop, Controllers, Statuses
<1>8. ASSUME NEW w \in Writers, Send(w) PROVE TypeOK'
  <2> DEFINE c == ctl[w]
  <2>1. PICK x \in c.outbox \ {Commit} :
            /\ sent' = sent \cup {[height |-> c.height, slot |-> x, ballot |-> c.mem.votes[x]]}
            /\ ctl' = [ctl EXCEPT ![w].outbox = @ \ {x}]
    BY <1>8 DEF Send
  <2>2. c \in Controllers
    BY DEF TypeOK
  <2>3. [height |-> c.height, slot |-> x, ballot |-> c.mem.votes[x]] \in Messages
    BY <2>1, <2>2 DEF Controllers, Messages, Records
  <2>4. [c EXCEPT !.outbox = @ \ {x}] \in Controllers
    BY <2>2 DEF Controllers
  <2>5. ctl' \in [Writers -> Controllers]
    BY <2>1, <2>4 DEF TypeOK
  <2> QED
    BY <1>8, <2>1, <2>3, <2>5 DEF TypeOK, Send
<1>9. ASSUME NEW w \in Writers, SendDone(w) PROVE TypeOK'
  BY <1>9 DEF TypeOK, SendDone, Controllers, Statuses
<1>10. ASSUME NEW w \in Writers, Resume(w) PROVE TypeOK'
  <2> DEFINE c == ctl[w]
  <2>1. Controller("sending", c.height, c.revision, c.mem, c.mem, Recovered(c.mem)) \in Controllers
    BY ControllerType, EffectsType DEF TypeOK, Controllers, Statuses
  <2> QED
    BY <1>10, <2>1 DEF TypeOK, Resume
<1>11. ASSUME NEW w \in Writers, BeginCommit(w) PROVE TypeOK'
  BY <1>11, OffIsController DEF TypeOK, BeginCommit, Stop, Controllers, Statuses
<1>12. ASSUME NEW w \in Writers, EndCommit(w) PROVE TypeOK'
  <2> DEFINE c == ctl[w]
  <2>1. c.height \in Heights /\ c.height < MaxHeight /\ c.height + 1 \in Heights
    BY <1>12, WriterAssumption DEF TypeOK, Controllers, EndCommit, Heights
  <2>2. Committed(c.height) \in [height : Heights, revision : Nat, records : [Heights -> Records]]
    BY <2>1, CommittedType
  <2>3. Controller("reopening", c.height + 1, 0, Fresh, Fresh, {}) \in Controllers
    BY <2>1, ControllerType, FreshIsRecord DEF Statuses
  <2> QED
    BY <1>12, <2>2, <2>3, OffIsController DEF TypeOK, EndCommit, Stop
<1>13. ASSUME NEW w \in Writers, Crash(w) PROVE TypeOK'
  <2>1. [commits |-> ctl[w].status = "committing", height |-> ctl[w].height,
         revision |-> ctl[w].revision, record |-> ctl[w].next] \in Writes
    BY DEF TypeOK, Controllers, Writes
  <2> QED
    BY <1>13, <2>1, OffIsController DEF TypeOK, Crash
<1>14. ASSUME NEW t \in landing, Land(t) PROVE TypeOK'
  <2>1. t \in Writes
    BY DEF TypeOK
  <2>2. Written(t.height, t.revision, t.record)
            \in [height : Heights, revision : Nat, records : [Heights -> Records]]
    BY <2>1, WrittenType DEF Writes
  <2>3. t.commits => Committed(t.height)
            \in [height : Heights, revision : Nat, records : [Heights -> Records]]
    BY <1>14, <2>1, CommittedType DEF Writes, Land
  <2> QED
    BY <1>14, <2>2, <2>3 DEF TypeOK, Land
<1>15. CASE UNCHANGED vars
  BY <1>15 DEF TypeOK, vars
<1> QED
  BY <1>1, <1>2, <1>3, <1>4, <1>5, <1>6, <1>7, <1>8, <1>9, <1>10, <1>11, <1>12, <1>13,
     <1>14, <1>15 DEF Next

-----------------------------------------------------------------------------
LEMMA ExtendsItself ==
    ASSUME NEW r \in Records
    PROVE  Extends(r, r)
BY DEF Extends

\* A write under the revision in force advances the journal.
LEMMA WrittenAdvances ==
    ASSUME TypeOK, NEW h \in Heights, NEW rev \in Nat, NEW r \in Records,
           InForce(h, rev), Extends(journal.records[h], r), journal' = Written(h, rev, r)
    PROVE  Advance
<1>1. \A g \in Heights : Extends(journal.records[g], journal'.records[g])
  BY ExtendsItself DEF TypeOK, Written
<1> QED
  BY <1>1 DEF TypeOK, Written, InForce, Advance

\* A commit of the height in force advances the journal.
LEMMA CommittedAdvances ==
    ASSUME TypeOK, NEW h \in Heights, NEW rev \in Nat, h < MaxHeight,
           InForce(h, rev), journal' = Committed(h)
    PROVE  Advance
<1>1. h + 1 \in Heights /\ h \in Int
  BY WriterAssumption DEF Heights
<1>2. \A g \in Heights : g <= h => Extends(journal.records[g], journal'.records[g])
  <2> TAKE g \in Heights
  <2> HAVE g <= h
  <2>1. g # h + 1
    BY <1>1 DEF Heights
  <2>2. journal'.records[g] = journal.records[g]
    BY <2>1 DEF TypeOK, Committed
  <2> QED
    BY <2>2, ExtendsItself DEF TypeOK
<1> QED
  BY <1>1, <1>2 DEF TypeOK, Committed, InForce, Advance

\* What holds of one writer's controller.
Backed(w) == ctl[w].status \in Live => MemoryIsStored(ctl[w]) /\ WorkIsBacked(ctl[w])

\* A controller that does not move keeps its backing when the journal advances.
LEMMA IdleWriterKept ==
    ASSUME TypeOK, TypeOK', Advance, NEW w \in Writers, ctl'[w] = ctl[w], Backed(w)
    PROVE  Backed(w)'
<1> SUFFICES ASSUME ctl[w].status \in Live
             PROVE  (MemoryIsStored(ctl[w]) /\ WorkIsBacked(ctl[w]))'
  BY DEF Backed
<1> DEFINE c == ctl[w]
<1>1. c.height \in Heights /\ c.revision \in Nat /\ c.mem \in Records
  BY DEF TypeOK, Controllers
<1>2. MemoryIsStored(c) /\ WorkIsBacked(c)
  BY DEF Backed
<1>3. WorkIsBacked(c)'
  BY <1>2 DEF WorkIsBacked, Extends
<1>4. CASE journal' = journal
  BY <1>2, <1>3, <1>4 DEF MemoryIsStored, Behind, InForce
<1>5. CASE journal' # journal
  <2>1. journal.height \in Int /\ journal'.height \in Int /\ c.height \in Int
        /\ journal.revision \in Int /\ journal'.revision \in Int
    BY <1>1 DEF TypeOK, Heights
  <2>2. Behind(c.height, c.revision)
    BY <1>2 DEF MemoryIsStored
  <2>3. Behind(c.height, c.revision)' /\ ~InForce(c.height, c.revision)'
    BY <1>1, <1>5, <2>1, <2>2 DEF Advance, Behind, InForce
  <2>4. Extends(journal.records[c.height], journal'.records[c.height])
    BY <1>1, <1>5, <2>2 DEF Advance, Behind
  <2>5. \A x \in Slots : c.mem.votes[x] # None =>
            journal'.records[c.height].votes[x] = c.mem.votes[x]
    BY <1>2, <2>4 DEF MemoryIsStored, Extends
  <2> QED
    BY <1>3, <2>3, <2>5 DEF MemoryIsStored
<1> QED
  BY <1>4, <1>5

\* A late transaction stays harmless when the journal advances.
LEMMA LateWriteKept ==
    ASSUME TypeOK, TypeOK', Advance, NEW t \in Writes, LateWriteIsSafe(t)
    PROVE  LateWriteIsSafe(t)'
<1>1. CASE journal' = journal
  BY <1>1 DEF LateWriteIsSafe, Behind, InForce
<1>2. CASE journal' # journal
  <2>1. journal.height \in Int /\ journal'.height \in Int /\ t.height \in Int
        /\ journal.revision \in Int /\ journal'.revision \in Int /\ t.revision \in Int
    BY DEF TypeOK, Heights, Writes
  <2>2. Behind(t.height, t.revision)
    BY DEF LateWriteIsSafe
  <2>3. Behind(t.height, t.revision)' /\ ~InForce(t.height, t.revision)'
    BY <1>2, <2>1, <2>2 DEF Advance, Behind, InForce
  <2> QED
    BY <2>3 DEF LateWriteIsSafe
<1> QED
  BY <1>1, <1>2

\* What was sent stays stored when the journal advances.
LEMMA SentKept ==
    ASSUME TypeOK, TypeOK', Advance, SentIsDurable, sent' = sent
    PROVE  SentIsDurable'
<1> SUFFICES ASSUME NEW m \in sent
             PROVE  /\ m.height <= journal'.height
                    /\ m.ballot # None
                    /\ journal'.records[m.height].votes[m.slot] = m.ballot
  BY DEF SentIsDurable
<1>1. /\ m.height <= journal.height
      /\ m.ballot # None
      /\ journal.records[m.height].votes[m.slot] = m.ballot
  BY DEF SentIsDurable
<1>2. m.height \in Heights /\ m.slot \in Slots
  BY DEF TypeOK, Messages
<1>3. journal.height \in Int /\ journal'.height \in Int /\ m.height \in Int
  BY <1>2 DEF TypeOK, Heights
<1>4. CASE journal' = journal
  BY <1>1, <1>4
<1>5. CASE journal' # journal
  <2>1. Extends(journal.records[m.height], journal'.records[m.height])
    BY <1>1, <1>2, <1>5 DEF Advance
  <2> QED
    BY <1>1, <1>2, <1>3, <1>5, <2>1 DEF Advance, Extends
<1> QED
  BY <1>4, <1>5

\* The frame of a process step: what is left to show is that the process that
\* moved is backed, and that a transaction it left behind is harmless.
LEMMA WriterStep ==
    ASSUME IndInv, TypeOK', Advance, NEW w \in Writers,
           \A v \in Writers : v # w => ctl'[v] = ctl[v],
           Backed(w)', \A t \in landing' : t \notin landing => LateWriteIsSafe(t)',
           SentIsDurable'
    PROVE  IndInv'
<1>1. \A v \in Writers : Backed(v)'
  <2> TAKE v \in Writers
  <2>1. CASE v = w
    BY <2>1
  <2>2. CASE v # w
    BY <2>2, IdleWriterKept DEF IndInv, Backed
  <2> QED
    BY <2>1, <2>2
<1>2. \A t \in landing' : LateWriteIsSafe(t)'
  <2> TAKE t \in landing'
  <2>1. CASE t \in landing
    <3>1. t \in Writes /\ LateWriteIsSafe(t)
      BY <2>1 DEF IndInv, TypeOK
    <3> QED
      BY <3>1, LateWriteKept DEF IndInv
  <2>2. CASE t \notin landing
    BY <2>2
  <2> QED
    BY <2>1, <2>2
<1> QED
  BY <1>1, <1>2 DEF IndInv, Backed

-----------------------------------------------------------------------------
\* A controller that has just loaded the record in force is backed.
LEMMA LoadedIsStored ==
    ASSUME TypeOK, NEW w \in Writers, journal' = journal,
           ctl'[w].height = journal.height, ctl'[w].revision = journal.revision,
           ctl'[w].mem = journal.records[journal.height]
    PROVE  MemoryIsStored(ctl[w])'
BY DEF TypeOK, Heights, MemoryIsStored, Behind, InForce

\* A controller that keeps its height, revision and memory stays stored.
LEMMA SameMemoryIsStored ==
    ASSUME NEW w \in Writers, journal' = journal, MemoryIsStored(ctl[w]),
           ctl'[w].height = ctl[w].height, ctl'[w].revision = ctl[w].revision,
           ctl'[w].mem = ctl[w].mem
    PROVE  MemoryIsStored(ctl[w])'
BY DEF MemoryIsStored, Behind, InForce

\* What recoverConsensusEffects sends again was signed.
LEMMA RecoveredIsSigned ==
    ASSUME NEW r \in Records
    PROVE  /\ \A x \in Slots \cap Recovered(r) : r.votes[x] # None
           /\ Commit \in Recovered(r) => r.mode = "decided"
BY WriterAssumption DEF Recovered

\* What a transition sends is in the record it wrote.
LEMMA EffectsAreSigned ==
    ASSUME NEW r \in Records, NEW q \in Records, Extends(r, q)
    PROVE  /\ \A x \in Slots \cap Effects(r, q) : q.votes[x] # None
           /\ Commit \in Effects(r, q) => q.mode = "decided"
<1>1. \A x \in Slots : q.votes[x] # r.votes[x] => q.votes[x] # None
  BY DEF Extends
<1> QED
  BY <1>1, WriterAssumption DEF Effects

\* The inductive step: every action keeps IndInv.
LEMMA InductiveStep ==
    ASSUME IndInv, [Next]_vars
    PROVE  IndInv'
<1> USE DEF Live
<1>a. TypeOK /\ TypeOK' /\ SentIsDurable
  BY TypeStep DEF IndInv
<1>b. \A w \in Writers : Backed(w)
  BY DEF IndInv, Backed
<1>c. ASSUME NEW w \in Writers, journal' = journal, landing' = landing, sent' = sent,
             \A v \in Writers : v # w => ctl'[v] = ctl[v], Backed(w)'
      PROVE  IndInv'
  <2>1. Advance
    BY <1>c DEF Advance
  <2>2. SentIsDurable'
    BY <1>a, <1>c, <2>1, SentKept
  <2> QED
    BY <1>a, <1>c, <2>1, <2>2, WriterStep
<1>d. \A w \in Writers : ctl[w] \in Controllers /\ ctl[w].height \in Heights
          /\ ctl[w].revision \in Nat /\ ctl[w].mem \in Records /\ ctl[w].next \in Records
  BY <1>a DEF TypeOK, Controllers
<1>s. ASSUME NEW w \in Writers, Stop(w), journal' = journal, landing' = landing, sent' = sent
      PROVE  IndInv'
  <2>1. ctl'[w].status = "stopped" /\ \A v \in Writers : v # w => ctl'[v] = ctl[v]
    BY <1>a, <1>s DEF TypeOK, Stop, Stopped, Off, Controller
  <2> QED
    BY <1>c, <1>s, <2>1 DEF Backed
<1>1. ASSUME NEW w \in Writers, Open(w) PROVE IndInv'
  <2>1. ctl'[w].status = "opening" /\ \A v \in Writers : v # w => ctl'[v] = ctl[v]
    BY <1>a, <1>1 DEF TypeOK, Open, Controller
  <2> QED
    BY <1>1, <1>c, <2>1 DEF Open, Backed
<1>2. ASSUME NEW w \in Writers, Restore(w) PROVE IndInv'
  <2> DEFINE c == ctl[w]
             r == journal.records[c.height]
  <2>1. CASE journal.height # c.height
    BY <1>2, <1>s, <2>1 DEF Restore
  <2>2. CASE journal.height = c.height
    <3>1. r \in Records
      BY <1>a, <1>d DEF TypeOK
    <3>2. /\ ctl'[w].height = c.height /\ ctl'[w].revision = journal.revision
          /\ ctl'[w].mem = r /\ ctl'[w].status \in {"sending", "idle"}
          /\ ctl'[w].status = "sending" => ctl'[w].outbox = Recovered(r)
          /\ \A v \in Writers : v # w => ctl'[v] = ctl[v]
      BY <1>a, <1>2, <2>2 DEF TypeOK, Restore, Controller
    <3>3. MemoryIsStored(ctl[w])'
      BY <1>a, <1>2, <2>2, <3>2, LoadedIsStored DEF Restore
    <3>4. WorkIsBacked(ctl[w])'
      BY <3>1, <3>2, RecoveredIsSigned DEF WorkIsBacked
    <3> QED
      BY <1>2, <1>c, <3>2, <3>3, <3>4 DEF Restore, Backed
  <2> QED
    BY <2>1, <2>2
<1>3. ASSUME NEW w \in Writers, RestoreHalted(w) PROVE IndInv'
  <2> DEFINE c == ctl[w]
             r == journal.records[c.height]
  <2>1. r \in Records
    BY <1>a, <1>d DEF TypeOK
  <2>2. /\ ctl'[w].height = c.height /\ ctl'[w].revision = journal.revision
        /\ ctl'[w].mem = r /\ ctl'[w].status = "saving"
        /\ ctl'[w].next = [r EXCEPT !.mode = "halted"]
        /\ \A v \in Writers : v # w => ctl'[v] = ctl[v]
    BY <1>a, <1>3 DEF TypeOK, RestoreHalted, Controller
  <2>3. MemoryIsStored(ctl[w])'
    BY <1>a, <1>3, <2>2, LoadedIsStored DEF RestoreHalted
  <2>4. Extends(r, [r EXCEPT !.mode = "halted"])
    BY <2>1 DEF Extends, Records
  <2>5. WorkIsBacked(ctl[w])'
    BY <2>2, <2>4 DEF WorkIsBacked, Extends
  <2> QED
    BY <1>3, <1>c, <2>2, <2>3, <2>5 DEF RestoreHalted, Backed
<1>4. ASSUME NEW w \in Writers, Dispatch(w) PROVE IndInv'
  <2> DEFINE c == ctl[w]
  <2>1. PICK r \in Records :
            /\ Extends(c.mem, r)
            /\ ctl' = [ctl EXCEPT ![w] = Controller("saving", c.height, c.revision, c.mem, r, {})]
    BY <1>4 DEF Dispatch
  <2>2. /\ ctl'[w].height = c.height /\ ctl'[w].revision = c.revision
        /\ ctl'[w].mem = c.mem /\ ctl'[w].status = "saving" /\ ctl'[w].next = r
        /\ \A v \in Writers : v # w => ctl'[v] = ctl[v]
    BY <1>a, <2>1 DEF TypeOK, Controller
  <2>3. MemoryIsStored(ctl[w])'
    BY <1>4, <1>b, <2>2, SameMemoryIsStored DEF Dispatch, Backed
  <2>4. WorkIsBacked(ctl[w])'
    BY <2>1, <2>2 DEF WorkIsBacked, Extends
  <2> QED
    BY <1>4, <1>c, <2>2, <2>3, <2>4 DEF Dispatch, Backed
<1>5. ASSUME NEW w \in Writers, Save(w) PROVE IndInv'
  <2> DEFINE c == ctl[w]
  <2>1. CASE ~InForce(c.height, c.revision)
    BY <1>5, <1>s, <2>1 DEF Save
  <2>2. CASE InForce(c.height, c.revision)
    <3>1. MemoryIsStored(c) /\ Extends(c.mem, c.next) /\ c.mem = journal.records[c.height]
      BY <1>5, <1>b, <2>2 DEF Save, Backed, WorkIsBacked, MemoryIsStored
    <3>2. Advance
      BY <1>5, <1>a, <1>d, <2>2, <3>1, WrittenAdvances DEF Save
    <3>3. SentIsDurable'
      BY <1>5, <1>a, <3>2, SentKept DEF Save
    <3>4. \A v \in Writers : v # w => ctl'[v] = ctl[v]
      BY <1>5, <1>a, <2>2 DEF TypeOK, Save
    <3>5. CASE c.status = "stopping"
      <4>1. ctl'[w].status = "stopped"
        BY <1>5, <1>a, <2>2, <3>5 DEF TypeOK, Save, Stopped, Off, Controller
      <4> QED
        BY <1>5, <1>a, <3>2, <3>3, <3>4, <4>1, WriterStep DEF Save, Backed
    <3>6. CASE c.status = "saving"
      <4>1. /\ ctl'[w].height = c.height /\ ctl'[w].revision = c.revision + 1
            /\ ctl'[w].mem = c.next /\ ctl'[w].status = "sending"
            /\ ctl'[w].outbox = Effects(c.mem, c.next)
        BY <1>5, <1>a, <2>2, <3>6 DEF TypeOK, Save, Controller
      <4>2. journal' = Written(c.height, c.revision, c.next)
        BY <1>5, <2>2 DEF Save
      <4>3. /\ journal'.height = c.height /\ journal'.revision = c.revision + 1
            /\ journal'.records[c.height] = c.next
        BY <1>a, <1>d, <4>2 DEF TypeOK, Written
      <4>4. MemoryIsStored(ctl[w])'
        BY <1>a, <1>d, <4>1, <4>3 DEF TypeOK, Heights, MemoryIsStored, Behind, InForce
      <4>5. WorkIsBacked(ctl[w])'
        BY <1>d, <3>1, <4>1, EffectsAreSigned DEF WorkIsBacked
      <4> QED
        BY <1>5, <1>a, <3>2, <3>3, <3>4, <4>4, <4>5, WriterStep DEF Save, Backed
    <3> QED
      BY <1>5, <3>5, <3>6 DEF Save
  <2> QED
    BY <2>1, <2>2
<1>6. ASSUME NEW w \in Writers, Fail(w) PROVE IndInv'
  BY <1>6, <1>s DEF Fail
<1>7. ASSUME NEW w \in Writers, Dispose(w) PROVE IndInv'
  <2>1. CASE ctl[w].status # "saving"
    BY <1>7, <1>s, <2>1 DEF Dispose
  <2>2. CASE ctl[w].status = "saving"
    <3>1. /\ ctl'[w].height = ctl[w].height /\ ctl'[w].revision = ctl[w].revision
          /\ ctl'[w].mem = ctl[w].mem /\ ctl'[w].status = "stopping"
          /\ ctl'[w].next = ctl[w].next
          /\ \A v \in Writers : v # w => ctl'[v] = ctl[v]
      BY <1>7, <1>a, <1>d, <2>2 DEF TypeOK, Dispose, Controllers
    <3>2. MemoryIsStored(ctl[w])'
      BY <1>7, <1>b, <2>2, <3>1, SameMemoryIsStored DEF Dispose, Backed
    <3>3. WorkIsBacked(ctl[w])'
      BY <1>b, <2>2, <3>1 DEF Backed, WorkIsBacked, Extends
    <3> QED
      BY <1>7, <1>c, <3>1, <3>2, <3>3 DEF Dispose, Backed
  <2> QED
    BY <2>1, <2>2
<1>8. ASSUME NEW w \in Writers, Send(w) PROVE IndInv'
  <2> DEFINE c == ctl[w]
  <2>1. PICK x \in c.outbox \ {Commit} :
            /\ sent' = sent \cup {[height |-> c.height, slot |-> x, ballot |-> c.mem.votes[x]]}
            /\ ctl' = [ctl EXCEPT ![w].outbox = @ \ {x}]
    BY <1>8 DEF Send
  <2>2. journal' = journal /\ landing' = landing /\ c.status = "sending" /\ x \in Slots
    BY <1>8, <1>d, <2>1 DEF Send, Controllers
  <2>3. MemoryIsStored(c) /\ WorkIsBacked(c)
    BY <1>b, <2>2 DEF Backed
  <2>4. /\ ctl'[w].height = c.height /\ ctl'[w].revision = c.revision
        /\ ctl'[w].mem = c.mem /\ ctl'[w].status = "sending"
        /\ ctl'[w].outbox = c.outbox \ {x}
        /\ \A v \in Writers : v # w => ctl'[v] = ctl[v]
    BY <1>a, <1>d, <2>1, <2>2 DEF TypeOK, Controllers
  <2>5. MemoryIsStored(ctl[w])'
    BY <2>2, <2>3, <2>4, SameMemoryIsStored
  <2>6. WorkIsBacked(ctl[w])'
    BY <2>2, <2>3, <2>4 DEF WorkIsBacked
  <2>7. SentIsDurable'
    <3>1. c.mem.votes[x] # None
      BY <2>1, <2>2, <2>3 DEF WorkIsBacked
    <3>2. c.height <= journal.height /\ journal.records[c.height].votes[x] = c.mem.votes[x]
      BY <2>2, <2>3, <3>1 DEF MemoryIsStored, Behind
    <3> QED
      BY <1>a, <2>1, <2>2, <3>1, <3>2 DEF SentIsDurable
  <2>8. Advance
    BY <2>2 DEF Advance
  <2> QED
    BY <1>a, <2>2, <2>4, <2>5, <2>6, <2>7, <2>8, WriterStep DEF Backed
<1>9. ASSUME NEW w \in Writers, SendDone(w) PROVE IndInv'
  <2>1. /\ ctl'[w].height = ctl[w].height /\ ctl'[w].revision = ctl[w].revision
        /\ ctl'[w].mem = ctl[w].mem /\ ctl'[w].status = "idle"
        /\ \A v \in Writers : v # w => ctl'[v] = ctl[v]
    BY <1>9, <1>a, <1>d DEF TypeOK, SendDone, Controllers
  <2>2. MemoryIsStored(ctl[w])'
    BY <1>9, <1>b, <2>1, SameMemoryIsStored DEF SendDone, Backed
  <2> QED
    BY <1>9, <1>c, <2>1, <2>2 DEF SendDone, Backed, WorkIsBacked
<1>10. ASSUME NEW w \in Writers, Resume(w) PROVE IndInv'
  <2>1. /\ ctl'[w].height = ctl[w].height /\ ctl'[w].revision = ctl[w].revision
        /\ ctl'[w].mem = ctl[w].mem /\ ctl'[w].status = "sending"
        /\ ctl'[w].outbox = Recovered(ctl[w].mem)
        /\ \A v \in Writers : v # w => ctl'[v] = ctl[v]
    BY <1>10, <1>a DEF TypeOK, Resume, Controller
  <2>2. MemoryIsStored(ctl[w])'
    BY <1>10, <1>b, <2>1, SameMemoryIsStored DEF Resume, Backed
  <2>3. WorkIsBacked(ctl[w])'
    BY <1>d, <2>1, RecoveredIsSigned DEF WorkIsBacked
  <2> QED
    BY <1>10, <1>c, <2>1, <2>2, <2>3 DEF Resume, Backed
<1>11. ASSUME NEW w \in Writers, BeginCommit(w) PROVE IndInv'
  <2>1. CASE Stop(w)
    BY <1>11, <1>s, <2>1 DEF BeginCommit
  <2>2. CASE ctl' = [ctl EXCEPT ![w].status = "committing"]
    <3>1. /\ ctl'[w].height = ctl[w].height /\ ctl'[w].revision = ctl[w].revision
          /\ ctl'[w].mem = ctl[w].mem /\ ctl'[w].status = "committing"
          /\ \A v \in Writers : v # w => ctl'[v] = ctl[v]
      BY <1>a, <1>d, <2>2 DEF TypeOK, Controllers
    <3>2. MemoryIsStored(ctl[w])' /\ ctl[w].mem.mode = "decided"
      BY <1>11, <1>b, <3>1, SameMemoryIsStored DEF BeginCommit, Backed, WorkIsBacked
    <3> QED
      BY <1>11, <1>c, <3>1, <3>2 DEF BeginCommit, Backed, WorkIsBacked
  <2> QED
    BY <1>11, <2>1, <2>2 DEF BeginCommit
<1>12. ASSUME NEW w \in Writers, EndCommit(w) PROVE IndInv'
  <2> DEFINE c == ctl[w]
  <2>1. CASE ~InForce(c.height, c.revision)
    BY <1>12, <1>s, <2>1 DEF EndCommit
  <2>2. CASE InForce(c.height, c.revision)
    <3>1. Advance
      BY <1>12, <1>a, <1>d, <2>2, CommittedAdvances DEF EndCommit
    <3>2. SentIsDurable'
      BY <1>12, <1>a, <3>1, SentKept DEF EndCommit
    <3>3. ctl'[w].status = "reopening" /\ \A v \in Writers : v # w => ctl'[v] = ctl[v]
      BY <1>12, <1>a, <2>2 DEF TypeOK, EndCommit, Controller
    <3> QED
      BY <1>12, <1>a, <3>1, <3>2, <3>3, WriterStep DEF EndCommit, Backed
  <2> QED
    BY <2>1, <2>2
<1>13. ASSUME NEW w \in Writers, Crash(w) PROVE IndInv'
  <2> DEFINE c == ctl[w]
             late == [commits |-> c.status = "committing", height |-> c.height,
                      revision |-> c.revision, record |-> c.next]
  <2>1. journal' = journal /\ sent' = sent
    BY <1>13 DEF Crash
  <2>2. ctl'[w].status = "off" /\ \A v \in Writers : v # w => ctl'[v] = ctl[v]
    BY <1>13, <1>a DEF TypeOK, Crash, Off, Controller
  <2>3. Advance
    BY <2>1 DEF Advance
  <2>4. SentIsDurable'
    BY <1>a, <2>1, <2>3, SentKept
  <2>5. ASSUME NEW t \in landing', t \notin landing PROVE LateWriteIsSafe(t)'
    <3>1. t = late /\ c.status \in {"saving", "stopping", "committing"}
      BY <1>13, <2>5 DEF Crash
    <3>2. MemoryIsStored(c) /\ WorkIsBacked(c)
      BY <1>b, <3>1 DEF Backed
    <3>3. t.height = c.height /\ t.revision = c.revision /\ t.record = c.next
          /\ (t.commits <=> c.status = "committing")
      BY <3>1
    <3> QED
      BY <2>1, <3>1, <3>2, <3>3
         DEF LateWriteIsSafe, MemoryIsStored, WorkIsBacked, Behind, InForce, Extends
  <2> QED
    BY <1>a, <2>2, <2>3, <2>4, <2>5, WriterStep DEF Backed
<1>14. ASSUME NEW t \in landing, Land(t) PROVE IndInv'
  <2>1. t \in Writes /\ LateWriteIsSafe(t)
    BY <1>a DEF IndInv, TypeOK
  <2>2. Advance
    <3>1. CASE ~InForce(t.height, t.revision)
      BY <1>14, <3>1 DEF Land, Advance
    <3>2. CASE InForce(t.height, t.revision) /\ t.commits
      BY <1>14, <1>a, <2>1, <3>2, CommittedAdvances DEF Land, Writes
    <3>3. CASE InForce(t.height, t.revision) /\ ~t.commits
      BY <1>14, <1>a, <2>1, <3>3, WrittenAdvances DEF Land, Writes, LateWriteIsSafe
    <3> QED
      BY <3>1, <3>2, <3>3
  <2>3. SentIsDurable'
    BY <1>14, <1>a, <2>2, SentKept DEF Land
  <2>4. \A w \in Writers : Backed(w)'
    BY <1>14, <1>a, <1>b, <2>2, IdleWriterKept DEF Land
  <2>5. \A u \in landing' : LateWriteIsSafe(u)'
    <3> TAKE u \in landing'
    <3>1. u \in Writes /\ LateWriteIsSafe(u)
      BY <1>14, <1>a DEF Land, IndInv, TypeOK
    <3> QED
      BY <1>a, <2>2, <3>1, LateWriteKept
  <2> QED
    BY <1>a, <2>3, <2>4, <2>5 DEF IndInv, Backed
<1>15. CASE UNCHANGED vars
  <2>1. journal' = journal /\ ctl' = ctl /\ landing' = landing /\ sent' = sent
    BY <1>15 DEF vars
  <2>2. Advance
    BY <2>1 DEF Advance
  <2>3. \A w \in Writers : Backed(w)'
    BY <1>a, <1>b, <2>1, <2>2, IdleWriterKept
  <2>4. \A t \in landing' : LateWriteIsSafe(t)'
    BY <2>1 DEF IndInv, LateWriteIsSafe, Behind, InForce
  <2>5. SentIsDurable'
    BY <1>a, <2>1, <2>2, SentKept
  <2> QED
    BY <1>a, <2>3, <2>4, <2>5 DEF IndInv, Backed
<1> QED
  BY <1>1, <1>2, <1>3, <1>4, <1>5, <1>6, <1>7, <1>8, <1>9, <1>10, <1>11, <1>12, <1>13,
     <1>14, <1>15 DEF Next

LEMMA InductiveInit == Init => IndInv
<1> SUFFICES ASSUME Init PROVE IndInv
  OBVIOUS
<1>1. TypeOK
  BY FreshIsRecord, OffIsController, WriterAssumption DEF Init, TypeOK, Heights
<1>2. \A w \in Writers : ctl[w].status = "off"
  BY DEF Init, Off, Controller
<1> QED
  BY <1>1, <1>2 DEF Init, IndInv, Live, SentIsDurable

\* The inductive invariant holds of every reachable state.
THEOREM Invariance == Spec => []IndInv
BY InductiveInit, InductiveStep, PTL DEF Spec

\* The journal, the controllers and the wire stay in their types.
THEOREM TypeCorrect == Spec => []TypeOK
<1>1. IndInv => TypeOK
  BY DEF IndInv
<1> QED
  BY <1>1, Invariance, PTL

\* A vote that left a process with this key stands in its journal.
THEOREM Durability == Spec => []SentIsDurable
<1>1. IndInv => SentIsDurable
  BY DEF IndInv
<1> QED
  BY <1>1, Invariance, PTL

\* Processes that share a key never send two different votes for one slot,
\* whatever their number and however they crash, stall and restart.
THEOREM KeySafety == Spec => []NoEquivocation
<1>1. IndInv => NoEquivocation
  BY DEF IndInv, SentIsDurable, NoEquivocation
<1> QED
  BY <1>1, Invariance, PTL

\* A controller whose revision is in force holds exactly the stored record.
THEOREM RevisionSafety == Spec => []RevisionFixesRecord
<1>1. IndInv => RevisionFixesRecord
  BY DEF IndInv, RevisionFixesRecord, MemoryIsStored, Live
<1> QED
  BY <1>1, Invariance, PTL

\* What a step may do to the journal.
Grows ==
    /\ journal'.height \in {journal.height, journal.height + 1}
    /\ journal'.height # journal.height => journal.records[journal.height].mode # "voting"
    /\ \A h \in Heights :
          h <= journal.height => Extends(journal.records[h], journal'.records[h])

LEMMA GrowsStep ==
    ASSUME IndInv, [Next]_vars
    PROVE  Grows
<1>a. TypeOK /\ \A w \in Writers : Backed(w)
  BY DEF IndInv, Backed
<1>b. CASE journal' = journal
  BY <1>a, <1>b, ExtendsItself DEF TypeOK, Grows
<1>c. ASSUME NEW h \in Heights, NEW rev \in Nat, NEW r \in Records, InForce(h, rev),
             Extends(journal.records[h], r), journal' = Written(h, rev, r)
      PROVE  Grows
  <2>1. \A g \in Heights : Extends(journal.records[g], journal'.records[g])
    BY <1>a, <1>c, ExtendsItself DEF TypeOK, Written
  <2> QED
    BY <1>c, <2>1 DEF Written, InForce, Grows
<1>d. ASSUME NEW h \in Heights, NEW rev \in Nat, h < MaxHeight, InForce(h, rev),
             journal.records[h].mode = "decided", journal' = Committed(h)
      PROVE  Grows
  <2>1. Advance
    BY <1>a, <1>d, CommittedAdvances
  <2>2. journal'.height = h + 1 /\ journal.height = h /\ h \in Int
    BY <1>d DEF Committed, InForce, Heights
  <2>3. \A g \in Heights :
            g <= journal.height => Extends(journal.records[g], journal'.records[g])
    <3>1. journal' # journal
      BY <2>2
    <3> QED
      BY <2>1, <3>1 DEF Advance
  <2> QED
    BY <1>d, <2>2, <2>3 DEF Grows
<1>1. ASSUME NEW w \in Writers, Save(w) PROVE Grows
  <2> DEFINE c == ctl[w]
  <2>1. c.height \in Heights /\ c.revision \in Nat /\ c.next \in Records
    BY <1>a DEF TypeOK, Controllers
  <2>2. InForce(c.height, c.revision) => Extends(journal.records[c.height], c.next)
    BY <1>1, <1>a DEF Save, Backed, Live, WorkIsBacked, MemoryIsStored
  <2> QED
    BY <1>1, <1>b, <1>c, <2>1, <2>2 DEF Save
<1>2. ASSUME NEW w \in Writers, EndCommit(w) PROVE Grows
  <2> DEFINE c == ctl[w]
  <2>1. c.height \in Heights /\ c.revision \in Nat
    BY <1>a DEF TypeOK, Controllers
  <2>2. InForce(c.height, c.revision) => journal.records[c.height].mode = "decided"
    BY <1>2, <1>a DEF EndCommit, Backed, Live, WorkIsBacked, MemoryIsStored
  <2> QED
    BY <1>2, <1>b, <1>d, <2>1, <2>2 DEF EndCommit
<1>3. ASSUME NEW t \in landing, Land(t) PROVE Grows
  <2>1. t.height \in Heights /\ t.revision \in Nat /\ t.record \in Records /\ LateWriteIsSafe(t)
    BY <1>a DEF IndInv, TypeOK, Writes
  <2>2. CASE ~InForce(t.height, t.revision)
    BY <1>3, <1>b, <2>2 DEF Land
  <2>3. CASE InForce(t.height, t.revision) /\ t.commits
    BY <1>3, <1>d, <2>1, <2>3 DEF Land, LateWriteIsSafe
  <2>4. CASE InForce(t.height, t.revision) /\ ~t.commits
    BY <1>3, <1>c, <2>1, <2>4 DEF Land, LateWriteIsSafe
  <2> QED
    BY <2>2, <2>3, <2>4
<1>4. CASE UNCHANGED vars
  BY <1>4, <1>b DEF vars
<1> QED
  BY <1>b, <1>1, <1>2, <1>3, <1>4
     DEF Next, Open, Restore, RestoreHalted, Dispatch, Fail, Dispose, Send, SendDone, Resume,
         BeginCommit, Crash

\* The journal never goes back, leaves a height only after its decision, and
\* never changes a vote it has stored.
THEOREM JournalSafety == Spec => JournalIsMonotone
<1>1. IndInv /\ [Next]_vars => [Grows]_vars
  BY GrowsStep
<1>2. JournalIsMonotone <=> [][Grows]_vars
  BY DEF JournalIsMonotone, Grows
<1> QED
  BY <1>1, <1>2, Invariance, PTL DEF Spec
=============================================================================
