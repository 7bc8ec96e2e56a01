---------------------------- MODULE SafetyWriter ----------------------------
(***************************************************************************)
(* One voting key, its durable journal, and every process that holds the   *)
(* key: a ConsensusController per process (consensus-controller.ts) over   *)
(* the compare-and-swap journal (journal.ts), with the part of             *)
(* ReplicatedLog that opens controllers and commits a height               *)
(* (replicated-log.ts).                                                    *)
(*                                                                         *)
(* Several processes may run with one key: two tabs, a tab that was        *)
(* restored while the old one still writes, a process that crashed with a  *)
(* write on its way.  Nothing but the journal's revision keeps them from   *)
(* signing two different votes.                                            *)
(*                                                                         *)
(* The reducers are abstracted to what the controller sees of them: a      *)
(* transition fills vote slots of the height that were empty, and may      *)
(* decide or halt (module Consensus says which).  A slot stands for a      *)
(* round and phase; a ballot for a value or nil.                           *)
(***************************************************************************)
EXTENDS Integers, FiniteSets

CONSTANTS
    Writers,       \* processes that hold the key
    Slots,         \* vote slots of one height
    Ballots,       \* what can be signed in a slot
    MaxHeight,     \* bound on the heights
    MaxRevision,   \* bound on the revisions of a height
    MaxLanding,    \* bound on the late transactions of crashed processes
    Commit,        \* the commit effect, sent after the votes
    None           \* an empty slot

Heights == 1..MaxHeight
Modes == {"voting", "decided", "halted"}
Records == [votes : [Slots -> Ballots \cup {None}], mode : Modes]
Statuses == {"off", "opening", "reopening", "idle", "saving", "stopping",
             "sending", "committing", "stopped"}

ASSUME WriterAssumption ==
    /\ MaxHeight \in Nat \ {0}
    /\ MaxRevision \in Nat /\ MaxLanding \in Nat
    /\ None \notin Ballots
    /\ Commit \notin Slots

VARIABLES
    journal,  \* height and revision in force; the record of every height
    ctl,      \* writer -> its controller
    landing,  \* writes of crashed processes that may still reach the journal
    sent      \* votes that ever left a process

vars == <<journal, ctl, landing, sent>>

\* A fresh safety record (createConsensusState).
Fresh == [votes |-> [x \in Slots |-> None], mode |-> "voting"]

\* What a transition may do to a record.  A vote that was signed stays, and a
\* voter that decided or halted signs no more.
Extends(old, new) ==
    /\ \A x \in Slots : old.votes[x] # None => new.votes[x] = old.votes[x]
    /\ old.mode # "voting" => new.mode # "voting" /\ new.votes = old.votes

\* The effects of a transition: the votes it signed, then a commit.
Effects(old, new) ==
    {x \in Slots : new.votes[x] # old.votes[x]}
        \cup {e \in {Commit} : new.mode = "decided" /\ old.mode # "decided"}

\* recoverConsensusEffects: everything signed at this height, again.
Recovered(r) ==
    IF r.mode = "halted" THEN {}
    ELSE {x \in Slots : r.votes[x] # None} \cup {e \in {Commit} : r.mode = "decided"}

Controller(status, height, revision, mem, next, outbox) ==
    [status |-> status, height |-> height, revision |-> revision,
     mem |-> mem, next |-> next, outbox |-> outbox]

\* No controller.
Off == Controller("off", 1, 0, Fresh, Fresh, {})

\* A stopped controller sends and signs nothing; its process can only go.
Stopped == [Off EXCEPT !.status = "stopped"]
Stop(w) == ctl' = [ctl EXCEPT ![w] = Stopped]

-----------------------------------------------------------------------------
(***************************************************************************)
(* The journal.                                                            *)
(***************************************************************************)

\* Fault: the compare ignores the revision.
InForceAnyRevision(height, revision) == journal.height = height

\* The compare of saveSafety and commit.
InForce(height, revision) == journal.height = height /\ journal.revision = revision

\* Fault: the revision is not advanced.
WrittenInPlace(height, revision, r) ==
    [height |-> height, revision |-> revision,
     records |-> [journal.records EXCEPT ![height] = r]]

\* saveSafety.
Written(height, revision, r) ==
    [height |-> height, revision |-> revision + 1,
     records |-> [journal.records EXCEPT ![height] = r]]

\* Fault: a commit skips a height.
CommittedSkips(height) ==
    [height |-> height + 2, revision |-> 0,
     records |-> [journal.records EXCEPT ![height + 1] = Fresh]]

\* commit: the certified entry and the fresh record of the next height are
\* written in one transaction.
Committed(height) ==
    [height |-> height + 1, revision |-> 0,
     records |-> [journal.records EXCEPT ![height + 1] = Fresh]]

Init ==
    /\ journal = [height |-> 1, revision |-> 0, records |-> [h \in Heights |-> Fresh]]
    /\ ctl = [w \in Writers |-> Off]
    /\ landing = {}
    /\ sent = {}

-----------------------------------------------------------------------------
(***************************************************************************)
(* Opening a controller.                                                   *)
(***************************************************************************)

\* ReplicatedLog.restore reads the journal to learn the height.
Open(w) ==
    /\ ctl[w].status = "off"
    /\ ctl' = [ctl EXCEPT ![w] =
                  Controller("opening", journal.height, 0, Fresh, Fresh, {})]
    /\ UNCHANGED <<journal, landing, sent>>

\* ConsensusController.restore reads the record of that height, which is gone
\* when another process committed meanwhile.  A process that starts resumes at
\* once; one that has just committed waits for its pulse.
Restore(w) ==
    LET c == ctl[w]
        r == journal.records[c.height]
    IN
    /\ c.status \in {"opening", "reopening"}
    /\ IF journal.height = c.height
       THEN ctl' = [ctl EXCEPT ![w] =
                IF c.status = "opening"
                THEN Controller("sending", c.height, journal.revision, r, r, Recovered(r))
                ELSE Controller("idle", c.height, journal.revision, r, r, {})]
       ELSE Stop(w)
    /\ UNCHANGED <<journal, landing, sent>>

\* The same, when restoreConsensusState finds terminal evidence in the record:
\* the halt is persisted before the controller exists.
RestoreHalted(w) ==
    LET c == ctl[w]
        r == journal.records[c.height]
    IN
    /\ c.status \in {"opening", "reopening"}
    /\ journal.height = c.height /\ r.mode # "halted"
    /\ journal.revision < MaxRevision
    /\ ctl' = [ctl EXCEPT ![w] =
           Controller("saving", c.height, journal.revision, r, [r EXCEPT !.mode = "halted"], {})]
    /\ UNCHANGED <<journal, landing, sent>>

-----------------------------------------------------------------------------
(***************************************************************************)
(* A transition: reduce, persist, then send.                               *)
(***************************************************************************)

\* Fault: the votes of a transition are sent before it is written.
DispatchUnsaved(w) ==
    LET c == ctl[w] IN
    /\ c.status = "idle" /\ c.revision < MaxRevision
    /\ \E r \in Records :
          /\ Extends(c.mem, r)
          /\ ctl' = [ctl EXCEPT ![w] =
                 Controller("sending", c.height, c.revision, r, r, Effects(c.mem, r))]
    /\ UNCHANGED <<journal, landing, sent>>

\* dispatch up to the write.  A transition that changes nothing of ours (it
\* recorded somebody's vote) is written too.  One that beforePersist refuses
\* is discarded and leaves everything as it was.
Dispatch(w) ==
    LET c == ctl[w] IN
    /\ c.status = "idle" /\ c.revision < MaxRevision
    /\ \E r \in Records :
          /\ Extends(c.mem, r)
          /\ ctl' = [ctl EXCEPT ![w] =
                 Controller("saving", c.height, c.revision, c.mem, r, {})]
    /\ UNCHANGED <<journal, landing, sent>>

\* The write resolves.  A lost compare-and-swap stops the controller; so does
\* a dispose during the write, although the write itself took place.
Save(w) ==
    LET c == ctl[w] IN
    /\ c.status \in {"saving", "stopping"}
    /\ IF InForce(c.height, c.revision)
       THEN /\ journal' = Written(c.height, c.revision, c.next)
            /\ ctl' = [ctl EXCEPT ![w] =
                  IF c.status = "stopping" THEN Stopped
                  ELSE Controller("sending", c.height, c.revision + 1, c.next, c.next,
                                  Effects(c.mem, c.next))]
       ELSE /\ Stop(w)
            /\ UNCHANGED journal
    /\ UNCHANGED <<landing, sent>>

\* The write, or the delivery of an effect, throws.
Fail(w) ==
    /\ ctl[w].status \in {"saving", "stopping", "sending", "committing"}
    /\ Stop(w)
    /\ UNCHANGED <<journal, landing, sent>>

\* dispose, also from inside another callback while a write is on its way.
Dispose(w) ==
    /\ ctl[w].status \in {"idle", "saving", "sending"}
    /\ IF ctl[w].status = "saving"
       THEN ctl' = [ctl EXCEPT ![w].status = "stopping"]
       ELSE Stop(w)
    /\ UNCHANGED <<journal, landing, sent>>

\* handleEffects broadcasts one vote after the other.
Send(w) ==
    LET c == ctl[w] IN
    /\ c.status = "sending"
    /\ \E x \in c.outbox \ {Commit} :
          /\ sent' = sent \cup {[height |-> c.height, slot |-> x, ballot |-> c.mem.votes[x]]}
          /\ ctl' = [ctl EXCEPT ![w].outbox = @ \ {x}]
    /\ UNCHANGED <<journal, landing>>

SendDone(w) ==
    /\ ctl[w].status = "sending" /\ ctl[w].outbox = {}
    /\ ctl' = [ctl EXCEPT ![w].status = "idle"]
    /\ UNCHANGED <<journal, landing, sent>>

\* The pulse retransmits what the height has signed.
Resume(w) ==
    LET c == ctl[w] IN
    /\ c.status = "idle"
    /\ ctl' = [ctl EXCEPT ![w] =
           Controller("sending", c.height, c.revision, c.mem, c.mem, Recovered(c.mem))]
    /\ UNCHANGED <<journal, landing, sent>>

-----------------------------------------------------------------------------
(***************************************************************************)
(* The end of a height (persistCommit).                                    *)
(***************************************************************************)

\* The stored record is compared with the controller's before the commit.
BeginCommit(w) ==
    LET c == ctl[w] IN
    /\ c.status = "sending" /\ c.outbox = {Commit}
    /\ IF InForce(c.height, c.revision) /\ journal.records[c.height] = c.mem
       THEN ctl' = [ctl EXCEPT ![w].status = "committing"]
       ELSE Stop(w)
    /\ UNCHANGED <<journal, landing, sent>>

\* The commit transaction; the controller is replaced by one of the next height.
EndCommit(w) ==
    LET c == ctl[w] IN
    /\ c.status = "committing" /\ c.height < MaxHeight
    /\ IF InForce(c.height, c.revision)
       THEN /\ journal' = Committed(c.height)
            /\ ctl' = [ctl EXCEPT ![w] =
                  Controller("reopening", c.height + 1, 0, Fresh, Fresh, {})]
       ELSE /\ Stop(w)
            /\ UNCHANGED journal
    /\ UNCHANGED <<landing, sent>>

-----------------------------------------------------------------------------
(***************************************************************************)
(* Crashes.                                                                *)
(***************************************************************************)

\* The process goes.  A transaction it had issued is lost, or lands later.
Crash(w) ==
    LET c == ctl[w] IN
    /\ c.status # "off"
    /\ ctl' = [ctl EXCEPT ![w] = Off]
    /\ \/ UNCHANGED landing
       \/ /\ c.status \in {"saving", "stopping", "committing"}
          /\ Cardinality(landing) < MaxLanding
          /\ landing' = landing \cup {[commits |-> c.status = "committing", height |-> c.height,
                                       revision |-> c.revision, record |-> c.next]}
    /\ UNCHANGED <<journal, sent>>

\* Fault: a late transaction is applied without its compare.
LandBlind(t) ==
    /\ landing' = landing \ {t}
    /\ t.commits => t.height < MaxHeight
    /\ journal' = IF t.commits THEN Committed(t.height)
                  ELSE Written(t.height, t.revision, t.record)
    /\ UNCHANGED <<ctl, sent>>

\* A late transaction meets the same compare as any other.
Land(t) ==
    /\ landing' = landing \ {t}
    /\ t.commits => t.height < MaxHeight
    /\ journal' = IF ~InForce(t.height, t.revision) THEN journal
                  ELSE IF t.commits THEN Committed(t.height)
                  ELSE Written(t.height, t.revision, t.record)
    /\ UNCHANGED <<ctl, sent>>

Next ==
    \/ \E w \in Writers :
          \/ Open(w) \/ Restore(w) \/ RestoreHalted(w)
          \/ Dispatch(w) \/ Save(w) \/ Fail(w) \/ Dispose(w)
          \/ Send(w) \/ SendDone(w) \/ Resume(w)
          \/ BeginCommit(w) \/ EndCommit(w)
          \/ Crash(w)
    \/ \E t \in landing : Land(t)

Spec == Init /\ [][Next]_vars

-----------------------------------------------------------------------------
(***************************************************************************)
(* Properties.                                                             *)
(***************************************************************************)

Controllers ==
    [status : Statuses, height : Heights, revision : Nat, mem : Records, next : Records,
     outbox : SUBSET (Slots \cup {Commit})]
Writes == [commits : BOOLEAN, height : Heights, revision : Nat, record : Records]
Messages == [height : Heights, slot : Slots, ballot : Ballots \cup {None}]

TypeOK ==
    /\ journal \in [height : Heights, revision : Nat, records : [Heights -> Records]]
    /\ ctl \in [Writers -> Controllers]
    /\ landing \subseteq Writes
    /\ sent \subseteq Messages

\* The key never equivocates: whatever processes share it, and however they
\* crash, stall and restart, no two different votes for one slot of a height
\* leave them.
NoEquivocation ==
    \A m1, m2 \in sent :
        m1.height = m2.height /\ m1.slot = m2.slot => m1.ballot = m2.ballot

\* A vote that left a process stands in the journal: no restart can forget it.
SentIsDurable ==
    \A m \in sent :
        /\ m.height <= journal.height
        /\ m.ballot # None
        /\ journal.records[m.height].votes[m.slot] = m.ballot

\* The height and revision in force identify the record: a controller that
\* would win the next compare-and-swap works on exactly the stored votes.
RevisionFixesRecord ==
    \A w \in Writers : LET c == ctl[w] IN
        /\ c.status \in {"idle", "saving", "stopping", "sending", "committing"}
        /\ InForce(c.height, c.revision)
        => c.mem = journal.records[c.height]

\* The journal moves from one height to the next after a decision, and what a
\* height has signed is never changed: not by a stale process, and not by a
\* transaction that arrives after its process died.
JournalIsMonotone ==
    [][/\ journal'.height \in {journal.height, journal.height + 1}
       /\ journal'.height # journal.height => journal.records[journal.height].mode # "voting"
       /\ \A h \in Heights :
             h <= journal.height => Extends(journal.records[h], journal'.records[h])]_vars

-----------------------------------------------------------------------------
(***************************************************************************)
(* The inductive invariant behind NoEquivocation.                          *)
(***************************************************************************)

Live == {"idle", "saving", "stopping", "sending", "committing"}

\* A compare-and-swap that was in force once is not ahead of the journal.
Behind(height, revision) ==
    /\ height <= journal.height
    /\ height = journal.height => revision <= journal.revision

\* The votes in a controller's memory are stored; all of the record is, while
\* the controller's revision is in force.
MemoryIsStored(c) ==
    /\ Behind(c.height, c.revision)
    /\ \A x \in Slots : c.mem.votes[x] # None =>
          journal.records[c.height].votes[x] = c.mem.votes[x]
    /\ InForce(c.height, c.revision) => c.mem = journal.records[c.height]

\* What a controller is about to write extends its memory; what it is about to
\* send is in its memory.
WorkIsBacked(c) ==
    /\ c.status \in {"saving", "stopping"} => Extends(c.mem, c.next)
    /\ c.status = "sending" => \A x \in Slots \cap c.outbox : c.mem.votes[x] # None
    /\ c.status = "sending" /\ Commit \in c.outbox => c.mem.mode = "decided"
    /\ c.status = "committing" => c.mem.mode = "decided"

\* A late transaction is harmless if it still wins its compare.
LateWriteIsSafe(t) ==
    /\ Behind(t.height, t.revision)
    /\ InForce(t.height, t.revision) =>
          IF t.commits THEN journal.records[t.height].mode = "decided"
          ELSE Extends(journal.records[t.height], t.record)

IndInv ==
    /\ TypeOK
    /\ \A w \in Writers : ctl[w].status \in Live =>
          MemoryIsStored(ctl[w]) /\ WorkIsBacked(ctl[w])
    /\ \A t \in landing : LateWriteIsSafe(t)
    /\ SentIsDurable
=============================================================================
