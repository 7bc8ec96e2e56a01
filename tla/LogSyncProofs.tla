--------------------------- MODULE LogSyncProofs ---------------------------
(***************************************************************************)
(* Proofs about LogSync, for any number of replicas, any bounds and any    *)
(* troubles: what submit() answered is true, a commit held during a repair *)
(* is applied, and the replicas together implement the certified log.      *)
(*                                                                         *)
(* The argument: whatever an operation does, the record it works on stays  *)
(* a cut of the chain with verdicts that agree with the chain (Fits), and  *)
(* no message speaks of more than the chain has.  That is shown once for   *)
(* every helper that the handlers are built from, and once for installing  *)
(* the outcome.                                                            *)
(***************************************************************************)
EXTENDS LogSync, SequenceTheorems, WellFoundedInduction, TLAPS

Modes == {"down", "running", "repairing"}
Answers == {"none", "pending", "ok", "renewed", "unknown"}
SyncRecord == [from : Nat, age : Nat]
Keys == {"sync", "snapshot", "snapshot-response", "future-commit"} \X Nat
Spent == [age : Nat, seen : SUBSET Keys]

\* The messages about a chain of n values.
Messages(n) ==
  [t : {"COMMIT"}, at : 0..n] \cup {m \in [t : {"SYNC_RES"}, at : Nat, to : 0..n] : m.at <= m.to + 1}
    \cup [t : {"HEARTBEAT", "SYNC_REQ", "SNAPSHOT_REQ", "SNAPSHOT_RES"}, at : Nat]

\* What an operation of a replica works on.
Local(n) ==
  [log : Seq(Values), retained : BOOLEAN, mode : Modes, held : BOOLEAN, asked : BOOLEAN,
   sync : SyncRecord, verdict : [Heights -> Answers], out : Seq(Messages(n)), work : Spent]

Cut(s, c) == Len(s) <= Len(c) /\ \A i \in 1..Len(s) : s[i] = c[i]

\* A replica that has a cut of the chain, waits for a certified entry when it
\* is halted or holds a commit, and answered its user according to the chain.
Fits(r, me, c) ==
  /\ me \in Local(Len(c))
  /\ Cut(me.log, c)
  /\ me.retained => Len(me.log) < Len(c)
  /\ me.held => Len(me.log) < Len(c) /\ me.mode = "repairing"
  /\ \A h \in Heights :
       /\ me.verdict[h] = "ok" => h <= Len(c) /\ c[h] = r
       /\ me.verdict[h] = "renewed" => h <= Len(c) /\ c[h] # r
       /\ me.verdict[h] = "pending" => me.mode # "down" /\ h = Len(me.log) + 1

Typed ==
  /\ chain \in Seq(Values)
  /\ log \in [Replicas -> Seq(Values)]
  /\ retained \in [Replicas -> BOOLEAN]
  /\ mode \in [Replicas -> Modes]
  /\ held \in [Replicas -> BOOLEAN]
  /\ asked \in [Replicas -> BOOLEAN]
  /\ sync \in [Replicas -> SyncRecord]
  /\ verdict \in [Replicas -> [Heights -> Answers]]
  /\ budget \in [Links -> Spent]
  /\ link \in [Links -> Seq(Messages(Len(chain)))]

Inv == Typed /\ \A r \in Replicas : Fits(r, Me(r), chain)

\* What a step does: it keeps the invariant, applies what was held, and is a
\* step of the certified log.
Applied ==
  \A r \in Replicas :
    mode[r] = "repairing" /\ held[r] /\ mode'[r] = "running"
      => Len(log'[r]) > Len(log[r]) \/ retained'[r]
Good == Inv' /\ Applied /\ (Certified!Next \/ UNCHANGED <<chain, log>>)

-----------------------------------------------------------------------------
(***************************************************************************)
(* The helpers of the handlers.                                            *)
(***************************************************************************)

\* Saying something changes nothing else.
LEMMA SayLocal ==
  ASSUME NEW n \in Nat, NEW me \in Local(n), NEW m \in Messages(n)
  PROVE  /\ Say(me, m) \in Local(n)
         /\ Say(me, m).log = me.log /\ Say(me, m).retained = me.retained
         /\ Say(me, m).mode = me.mode /\ Say(me, m).held = me.held
         /\ Say(me, m).verdict = me.verdict /\ Say(me, m).work = me.work
<1>1. me.out \in Seq(Messages(n))
  BY DEF Local
<1>2. Append(me.out, m) \in Seq(Messages(n))
  BY <1>1, AppendProperties
<1> DEFINE o == Append(me.out, m)
<1>3. Say(me, m) = [me EXCEPT !.out = o]
  BY DEF Say
<1>4. o \in Seq(Messages(n))
  BY <1>2
<1> HIDE DEF o
<1> QED
  BY <1>3, <1>4 DEF Local

LEMMA SayFits ==
  ASSUME NEW r, NEW me, NEW c, Len(c) \in Nat, Fits(r, me, c), NEW m \in Messages(Len(c))
  PROVE  /\ Fits(r, Say(me, m), c)
         /\ Say(me, m).log = me.log /\ Say(me, m).retained = me.retained
         /\ Say(me, m).mode = me.mode /\ Say(me, m).held = me.held
         /\ Say(me, m).verdict = me.verdict /\ Say(me, m).work = me.work
BY SayLocal DEF Fits

\* Asking for what is missing.
LEMMA RequestFits ==
  ASSUME NEW r, NEW me, NEW c, Len(c) \in Nat, Fits(r, me, c)
  PROVE  /\ Fits(r, requestSync(r, me), c)
         /\ requestSync(r, me).log = me.log /\ requestSync(r, me).retained = me.retained
         /\ requestSync(r, me).mode = me.mode
<1> DEFINE from == Len(me.log) + 1
           said == Say(me, Msg("SYNC_REQ", from))
           asks == [said EXCEPT !.sync = [from |-> from, age |-> 0]]
<1>1. from \in Nat
  BY DEF Fits, Local
<1>2. Msg("SYNC_REQ", from) \in Messages(Len(c)) /\ [from |-> from, age |-> 0] \in SyncRecord
  BY <1>1 DEF Msg, Messages, SyncRecord
<1>3. /\ Fits(r, said, c) /\ said.log = me.log /\ said.retained = me.retained
      /\ said.mode = me.mode
  BY <1>2, SayFits
<1>4. requestSync(r, me) \in {me, asks}
  BY DEF requestSync
<1> HIDE DEF said, from
<1>5. /\ asks \in Local(Len(c)) /\ asks.log = said.log /\ asks.retained = said.retained
      /\ asks.mode = said.mode /\ asks.held = said.held /\ asks.verdict = said.verdict
  BY <1>2, <1>3 DEF Fits, Local
<1>6. Fits(r, asks, c)
  BY <1>3, <1>5 DEF Fits
<1> QED
  BY <1>3, <1>4, <1>5, <1>6

\* Entering the repair of the derived state.
LEMMA EnterFits ==
  ASSUME NEW r, NEW me, NEW c, Len(c) \in Nat, Fits(r, me, c)
  PROVE  /\ Fits(r, enterDerivedRepair(me), c)
         /\ enterDerivedRepair(me).log = me.log
         /\ enterDerivedRepair(me).mode = "repairing"
<1> DEFINE said == Say(me, Msg("SNAPSHOT_REQ", Len(me.log)))
           in == enterDerivedRepair(me)
<1>1. Msg("SNAPSHOT_REQ", Len(me.log)) \in Messages(Len(c))
  BY DEF Msg, Messages, Fits, Local
<1>2. Fits(r, said, c) /\ said.log = me.log
  BY <1>1, SayFits
<1>3. in = [said EXCEPT !.mode = "repairing", !.held = FALSE, !.asked = TRUE]
  BY DEF enterDerivedRepair
<1> HIDE DEF said, in
<1>4. /\ in \in Local(Len(c)) /\ in.log = said.log /\ in.retained = said.retained
      /\ in.mode = "repairing" /\ in.held = FALSE /\ in.verdict = said.verdict
  BY <1>2, <1>3 DEF Fits, Local, Modes
<1>5. Fits(r, in, c) /\ in.log = me.log /\ in.mode = "repairing"
  BY <1>2, <1>4 DEF Fits
<1> QED
  BY <1>5 DEF in

\* Committing the next value of the chain answers the command bound to it.
LEMMA PersistFits ==
  ASSUME NEW r, NEW me, NEW c \in Seq(Values), Fits(r, me, c), me.mode = "running",
         Len(me.log) < Len(c)
  PROVE  LET after == persistCommit(r, me, c[Len(me.log) + 1]) IN
         /\ Fits(r, after, c)
         /\ Len(after.log) = Len(me.log) + 1
         /\ after.mode = "running"
<1> DEFINE v == c[Len(me.log) + 1]
           h == Len(me.log) + 1
           l == Append(me.log, v)
           s == IF h >= me.sync.from THEN NoSync ELSE me.sync
           ans == settlePending(r, me, v)
           it == [me EXCEPT !.log = l, !.retained = FALSE, !.sync = s, !.verdict = ans]
<1>1. /\ Len(c) \in Nat /\ me \in Local(Len(c)) /\ me.log \in Seq(Values) /\ Len(me.log) \in Nat
      /\ h \in 1..Len(c) /\ v \in Values /\ Cut(me.log, c) /\ me.held = FALSE
  BY DEF Fits, Local
<1>2. /\ l \in Seq(Values) /\ Len(l) = h /\ l[h] = v
      /\ \A i \in 1..Len(me.log) : l[i] = me.log[i]
  BY <1>1
<1>3. s \in SyncRecord
  BY <1>1, LogSyncAssumption DEF NoSync, SyncRecord, Local
<1>4. /\ ans \in [Heights -> Answers]
      /\ \A k \in Heights : ans[k] = IF me.verdict[k] # "pending" THEN me.verdict[k]
                                     ELSE IF v = r THEN "ok" ELSE "renewed"
  <2>1. me.verdict \in [Heights -> Answers]
    BY <1>1 DEF Local
  <2> QED
    BY <2>1 DEF settlePending, Answers
<1>5. Cut(l, c)
  BY <1>1, <1>2 DEF Cut
<1>6. Msg("COMMIT", h) \in Messages(Len(c))
  BY <1>1 DEF Msg, Messages
<1>7. persistCommit(r, me, v) = Say(it, Msg("COMMIT", h))
  BY DEF persistCommit
<1>8. v = c[h]
  OBVIOUS
<1> HIDE DEF l, s, ans, v, h
<1>9. /\ it \in Local(Len(c)) /\ it.log = l /\ it.retained = FALSE /\ it.mode = me.mode
      /\ it.held = FALSE /\ it.verdict = ans
  BY <1>1, <1>2, <1>3, <1>4 DEF Local
<1> HIDE DEF it
<1>10. ASSUME NEW k \in Heights
       PROVE  /\ ans[k] = "ok" => k <= Len(c) /\ c[k] = r
              /\ ans[k] = "renewed" => k <= Len(c) /\ c[k] # r
              /\ ans[k] # "pending"
  <2>1. CASE me.verdict[k] = "pending"
    <3>1. k = h
      BY <2>1 DEF Fits, h
    <3> QED
      BY <2>1, <3>1, <1>1, <1>4, <1>8
  <2>2. CASE me.verdict[k] # "pending"
    BY <2>2, <1>4 DEF Fits
  <2> QED
    BY <2>1, <2>2
<1>11. Fits(r, it, c)
  BY <1>5, <1>9, <1>10 DEF Fits
<1> QED
  BY <1>1, <1>2, <1>6, <1>7, <1>9, <1>11, SayFits DEF v, h

\* A certified entry at the next height, whatever the controller finds.
LEMMA DispatchFits ==
  ASSUME NEW r, NEW me, NEW c \in Seq(Values), Fits(r, me, c), me.mode = "running",
         Len(me.log) < Len(c), NEW v, v = c[Len(me.log) + 1], NEW fault
  PROVE  /\ Fits(r, dispatchCommit(r, me, v, fault), c)
         /\ Len(dispatchCommit(r, me, v, fault).log) >= Len(me.log)
         /\ fault = "none" => /\ dispatchCommit(r, me, v, fault).mode = "running"
                              /\ \/ dispatchCommit(r, me, v, fault).retained
                                 \/ Len(dispatchCommit(r, me, v, fault).log) > Len(me.log)
<1>1. Len(c) \in Nat /\ me \in Local(Len(c)) /\ Len(me.log) \in Nat
  BY DEF Fits, Local
<1>2. CASE fault = "context"
  <2> DEFINE in == enterDerivedRepair(me)
             it == [in EXCEPT !.held = TRUE]
  <2>1. dispatchCommit(r, me, v, fault) = it
    BY <1>2 DEF dispatchCommit
  <2>2. Fits(r, in, c) /\ in.log = me.log /\ in.mode = "repairing"
    BY <1>1, EnterFits
  <2> HIDE DEF in
  <2>3. /\ it \in Local(Len(c)) /\ it.log = in.log /\ it.retained = in.retained
        /\ it.mode = in.mode /\ it.held = TRUE /\ it.verdict = in.verdict
    BY <2>2 DEF Fits, Local
  <2> HIDE DEF it
  <2>4. Fits(r, it, c)
    BY <2>2, <2>3 DEF Fits
  <2> QED
    BY <1>1, <1>2, <2>1, <2>2, <2>3, <2>4
<1>3. CASE fault = "validation"
  <2> DEFINE stop == [me EXCEPT !.retained = TRUE]
             m == Msg("SNAPSHOT_REQ", Len(me.log))
  <2>1. dispatchCommit(r, me, v, fault) \in {me, Say(stop, m)}
    BY <1>3 DEF dispatchCommit
  <2>2. /\ stop \in Local(Len(c)) /\ stop.log = me.log /\ stop.retained = TRUE
        /\ stop.mode = me.mode /\ stop.held = me.held /\ stop.verdict = me.verdict
    BY <1>1 DEF Local
  <2>3. m \in Messages(Len(c))
    BY <1>1 DEF Msg, Messages
  <2> HIDE DEF stop, m
  <2>4. Fits(r, stop, c)
    BY <2>2 DEF Fits
  <2>5. Fits(r, Say(stop, m), c) /\ Say(stop, m).log = me.log
    BY <1>1, <2>2, <2>3, <2>4, SayFits
  <2> QED
    BY <1>1, <1>3, <2>1, <2>5
<1>4. CASE fault # "context" /\ fault # "validation"
  <2>1. dispatchCommit(r, me, v, fault) = IF me.retained THEN me ELSE persistCommit(r, me, v)
    BY <1>4 DEF dispatchCommit
  <2> QED
    BY <1>1, <2>1, PersistFits
<1> QED
  BY <1>2, <1>3, <1>4

\* The budget of a peer stays a budget.
LEMMA AdmittedType ==
  ASSUME NEW work \in Spent, NEW key \in Keys
  PROVE  Admitted(work, key) \in Spent
<1> DEFINE w == Current(work)
<1>1. w \in Spent
  BY DEF Current, Spent
<1> HIDE DEF w
<1>2. [w EXCEPT !.seen = @ \cup {key}] \in Spent
  BY <1>1 DEF Spent
<1> QED
  BY <1>1, <1>2 DEF Admitted, w

\* Spending changes nothing else.
LEMMA SpendFits ==
  ASSUME NEW r, NEW me, NEW c, Len(c) \in Nat, Fits(r, me, c), NEW key \in Keys,
         NEW it, it = [me EXCEPT !.work = Admitted(@, key)]
  PROVE  /\ Fits(r, it, c)
         /\ it.log = me.log /\ it.mode = me.mode /\ it.held = me.held /\ it.retained = me.retained
<1> DEFINE w == Admitted(me.work, key)
<1>1. me \in Local(Len(c)) /\ w \in Spent
  BY AdmittedType DEF Fits, Local
<1>2. it = [me EXCEPT !.work = w]
  OBVIOUS
<1> HIDE DEF w
<1>3. /\ it \in Local(Len(c)) /\ it.log = me.log /\ it.retained = me.retained
      /\ it.mode = me.mode /\ it.held = me.held /\ it.verdict = me.verdict
  BY <1>1, <1>2 DEF Local
<1> QED
  BY <1>3 DEF Fits

\* A certified entry, at whatever height it is.
LEMMA AcceptFits ==
  ASSUME NEW r, NEW me, chain \in Seq(Values), Fits(r, me, chain),
         NEW h \in Nat, h <= Len(chain), NEW fault
  PROVE  /\ Fits(r, acceptCertified(r, me, h, fault), chain)
         /\ Len(acceptCertified(r, me, h, fault).log) >= Len(me.log)
<1>1. Len(chain) \in Nat /\ Len(me.log) \in Nat
  BY DEF Fits, Local
<1>2. CASE me.mode # "running" \/ h <= Len(me.log)
  <2>1. acceptCertified(r, me, h, fault) = me
    BY <1>2 DEF acceptCertified
  <2> QED
    BY <2>1, <1>1
<1>3. CASE me.mode = "running" /\ h = Len(me.log) + 1
  <2>1. acceptCertified(r, me, h, fault) = dispatchCommit(r, me, chain[h], fault)
    BY <1>1, <1>3 DEF acceptCertified
  <2>2. Len(me.log) < Len(chain)
    BY <1>1, <1>3
  <2> QED
    BY <1>3, <2>1, <2>2, DispatchFits
<1>4. CASE me.mode = "running" /\ h > Len(me.log) + 1
  <2> DEFINE spent == [me EXCEPT !.work = Admitted(@, <<"future-commit", h>>)]
  <2>1. acceptCertified(r, me, h, fault) \in {requestSync(r, spent), spent}
    BY <1>1, <1>4 DEF acceptCertified
  <2>2. <<"future-commit", h>> \in Keys
    BY DEF Keys
  <2>3. spent = [me EXCEPT !.work = Admitted(@, <<"future-commit", h>>)]
    OBVIOUS
  <2> HIDE DEF spent
  <2>4. Fits(r, spent, chain) /\ spent.log = me.log
    BY <1>1, <2>2, <2>3, SpendFits
  <2>5. Fits(r, requestSync(r, spent), chain) /\ requestSync(r, spent).log = spent.log
    BY <1>1, <2>4, RequestFits
  <2> QED
    BY <1>1, <2>1, <2>4, <2>5
<1> QED
  BY <1>1, <1>2, <1>3, <1>4

\* The end of a repair of the derived state applies what was held.
LEMMA RepairDerivedFits ==
  ASSUME NEW r, NEW me, chain \in Seq(Values), Fits(r, me, chain)
  PROVE  LET after == repairDerived(r, me) IN
         /\ Fits(r, after, chain)
         /\ Len(after.log) >= Len(me.log)
         /\ me.held => Len(after.log) > Len(me.log) \/ after.retained
<1> DEFINE back == [me EXCEPT !.mode = "running", !.held = FALSE, !.asked = FALSE]
           m == Msg("SNAPSHOT_REQ", Len(back.log))
           halted == IF back.retained THEN Say(back, m) ELSE back
           caught == IF me.held THEN acceptCertified(r, halted, Len(me.log) + 1, "none") ELSE halted
<1>1. Len(chain) \in Nat /\ Len(me.log) \in Nat /\ me \in Local(Len(chain))
  BY DEF Fits, Local
<1>2. /\ back \in Local(Len(chain)) /\ back.log = me.log /\ back.retained = me.retained
      /\ back.mode = "running" /\ back.held = FALSE /\ back.verdict = me.verdict
  BY <1>1 DEF Local, Modes
<1>3. repairDerived(r, me) = requestSync(r, caught)
  BY DEF repairDerived
<1>4. m \in Messages(Len(chain))
  BY <1>1, <1>2 DEF Msg, Messages
<1> HIDE DEF back, m
<1>5. Fits(r, back, chain)
  BY <1>2 DEF Fits
<1>6. Fits(r, halted, chain) /\ halted.log = me.log /\ halted.mode = "running"
  BY <1>1, <1>2, <1>4, <1>5, SayFits
<1> HIDE DEF halted
<1>7. /\ Fits(r, caught, chain) /\ Len(caught.log) >= Len(me.log)
      /\ me.held => Len(caught.log) > Len(me.log) \/ caught.retained
  <2>1. CASE ~me.held
    BY <2>1, <1>1, <1>6
  <2>2. CASE me.held
    <3>1. Len(me.log) < Len(chain)
      BY <2>2 DEF Fits
    <3> DEFINE h == Len(me.log) + 1
    <3>2. caught = dispatchCommit(r, halted, chain[h], "none")
      BY <2>2, <1>1, <1>6 DEF acceptCertified
    <3> QED
      BY <2>2, <3>1, <3>2, <1>1, <1>6, DispatchFits
  <2> QED
    BY <2>1, <2>2
<1> HIDE DEF caught
<1>8. /\ Fits(r, requestSync(r, caught), chain)
      /\ requestSync(r, caught).log = caught.log
      /\ requestSync(r, caught).retained = caught.retained
  BY <1>1, <1>7, RequestFits
<1> QED
  BY <1>3, <1>7, <1>8

\* The end of a halt on a failed validation.
LEMMA RepairHaltedFits ==
  ASSUME NEW r, NEW me, chain \in Seq(Values), Fits(r, me, chain), me.retained,
         me.mode = "running"
  PROVE  /\ Fits(r, repairHalted(r, me), chain)
         /\ Len(repairHalted(r, me).log) >= Len(me.log)
<1> DEFINE it == [me EXCEPT !.retained = FALSE]
<1>1. Len(chain) \in Nat /\ Len(me.log) \in Nat /\ me \in Local(Len(chain))
      /\ Len(me.log) < Len(chain)
  BY DEF Fits, Local
<1>2. /\ it \in Local(Len(chain)) /\ it.log = me.log /\ it.retained = FALSE
      /\ it.mode = "running" /\ it.held = me.held /\ it.verdict = me.verdict
  BY <1>1 DEF Local
<1>3. repairHalted(r, me) = persistCommit(r, it, chain[Len(me.log) + 1])
  BY DEF repairHalted
<1> HIDE DEF it
<1>4. Fits(r, it, chain)
  BY <1>2 DEF Fits
<1> QED
  BY <1>1, <1>2, <1>3, <1>4, PersistFits

\* A pulse.
LEMMA PulseFits ==
  ASSUME NEW r, NEW fault, chain \in Seq(Values), Fits(r, Me(r), chain)
  PROVE  /\ Fits(r, pulse(r, fault), chain) /\ pulse(r, fault).log = log[r]
         /\ mode[r] = "repairing" => pulse(r, fault).mode = "repairing"
<1> DEFINE n == Len(log[r])
           beat == Say(Me(r), Msg("HEARTBEAT", n))
           halted == IF retained[r] THEN Say(beat, Msg("SNAPSHOT_REQ", n)) ELSE beat
           ask == [Me(r) EXCEPT !.asked = TRUE]
<1>1. /\ Len(chain) \in Nat /\ Me(r) \in Local(Len(chain)) /\ Me(r).log = log[r] /\ n \in Nat
  BY DEF Fits, Local, Me, MeWith
<1>2. Msg("HEARTBEAT", n) \in Messages(Len(chain)) /\ Msg("SNAPSHOT_REQ", n) \in Messages(Len(chain))
  BY <1>1 DEF Msg, Messages
<1>3. Fits(r, beat, chain) /\ beat.log = log[r]
  BY <1>1, <1>2, SayFits
<1>4. Fits(r, halted, chain) /\ halted.log = log[r]
  BY <1>1, <1>2, <1>3, SayFits
<1> HIDE DEF halted, beat
<1>5. Fits(r, requestSync(r, halted), chain) /\ requestSync(r, halted).log = log[r]
  BY <1>1, <1>4, RequestFits
<1>6. Fits(r, ask, chain) /\ ask.log = log[r] /\ ask.mode = mode[r]
  <2> DEFINE me == Me(r)
             it == [me EXCEPT !.asked = TRUE]
  <2>1. me \in Local(Len(chain)) /\ me.log = log[r] /\ Fits(r, me, chain) /\ me.mode = mode[r]
    BY <1>1 DEF Me, MeWith
  <2> HIDE DEF me
  <2>2. /\ it \in Local(Len(chain)) /\ it.log = me.log /\ it.retained = me.retained
        /\ it.mode = me.mode /\ it.held = me.held /\ it.verdict = me.verdict
    BY <2>1 DEF Local
  <2>3. Fits(r, it, chain)
    BY <2>1, <2>2 DEF Fits
  <2> QED
    BY <2>1, <2>2, <2>3 DEF me
<1> HIDE DEF ask
<1>7. Fits(r, Say(ask, Msg("SNAPSHOT_REQ", n)), chain)
      /\ Say(ask, Msg("SNAPSHOT_REQ", n)).log = log[r]
      /\ Say(ask, Msg("SNAPSHOT_REQ", n)).mode = mode[r]
  BY <1>1, <1>2, <1>6, SayFits
<1>8. Fits(r, enterDerivedRepair(Me(r)), chain) /\ enterDerivedRepair(Me(r)).log = log[r]
  BY <1>1, EnterFits
<1>9. pulse(r, fault) \in {Me(r), Say(ask, Msg("SNAPSHOT_REQ", n)), enterDerivedRepair(Me(r)),
                           requestSync(r, halted)}
  BY DEF pulse, halted, beat, ask
<1>10. mode[r] = "repairing"
         => pulse(r, fault) \in {Me(r), Say(ask, Msg("SNAPSHOT_REQ", n))}
  BY DEF pulse, ask
<1>11. Me(r).mode = mode[r]
  BY DEF Me, MeWith
<1> QED
  BY <1>1, <1>5, <1>7, <1>8, <1>9, <1>10, <1>11

\* A nonempty set of natural numbers has a least element.
LEMMA LeastExists ==
  ASSUME NEW T, T \subseteq Nat, T # {}
  PROVE  \E x \in T : \A y \in T : x <= y
<1>1. \A x, y \in Nat : x < y => <<x, y>> \in OpToRel(<, Nat)
  BY DEF OpToRel
<1>2. IsWellFoundedOn(OpToRel(<, Nat), Nat)
  BY NatLessThanWellFounded, Zenon
<1>3. PICK R : /\ IsWellFoundedOn(R, Nat)
               /\ \A x, y \in Nat : x < y => <<x, y>> \in R
  BY ONLY <1>1, <1>2, Zenon
<1>4. IsWellFoundedOn(R, Nat)
  BY ONLY <1>3, Zenon
<1>5. \E x \in T : \A y \in T : ~ (<<y, x>> \in R)
  BY ONLY <1>4, T \subseteq Nat, T # {}, WFMin, Zenon
<1>6. PICK x \in T : \A y \in T : ~ (<<y, x>> \in R)
  BY ONLY <1>5, Zenon
<1>7. \A y \in T : ~(y < x)
  BY <1>3, <1>6
<1> QED
  BY <1>7

\* A batch of certified entries, entry by entry.
LEMMA BatchFits ==
  ASSUME NEW r, NEW me, chain \in Seq(Values), Fits(r, me, chain),
         NEW first \in Nat, NEW last \in 0..Len(chain), first <= last + 1, NEW fault
  PROVE  /\ Fits(r, acceptBatch(r, first, last, me, fault), chain)
         /\ Len(acceptBatch(r, first, last, me, fault).log) >= Len(me.log)
<1> DEFINE new == Len(log[r]) + 1
           A(x, h) == acceptCertified(r, x, h, IF h = new THEN fault ELSE "none")
           D(n) == (first - 1)..n
           Steps(f, n) == f = [h \in D(n) |-> IF h < first THEN me ELSE A(f[h - 1], h)]
           after == CHOOSE f : Steps(f, last)
           Fine(x) == Fits(r, x, chain) /\ Len(x.log) >= Len(me.log)
<1>1. Len(chain) \in Nat /\ Len(me.log) \in Nat /\ last \in Nat
  BY DEF Fits, Local
<1>2. acceptBatch(r, first, last, me, fault) = after[last]
  BY DEF acceptBatch
<1>3. ASSUME NEW x, Fine(x), NEW h \in Nat, h <= Len(chain)
      PROVE  Fine(A(x, h))
  <2>1. Len(x.log) \in Nat
    BY <1>3, <1>1 DEF Fits, Local
  <2>2. /\ Fits(r, A(x, h), chain)
        /\ Len(A(x, h).log) >= Len(x.log)
    BY <1>3, AcceptFits
  <2>3. Len(A(x, h).log) \in Nat
    BY <2>2 DEF Fits, Local
  <2> QED
    BY <1>1, <1>3, <2>1, <2>2, <2>3
<1>4. Fine(me)
  BY <1>1
<1> HIDE DEF A, Fine, Steps
<1>5. \E f : Steps(f, last)
  <2> DEFINE T == {k \in Nat : ~ \E f : Steps(f, first - 1 + k)}
             k0 == last + 1 - first
  <2>1. k0 \in Nat /\ first - 1 + k0 = last
    BY <1>1
  <2>2. SUFFICES T = {}
    BY <2>1
  <2>3. SUFFICES ASSUME T # {} PROVE FALSE
    OBVIOUS
  <2>4. T \subseteq Nat
    OBVIOUS
  <2> HIDE DEF T
  <2>5. PICK k \in T : \A j \in T : k <= j
    BY ONLY <2>3, <2>4, LeastExists
  <2>6. k \in Nat
    BY <2>4, <2>5
  <2>7. CASE k = 0
    <3> DEFINE f == [h \in D(first - 1) |-> me]
    <3>1. D(first - 1) = {first - 1}
      OBVIOUS
    <3>2. Steps(f, first - 1)
      BY <3>1 DEF Steps
    <3> HIDE DEF f
    <3>3. first - 1 + k = first - 1
      BY <2>7
    <3> QED
      BY <2>5, <3>2, <3>3 DEF T
  <2>8. CASE k > 0
    <3> DEFINE n == first - 1 + (k - 1)
    <3>1. k - 1 \in Nat /\ k - 1 \notin T
      BY <2>5, <2>6, <2>8
    <3>2. PICK f : Steps(f, n)
      BY <3>1 DEF T
    <3>3. n \in Int /\ n >= first - 1 /\ first - 1 + k = n + 1
      BY <2>6, <2>8
    <3> HIDE DEF n
    <3> DEFINE g == [h \in D(n + 1) |-> IF h <= n THEN f[h] ELSE A(f[n], n + 1)]
    <3>4. ASSUME NEW h \in D(n + 1)
          PROVE  g[h] = IF h < first THEN me ELSE A(g[h - 1], h)
      <4>1. CASE h <= n
        <5>1. h \in D(n) /\ g[h] = f[h]
          BY <3>3, <4>1
        <5>2. f[h] = IF h < first THEN me ELSE A(f[h - 1], h)
          BY <3>2, <5>1 DEF Steps
        <5>3. h >= first => g[h - 1] = f[h - 1]
          BY <3>3, <4>1
        <5> QED
          BY <5>1, <5>2, <5>3
      <4>2. CASE h > n
        <5>1. h = n + 1 /\ ~(h < first) /\ n \in D(n + 1)
          BY <3>3, <4>2
        <5> QED
          BY <3>3, <5>1
      <4> QED
        BY <3>3, <4>1, <4>2
    <3>5. Steps(g, n + 1)
      <4> DEFINE t == [h \in D(n + 1) |-> IF h < first THEN me ELSE A(g[h - 1], h)]
      <4>1. \A h \in D(n + 1) : g[h] = t[h]
        BY <3>4
      <4> QED
        BY <4>1 DEF Steps
    <3> HIDE DEF g
    <3> QED
      BY <2>5, <3>3, <3>5 DEF T
  <2> QED
    BY <2>6, <2>7, <2>8
<1>6. Steps(after, last)
  BY <1>5
<1> HIDE DEF after
<1>7. \A h \in D(last) : after[h] = IF h < first THEN me ELSE A(after[h - 1], h)
  BY <1>6 DEF Steps
<1>8. Fine(after[last])
  <2> DEFINE T == {k \in Nat : first - 1 + k <= last /\ ~Fine(after[first - 1 + k])}
             k0 == last + 1 - first
  <2>1. k0 \in Nat /\ first - 1 + k0 = last
    BY <1>1
  <2>2. k0 \notin T => Fine(after[last])
    BY <2>1, <1>1
  <2> HIDE DEF k0
  <2>3. SUFFICES ASSUME T # {} PROVE FALSE
    BY <2>2
  <2>4. T \subseteq Nat
    OBVIOUS
  <2> HIDE DEF T
  <2>5. PICK k \in T : \A j \in T : k <= j
    BY ONLY <2>3, <2>4, LeastExists
  <2>6. k \in Nat /\ first - 1 + k <= last /\ ~Fine(after[first - 1 + k])
    BY <2>5 DEF T
  <2>7. CASE k = 0
    BY <1>1, <1>4, <1>7, <2>6, <2>7
  <2>8. CASE k > 0
    <3> DEFINE n == first - 1 + (k - 1)
    <3>1. k - 1 \in Nat /\ k - 1 \notin T
      BY <2>5, <2>6, <2>8
    <3>2. /\ n + 1 = first - 1 + k /\ n + 1 \in D(last) /\ ~(n + 1 < first)
          /\ (n + 1) - 1 = n /\ n + 1 \in Nat /\ n + 1 <= Len(chain) /\ n <= last
      BY <1>1, <2>6, <2>8
    <3>3. Fine(after[n])
      BY <3>1, <3>2 DEF T
    <3> HIDE DEF n
    <3>4. after[n + 1] = A(after[n], n + 1)
      BY <1>7, <3>2
    <3>5. Fine(A(after[n], n + 1))
      BY <1>3, <3>2, <3>3
    <3> QED
      BY <2>6, <3>2, <3>4, <3>5
  <2> QED
    BY <2>6, <2>7, <2>8
<1> QED
  BY <1>2, <1>8 DEF Fine

-----------------------------------------------------------------------------
(***************************************************************************)
(* Messages, and the chain that grows.                                     *)
(***************************************************************************)

LEMMA QueuedType ==
  ASSUME NEW S, NEW q \in Seq(S), NEW ms \in Seq(S)
  PROVE  Queued(q, ms) \in Seq(S)
<1> DEFINE all == q \o ms
           n == Min({LinkCapacity, Len(all)})
<1>1. all \in Seq(S) /\ Len(all) \in Nat
  OBVIOUS
<1>2. LinkCapacity \in Nat
  BY LogSyncAssumption
<1> HIDE DEF all
<1>3. n \in 0..Len(all)
  BY <1>1, <1>2 DEF Min
<1> HIDE DEF n
<1>4. SubSeq(all, 1, n) \in Seq(S)
  BY <1>1, <1>3, SubSeqProperties
<1> QED
  BY <1>4 DEF Queued, all, n

LEMMA BroadcastType ==
  ASSUME NEW S, NEW net \in [Links -> Seq(S)], NEW r, NEW ms \in Seq(S)
  PROVE  Broadcast(net, r, ms) \in [Links -> Seq(S)]
<1>1. \A l \in Links : Queued(net[l], ms) \in Seq(S)
  BY QueuedType
<1> QED
  BY <1>1 DEF Broadcast

LEMMA MessagesGrow ==
  ASSUME NEW n \in Nat, NEW m \in Nat, n <= m
  PROVE  Messages(n) \subseteq Messages(m) /\ Local(n) \subseteq Local(m)
<1>1. Messages(n) \subseteq Messages(m)
  <2> SUFFICES ASSUME NEW x \in Messages(n) PROVE x \in Messages(m)
    OBVIOUS
  <2>1. 0..n \subseteq 0..m
    OBVIOUS
  <2> QED
    BY <2>1 DEF Messages
<1> HIDE DEF Messages
<1>2. Seq(Messages(n)) \subseteq Seq(Messages(m))
  BY <1>1
<1> QED
  BY <1>1, <1>2 DEF Local

\* What fits the chain fits the longer one.
LEMMA FitsGrows ==
  ASSUME NEW r, NEW me, NEW c \in Seq(Values), NEW v \in Values, Fits(r, me, c)
  PROVE  Fits(r, me, Append(c, v))
<1> DEFINE d == Append(c, v)
<1>1. /\ d \in Seq(Values) /\ Len(c) \in Nat /\ Len(d) = Len(c) + 1 /\ Len(d) \in Nat
      /\ \A i \in 1..Len(c) : d[i] = c[i]
  OBVIOUS
<1> HIDE DEF d
<1>2. me \in Local(Len(c)) /\ me \in Local(Len(d)) /\ Len(me.log) \in Nat
  <2>1. Local(Len(c)) \subseteq Local(Len(d))
    BY <1>1, MessagesGrow
  <2> QED
    BY <2>1 DEF Fits, Local
<1>3. Cut(me.log, d)
  BY <1>1, <1>2 DEF Fits, Cut
<1>4. ASSUME NEW h \in Heights, h <= Len(c)
      PROVE  h <= Len(d) /\ d[h] = c[h]
  BY <1>1, <1>4 DEF Heights
<1>5. \A h \in Heights :
        /\ me.verdict[h] = "ok" => h <= Len(d) /\ d[h] = r
        /\ me.verdict[h] = "renewed" => h <= Len(d) /\ d[h] # r
        /\ me.verdict[h] = "pending" => me.mode # "down" /\ h = Len(me.log) + 1
  BY <1>4 DEF Fits
<1>6. /\ me.retained => Len(me.log) < Len(d)
      /\ me.held => Len(me.log) < Len(d) /\ me.mode = "repairing"
  BY <1>1, <1>2 DEF Fits
<1> QED
  BY <1>2, <1>3, <1>5, <1>6 DEF Fits, d

\* What fits does so whatever was said, asked and spent.
LEMMA FitsSame ==
  ASSUME NEW r, NEW me, NEW x, NEW c, Fits(r, me, c), x \in Local(Len(c)),
         x.log = me.log, x.retained = me.retained, x.mode = me.mode, x.held = me.held,
         x.verdict = me.verdict
  PROVE  Fits(r, x, c)
BY DEF Fits

-----------------------------------------------------------------------------
(***************************************************************************)
(* Installing an outcome.                                                  *)
(***************************************************************************)

ChainStep == chain' = chain \/ \E v \in Values : chain' = Append(chain, v)

\* A step that changes one replica.
LEMMA OneStep ==
  ASSUME Inv, NEW r \in Replicas, ChainStep, Typed', Fits(r, Me(r), chain)',
         \A q \in Replicas \ {r} :
           /\ log'[q] = log[q] /\ retained'[q] = retained[q] /\ mode'[q] = mode[q]
           /\ held'[q] = held[q] /\ verdict'[q] = verdict[q],
         Len(log'[r]) >= Len(log[r]),
         mode[r] = "repairing" /\ held[r] /\ mode'[r] = "running"
           => Len(log'[r]) > Len(log[r]) \/ retained'[r]
  PROVE  Good
<1>1. \A q \in Replicas : Fits(q, Me(q), chain)'
  <2> SUFFICES ASSUME NEW q \in Replicas, q # r PROVE Fits(q, Me(q), chain)'
    OBVIOUS
  <2>1. Fits(q, Me(q), chain) /\ chain \in Seq(Values)
    BY DEF Inv, Typed
  <2> DEFINE me == Me(q)
             x == [log |-> log'[q], retained |-> retained'[q], mode |-> mode'[q],
                   held |-> held'[q], asked |-> asked'[q], sync |-> sync'[q],
                   verdict |-> verdict'[q], out |-> <<>>, work |-> NoWork]
             c == chain'
  <2>2. Fits(q, me, c)
    BY <2>1, FitsGrows DEF ChainStep
  <2>3. me.log = log[q] /\ me.retained = retained[q] /\ me.mode = mode[q]
        /\ me.held = held[q] /\ me.verdict = verdict[q]
    BY DEF Me, MeWith
  <2> HIDE DEF me
  <2>4. NoWork \in Spent /\ <<>> \in Seq(Messages(Len(c)))
    BY LogSyncAssumption DEF NoWork, Spent
  <2>5. x \in Local(Len(c))
    BY <2>4 DEF Typed, Local
  <2>6. /\ x.log = me.log /\ x.retained = me.retained /\ x.mode = me.mode /\ x.held = me.held
        /\ x.verdict = me.verdict
    BY <2>3
  <2> HIDE DEF x
  <2>7. Fits(q, x, c)
    BY <2>2, <2>5, <2>6, FitsSame
  <2> QED
    BY <2>7 DEF Fits, Me, MeWith, x
<1>2. Applied
  BY DEF Applied
<1>3. Certified!Next
  <2> DEFINE n == Len(log'[r])
             l == log'[r]
  <2>1. l \in Seq(Values) /\ Len(l) \in Nat /\ Cut(l, chain') /\ chain' \in Seq(Values)
    BY DEF Fits, Me, MeWith, Typed
  <2>2. l = SubSeq(chain', 1, n)
    <3> DEFINE c == chain'
               p == SubSeq(c, 1, n)
    <3>1. n \in 0..Len(c)
      BY <2>1 DEF Cut
    <3>2. p \in Seq(Values) /\ Len(p) = n /\ \A i \in 1..n : p[i] = c[i]
      BY <2>1, <3>1, SubSeqProperties
    <3> HIDE DEF p
    <3> DEFINE k == l
    <3>3. k \in Seq(Values) /\ Len(k) = n /\ \A i \in 1..n : k[i] = p[i]
      BY <2>1, <3>2 DEF Cut
    <3> QED
      BY <3>2, <3>3, SeqEqual DEF p
  <2>3. log' = [log EXCEPT ![r] = l]
    BY DEF Inv, Typed
  <2>4. n \in Len(log[r])..Len(chain')
    BY <2>1 DEF Cut, Inv, Typed
  <2>5. Certified!Learn(r)
    BY <2>2, <2>3, <2>4 DEF Certified!Learn
  <2> QED
    BY <2>5 DEF Certified!Next, Certified!Certify, ChainStep
<1> QED
  BY <1>1, <1>2, <1>3 DEF Good, Inv

\* Installing an outcome that fits.
LEMMA InstallStep ==
  ASSUME Inv, NEW r \in Replicas, NEW me, NEW net \in [Links -> Seq(Messages(Len(chain)))],
         Install(r, me, net), ChainStep, Fits(r, me, chain'),
         Len(me.log) >= Len(log[r]), budget' \in [Links -> Spent],
         mode[r] = "repairing" /\ held[r] /\ me.mode = "running"
           => Len(me.log) > Len(log[r]) \/ me.retained
  PROVE  Good
<1> DEFINE c == chain'
<1>1. /\ chain \in Seq(Values) /\ c \in Seq(Values) /\ Len(c) \in Nat /\ Len(chain) \in Nat
      /\ Len(chain) <= Len(c)
  <2>1. chain \in Seq(Values)
    BY DEF Inv, Typed
  <2>2. ASSUME NEW v \in Values
        PROVE  Append(chain, v) \in Seq(Values) /\ Len(Append(chain, v)) = Len(chain) + 1
    BY <2>1
  <2>3. Len(chain) \in Nat
    BY <2>1
  <2>4. CASE c = chain
    BY <2>1, <2>3, <2>4
  <2>5. CASE \E v \in Values : c = Append(chain, v)
    BY <2>1, <2>2, <2>3, <2>5
  <2> QED
    BY <2>4, <2>5 DEF ChainStep
<1>2. me \in Local(Len(c)) /\ net \in [Links -> Seq(Messages(Len(c)))]
  <2>1. Messages(Len(chain)) \subseteq Messages(Len(c))
    BY <1>1, MessagesGrow
  <2>2. Seq(Messages(Len(chain))) \subseteq Seq(Messages(Len(c)))
    BY <2>1
  <2> QED
    BY <2>2 DEF Fits
<1>3. link' \in [Links -> Seq(Messages(Len(c)))]
  <2>1. me.out \in Seq(Messages(Len(c)))
    BY <1>2 DEF Local
  <2> QED
    BY <1>2, <2>1, BroadcastType DEF Install
<1>4. /\ log' = [log EXCEPT ![r] = me.log]
      /\ retained' = [retained EXCEPT ![r] = me.retained]
      /\ mode' = [mode EXCEPT ![r] = me.mode]
      /\ held' = [held EXCEPT ![r] = me.held]
      /\ asked' = [asked EXCEPT ![r] = me.asked]
      /\ sync' = [sync EXCEPT ![r] = me.sync]
      /\ verdict' = [verdict EXCEPT ![r] = me.verdict]
  BY DEF Install
<1>5. /\ me.log \in Seq(Values) /\ me.retained \in BOOLEAN /\ me.mode \in Modes
      /\ me.held \in BOOLEAN /\ me.asked \in BOOLEAN /\ me.sync \in SyncRecord
      /\ me.verdict \in [Heights -> Answers]
  BY <1>2 DEF Local
<1>6. Typed'
  BY <1>1, <1>3, <1>4, <1>5 DEF Typed, Inv
<1>7. /\ log'[r] = me.log /\ retained'[r] = me.retained /\ mode'[r] = me.mode
      /\ held'[r] = me.held /\ verdict'[r] = me.verdict
      /\ asked'[r] = me.asked /\ sync'[r] = me.sync
  BY <1>4 DEF Typed, Inv
<1>8. Fits(r, Me(r), chain)'
  <2> DEFINE x == [log |-> me.log, retained |-> me.retained, mode |-> me.mode,
                   held |-> me.held, asked |-> me.asked, sync |-> me.sync,
                   verdict |-> me.verdict, out |-> <<>>, work |-> NoWork]
  <2>1. NoWork \in Spent /\ <<>> \in Seq(Messages(Len(c)))
    BY LogSyncAssumption DEF NoWork, Spent
  <2>2. x \in Local(Len(c))
    BY <1>5, <2>1 DEF Local
  <2>3. /\ x.log = me.log /\ x.retained = me.retained /\ x.mode = me.mode /\ x.held = me.held
        /\ x.verdict = me.verdict
    OBVIOUS
  <2> HIDE DEF x
  <2>4. Fits(r, x, c)
    BY <2>2, <2>3, FitsSame
  <2>5. x = Me(r)'
    BY <1>7 DEF x, Me, MeWith
  <2> QED
    BY <2>4, <2>5 DEF Fits
<1>9. \A q \in Replicas \ {r} :
        /\ log'[q] = log[q] /\ retained'[q] = retained[q] /\ mode'[q] = mode[q]
        /\ held'[q] = held[q] /\ verdict'[q] = verdict[q]
  BY <1>4 DEF Typed, Inv
<1> QED
  BY <1>6, <1>7, <1>8, <1>9, OneStep

\* A step that changes nothing of a replica but its timers, and that does not
\* bring one back from a repair.
LEMMA SameStep ==
  ASSUME Inv, Typed',
         UNCHANGED <<chain, log, retained, mode, held, verdict>>
  PROVE  Good
<1>1. ASSUME NEW q \in Replicas
      PROVE  Fits(q, Me(q), chain)'
  <2> DEFINE me == Me(q)
             x == [log |-> log[q], retained |-> retained[q], mode |-> mode[q],
                   held |-> held[q], asked |-> asked'[q], sync |-> sync'[q],
                   verdict |-> verdict[q], out |-> <<>>, work |-> NoWork]
  <2>1. Fits(q, me, chain)
    BY DEF Inv
  <2>2. me.log = log[q] /\ me.retained = retained[q] /\ me.mode = mode[q]
        /\ me.held = held[q] /\ me.verdict = verdict[q]
    BY DEF Me, MeWith
  <2>3. NoWork \in Spent /\ <<>> \in Seq(Messages(Len(chain)))
    BY LogSyncAssumption DEF NoWork, Spent
  <2>4. x \in Local(Len(chain))
    BY <2>3 DEF Inv, Typed, Local
  <2>5. x.log = me.log /\ x.retained = me.retained /\ x.mode = me.mode /\ x.held = me.held
        /\ x.verdict = me.verdict
    BY <2>2
  <2>6. x = Me(q)'
    BY DEF Me, MeWith
  <2> HIDE DEF x, me
  <2>7. Fits(q, x, chain)
    BY <2>1, <2>4, <2>5, FitsSame
  <2> QED
    BY <2>6, <2>7 DEF Fits
<1>2. Applied
  BY DEF Applied, Inv, Typed, Modes
<1> QED
  BY <1>1, <1>2 DEF Good, Inv

-----------------------------------------------------------------------------
(***************************************************************************)
(* The messages that arrive.                                               *)
(***************************************************************************)

\* The message at the head of a queue, and the queue without it.
LEMMA ArrivalType ==
  ASSUME Inv, NEW l \in Links, NEW from, NEW r, l = <<from, r>>, link[<<from, r>>] # <<>>
  PROVE  /\ Arrived(from, r) \in Messages(Len(chain))
         /\ Taken(from, r) \in [Links -> Seq(Messages(Len(chain)))]
         /\ from \in Replicas /\ r \in Replicas /\ budget[<<from, r>>] \in Spent
<1> DEFINE M == Messages(Len(chain))
<1>1. link \in [Links -> Seq(M)] /\ budget \in [Links -> Spent]
  BY DEF Inv, Typed
<1> HIDE DEF M
<1>2. link[l] \in Seq(M) /\ link[l] # <<>>
  BY <1>1
<1>3. Head(link[l]) \in M /\ Tail(link[l]) \in Seq(M)
  BY <1>2
<1> QED
  BY <1>1, <1>3 DEF Arrived, Taken, M, Links

\* What the operation starts from, with the budget of the sender.
LEMMA ForFits ==
  ASSUME Inv, NEW r \in Replicas, NEW from, budget[<<from, r>>] \in Spent
  PROVE  /\ Fits(r, MeFor(r, from), chain)
         /\ MeFor(r, from).log = log[r] /\ MeFor(r, from).mode = mode[r]
         /\ MeFor(r, from).held = held[r] /\ MeFor(r, from).retained = retained[r]
<1> DEFINE me == Me(r)
           x == MeFor(r, from)
<1>1. Fits(r, me, chain)
  BY DEF Inv
<1>2. x \in Local(Len(chain))
  <2>1. <<>> \in Seq(Messages(Len(chain)))
    OBVIOUS
  <2> QED
    BY <2>1 DEF Inv, Typed, MeFor, MeWith, Local
<1>3. x.log = me.log /\ x.retained = me.retained /\ x.mode = me.mode /\ x.held = me.held
      /\ x.verdict = me.verdict
  BY DEF Me, MeFor, MeWith
<1> HIDE DEF me, x
<1>4. Fits(r, x, chain)
  BY <1>1, <1>2, <1>3, FitsSame
<1> QED
  BY <1>4 DEF x, MeFor, MeWith

\* A handled message: what the handler makes of the replica fits.
LEMMA HandledStep ==
  ASSUME Inv, NEW l \in Links, NEW from, NEW r, l = <<from, r>>, link[<<from, r>>] # <<>>,
         NEW me, Handled(r, from, me), UNCHANGED chain, Fits(r, me, chain),
         Len(me.log) >= Len(log[r]),
         mode[r] = "repairing" /\ held[r] /\ me.mode = "running"
           => Len(me.log) > Len(log[r]) \/ me.retained
  PROVE  Good
<1> DEFINE net == Taken(from, r)
<1>1. net \in [Links -> Seq(Messages(Len(chain)))] /\ r \in Replicas
  BY ArrivalType
<1>2. me.work \in Spent
  BY DEF Fits, Local
<1>3. budget' \in [Links -> Spent]
  BY <1>2 DEF Handled, Inv, Typed
<1>4. Install(r, me, net)
  BY DEF Handled
<1> HIDE DEF net
<1> QED
  BY <1>1, <1>3, <1>4, InstallStep DEF ChainStep

\* An answered request changes no replica.
LEMMA AnsweredStep ==
  ASSUME Inv, NEW l \in Links, NEW from, NEW r, l = <<from, r>>, link[<<from, r>>] # <<>>,
         NEW key \in Keys, NEW answer \in Seq(Messages(Len(chain))),
         Answered(r, from, key, answer)
  PROVE  Good
<1> DEFINE M == Messages(Len(chain))
           net == Taken(from, r)
           w == Admitted(budget[<<from, r>>], key)
           back == <<r, from>>
<1>1. net \in [Links -> Seq(M)] /\ budget[<<from, r>>] \in Spent
  BY ArrivalType
<1>2. w \in Spent
  BY <1>1, AdmittedType
<1>3. budget' = [budget EXCEPT ![<<from, r>>] = w]
      /\ link' = [net EXCEPT ![back] = IF Admits(budget[<<from, r>>], key)
                                       THEN Queued(@, answer) ELSE @]
      /\ UNCHANGED <<chain, log, retained, mode, held, asked, sync, pulseDue, verdict>>
  BY DEF Answered
<1> HIDE DEF M, net, w
<1>4. back \in Links
  BY DEF Links
<1>5. Queued(net[back], answer) \in Seq(M)
  BY <1>1, <1>4, QueuedType DEF M
<1> HIDE DEF back
<1>6. link' \in [Links -> Seq(M)]
  BY <1>1, <1>3, <1>4, <1>5
<1>7. budget' \in [Links -> Spent]
  BY <1>2, <1>3 DEF Inv, Typed
<1>8. Typed'
  BY <1>3, <1>6, <1>7 DEF Inv, Typed, M
<1> QED
  BY <1>3, <1>8, SameStep

\* What a message of each type says.
LEMMA MessageSays ==
  ASSUME NEW n \in Nat, NEW m \in Messages(n)
  PROVE  /\ m.at \in Nat
         /\ m.t = "COMMIT" => m.at <= n
         /\ m.t = "SYNC_RES" => m.to \in 0..n /\ m.at <= m.to + 1
BY DEF Messages

LEMMA ArrivesIn ==
  ASSUME Inv, NEW l \in Links, NEW from, NEW r, l = <<from, r>>, NEW t, NEW m,
         Arrives(from, r, t, m)
  PROVE  /\ link[<<from, r>>] # <<>> /\ mode[r] = m /\ Arrived(from, r).t = t
         /\ Arrived(from, r).at \in Nat
         /\ t = "COMMIT" => Arrived(from, r).at <= Len(chain)
         /\ t = "SYNC_RES" => /\ Arrived(from, r).to \in 0..Len(chain)
                              /\ Arrived(from, r).at <= Arrived(from, r).to + 1
         /\ r \in Replicas /\ chain \in Seq(Values) /\ Len(chain) \in Nat
         /\ Len(log[r]) \in Nat /\ Len(log[r]) <= Len(chain)
         /\ Fits(r, MeFor(r, from), chain)
         /\ MeFor(r, from).log = log[r] /\ MeFor(r, from).mode = mode[r]
         /\ MeFor(r, from).held = held[r] /\ MeFor(r, from).retained = retained[r]
<1>1. link[<<from, r>>] # <<>> /\ mode[r] = m /\ Arrived(from, r).t = t
  BY DEF Arrives
<1>2. /\ Arrived(from, r) \in Messages(Len(chain)) /\ r \in Replicas
      /\ budget[<<from, r>>] \in Spent
  BY <1>1, ArrivalType
<1>3. chain \in Seq(Values) /\ Len(chain) \in Nat /\ log \in [Replicas -> Seq(Values)]
  BY DEF Inv, Typed
<1>4. /\ Fits(r, MeFor(r, from), chain)
      /\ MeFor(r, from).log = log[r] /\ MeFor(r, from).mode = mode[r]
      /\ MeFor(r, from).held = held[r] /\ MeFor(r, from).retained = retained[r]
  BY <1>2, ForFits
<1>5. Len(log[r]) \in Nat /\ Len(log[r]) <= Len(chain)
  BY <1>2, <1>3, <1>4 DEF Fits, Cut
<1> QED
  BY <1>1, <1>2, <1>3, <1>4, <1>5, MessageSays

LEMMA StepReceiveCommit ==
  ASSUME Inv, NEW l \in Links, NEW from, NEW r, l = <<from, r>>, ReceiveCommit(from, r)
  PROVE  Good
<1> DEFINE h == Arrived(from, r).at
           me == MeFor(r, from)
<1>1. PICK fault : Handled(r, from, acceptCertified(r, me, h, fault))
  BY DEF ReceiveCommit
<1>2. Arrives(from, r, "COMMIT", "running") /\ UNCHANGED chain
  BY DEF ReceiveCommit
<1>3. /\ Fits(r, acceptCertified(r, me, h, fault), chain)
      /\ Len(acceptCertified(r, me, h, fault).log) >= Len(log[r])
  <2>1. h \in Nat /\ h <= Len(chain) /\ Fits(r, me, chain) /\ chain \in Seq(Values)
        /\ me.log = log[r]
    BY <1>2, ArrivesIn
  <2> HIDE DEF h, me
  <2> QED
    BY <2>1, AcceptFits
<1>4. link[<<from, r>>] # <<>> /\ mode[r] = "running"
  BY <1>2, ArrivesIn
<1> HIDE DEF me, h
<1> QED
  BY <1>1, <1>2, <1>3, <1>4, HandledStep

LEMMA StepReceiveSyncRes ==
  ASSUME Inv, NEW l \in Links, NEW from, NEW r, l = <<from, r>>, ReceiveSyncRes(from, r)
  PROVE  Good
<1> DEFINE first == Arrived(from, r).at
           last == Arrived(from, r).to
           me == MeFor(r, from)
<1>1. PICK fault : Handled(r, from, acceptBatch(r, first, last, me, fault))
  BY DEF ReceiveSyncRes
<1>2. Arrives(from, r, "SYNC_RES", "running") /\ UNCHANGED chain
  BY DEF ReceiveSyncRes
<1>3. /\ Fits(r, acceptBatch(r, first, last, me, fault), chain)
      /\ Len(acceptBatch(r, first, last, me, fault).log) >= Len(log[r])
  <2>1. first \in Nat /\ last \in 0..Len(chain) /\ first <= last + 1 /\ Fits(r, me, chain)
        /\ chain \in Seq(Values) /\ me.log = log[r]
    BY <1>2, ArrivesIn
  <2> HIDE DEF first, last, me
  <2> QED
    BY <2>1, BatchFits
<1>4. link[<<from, r>>] # <<>> /\ mode[r] = "running"
  BY <1>2, ArrivesIn
<1> HIDE DEF me, first, last
<1> QED
  BY <1>1, <1>2, <1>3, <1>4, HandledStep

LEMMA StepReceiveSyncReq ==
  ASSUME Inv, NEW l \in Links, NEW from, NEW r, l = <<from, r>>, ReceiveSyncReq(from, r)
  PROVE  Good
<1> DEFINE at == Arrived(from, r).at
           n == Len(log[r])
           m == [t |-> "SYNC_RES", at |-> at, to |-> n]
           answer == IF at > n + 1 THEN <<>> ELSE <<m>>
<1>1. Arrives(from, r, "SYNC_REQ", "running") /\ Answered(r, from, <<"sync", at>>, answer)
  BY DEF ReceiveSyncReq
<1>2. link[<<from, r>>] # <<>> /\ at \in Nat /\ n \in 0..Len(chain)
  BY <1>1, ArrivesIn
<1>3. <<"sync", at>> \in Keys
  BY <1>2 DEF Keys
<1>4. answer \in Seq(Messages(Len(chain)))
  <2>1. at <= n + 1 => m \in Messages(Len(chain))
    BY <1>2 DEF Messages
  <2> HIDE DEF m
  <2> QED
    BY <1>2, <2>1
<1> HIDE DEF answer
<1> QED
  BY <1>1, <1>2, <1>3, <1>4, AnsweredStep

LEMMA StepReceiveSnapshotReq ==
  ASSUME Inv, NEW l \in Links, NEW from, NEW r, l = <<from, r>>, ReceiveSnapshotReq(from, r)
  PROVE  Good
<1> DEFINE at == Arrived(from, r).at
           m == Msg("SNAPSHOT_RES", at)
           answer == IF at > Len(log[r]) THEN <<>> ELSE <<m>>
<1>1. Arrives(from, r, "SNAPSHOT_REQ", "running") /\ Answered(r, from, <<"snapshot", at>>, answer)
  BY DEF ReceiveSnapshotReq
<1>2. link[<<from, r>>] # <<>> /\ at \in Nat
  BY <1>1, ArrivesIn
<1>3. <<"snapshot", at>> \in Keys
  BY <1>2 DEF Keys
<1>4. answer \in Seq(Messages(Len(chain)))
  <2>1. m \in Messages(Len(chain))
    BY <1>2 DEF Msg, Messages
  <2> HIDE DEF m
  <2> QED
    BY <2>1
<1> HIDE DEF answer
<1> QED
  BY <1>1, <1>2, <1>3, <1>4, AnsweredStep

LEMMA StepReceiveSnapshotRes ==
  ASSUME Inv, NEW l \in Links, NEW from, NEW r, l = <<from, r>>, ReceiveSnapshotRes(from, r)
  PROVE  Good
<1> DEFINE at == Arrived(from, r).at
           key == <<"snapshot-response", at>>
           me == MeFor(r, from)
           spent == [me EXCEPT !.work = Admitted(@, key)]
           wanted == at = Len(log[r]) /\ retained[r]
<1>1. PICK fault :
        Handled(r, from, IF ~wanted THEN me
                         ELSE IF Admits(me.work, key) /\ fault = "none"
                              THEN repairHalted(r, spent) ELSE spent)
  BY DEF ReceiveSnapshotRes
<1>2. Arrives(from, r, "SNAPSHOT_RES", "running") /\ UNCHANGED chain
  BY DEF ReceiveSnapshotRes
<1>3. /\ link[<<from, r>>] # <<>> /\ mode[r] = "running" /\ at \in Nat
      /\ chain \in Seq(Values) /\ Len(chain) \in Nat /\ Len(log[r]) \in Nat
      /\ Fits(r, me, chain) /\ me.log = log[r] /\ me.mode = mode[r] /\ me.retained = retained[r]
  BY <1>2, ArrivesIn
<1>4. key \in Keys
  BY <1>3 DEF Keys
<1> HIDE DEF me, key
<1>5. /\ Fits(r, spent, chain) /\ spent.log = me.log /\ spent.mode = me.mode
      /\ spent.retained = me.retained
  BY <1>3, <1>4, SpendFits
<1> HIDE DEF spent
<1>6. wanted => /\ Fits(r, repairHalted(r, spent), chain)
                /\ Len(repairHalted(r, spent).log) >= Len(log[r])
  BY <1>3, <1>5, RepairHaltedFits
<1>7. PICK it : /\ Handled(r, from, it)
                /\ it \in {me, spent} \/ (wanted /\ it = repairHalted(r, spent))
  BY <1>1
<1>8. Fits(r, it, chain) /\ Len(it.log) >= Len(log[r])
  BY <1>3, <1>5, <1>6, <1>7
<1> QED
  BY <1>2, <1>3, <1>7, <1>8, HandledStep

LEMMA StepReceiveHeartbeat ==
  ASSUME Inv, NEW l \in Links, NEW from, NEW r, l = <<from, r>>, ReceiveHeartbeat(from, r)
  PROVE  Good
<1> DEFINE me == MeFor(r, from)
<1>1. PICK it : Handled(r, from, it) /\ it \in {me, requestSync(r, me)}
  BY DEF ReceiveHeartbeat
<1>2. Arrives(from, r, "HEARTBEAT", "running") /\ UNCHANGED chain
  BY DEF ReceiveHeartbeat
<1>3. /\ link[<<from, r>>] # <<>> /\ mode[r] = "running" /\ Len(chain) \in Nat
      /\ Len(log[r]) \in Nat /\ Fits(r, me, chain) /\ me.log = log[r]
  BY <1>2, ArrivesIn
<1> HIDE DEF me
<1>4. Fits(r, it, chain) /\ Len(it.log) >= Len(log[r])
  BY <1>1, <1>3, RequestFits
<1> QED
  BY <1>1, <1>2, <1>3, <1>4, HandledStep

LEMMA StepReceiveRepairSnapshot ==
  ASSUME Inv, NEW l \in Links, NEW from, NEW r, l = <<from, r>>, ReceiveRepairSnapshot(from, r)
  PROVE  Good
<1> DEFINE at == Arrived(from, r).at
           key == <<"snapshot-response", at>>
           me == MeFor(r, from)
           spent == [me EXCEPT !.work = Admitted(@, key)]
<1>1. PICK fault :
        Handled(r, from, IF at # Len(log[r]) THEN me
                         ELSE IF Admits(me.work, key) /\ fault = "none"
                              THEN repairDerived(r, spent) ELSE spent)
  BY DEF ReceiveRepairSnapshot
<1>2. Arrives(from, r, "SNAPSHOT_RES", "repairing") /\ UNCHANGED chain
  BY DEF ReceiveRepairSnapshot
<1>3. /\ link[<<from, r>>] # <<>> /\ mode[r] = "repairing" /\ at \in Nat
      /\ chain \in Seq(Values) /\ Len(chain) \in Nat /\ Len(log[r]) \in Nat
      /\ Fits(r, me, chain) /\ me.log = log[r] /\ me.mode = mode[r] /\ me.held = held[r]
  BY <1>2, ArrivesIn
<1>4. key \in Keys
  BY <1>3 DEF Keys
<1> HIDE DEF me, key
<1>5. /\ Fits(r, spent, chain) /\ spent.log = me.log /\ spent.mode = me.mode
      /\ spent.held = me.held
  BY <1>3, <1>4, SpendFits
<1> HIDE DEF spent
<1> DEFINE done == repairDerived(r, spent)
<1>6. /\ Fits(r, done, chain) /\ Len(done.log) >= Len(spent.log)
      /\ spent.held => Len(done.log) > Len(spent.log) \/ done.retained
  BY <1>3, <1>5, RepairDerivedFits
<1>7. PICK it : Handled(r, from, it) /\ it \in {me, spent, done}
  BY <1>1
<1> HIDE DEF done
<1>8. /\ Fits(r, it, chain) /\ Len(it.log) >= Len(log[r])
      /\ held[r] /\ it.mode = "running" => Len(it.log) > Len(log[r]) \/ it.retained
  BY <1>3, <1>5, <1>6, <1>7
<1> QED
  BY <1>2, <1>3, <1>7, <1>8, HandledStep

LEMMA StepReceiveDuringRepair ==
  ASSUME Inv, NEW l \in Links, NEW from, NEW r, l = <<from, r>>, ReceiveDuringRepair(from, r)
  PROVE  Good
<1> DEFINE m == Arrived(from, r)
           me == MeFor(r, from)
           more == m.t = "COMMIT" /\ m.at = Len(log[r]) + 1
           hold == me.held \/ more
           it == [me EXCEPT !.held = hold]
<1>1. Handled(r, from, it) /\ UNCHANGED chain
  BY DEF ReceiveDuringRepair
<1>2. PICK t : Arrives(from, r, t, "repairing")
  BY DEF ReceiveDuringRepair
<1>3. /\ link[<<from, r>>] # <<>> /\ mode[r] = "repairing" /\ Len(chain) \in Nat
      /\ Len(log[r]) \in Nat /\ Fits(r, me, chain) /\ me.log = log[r] /\ me.mode = mode[r]
      /\ more => Len(log[r]) < Len(chain)
  BY <1>2, ArrivesIn
<1>4. hold \in BOOLEAN
  BY <1>3 DEF Fits, Local
<1>5. hold => Len(log[r]) < Len(chain)
  BY <1>3 DEF Fits
<1> HIDE DEF me, hold
<1>6. /\ it \in Local(Len(chain)) /\ it.log = me.log /\ it.retained = me.retained
      /\ it.mode = me.mode /\ it.held = hold /\ it.verdict = me.verdict
  BY <1>3, <1>4 DEF Fits, Local
<1> HIDE DEF it
<1>7. Fits(r, it, chain)
  BY <1>3, <1>5, <1>6 DEF Fits
<1> QED
  BY <1>1, <1>3, <1>6, <1>7, HandledStep

-----------------------------------------------------------------------------
(***************************************************************************)
(* What the replica, its user and its timer do.                            *)
(***************************************************************************)

\* A decision: the value is the one of the chain at this height, old or new.
LEMMA Decided ==
  ASSUME Inv, NEW r \in Replicas, NEW v \in Values,
         Len(log[r]) + 1 <= Len(chain) => v = chain[Len(log[r]) + 1],
         chain' = IF Len(log[r]) + 1 <= Len(chain) THEN chain ELSE Append(chain, v)
  PROVE  /\ ChainStep /\ chain' \in Seq(Values)
         /\ Fits(r, Me(r), chain') /\ Me(r).log = log[r]
         /\ Len(log[r]) < Len(chain') /\ chain'[Len(log[r]) + 1] = v
<1>1. /\ chain \in Seq(Values) /\ Len(chain) \in Nat /\ Fits(r, Me(r), chain)
      /\ log[r] \in Seq(Values) /\ Len(log[r]) \in Nat
  BY DEF Inv, Typed
<1>2. Me(r).log = log[r]
  BY DEF Me, MeWith
<1>3. Len(log[r]) <= Len(chain)
  BY <1>1, <1>2 DEF Fits, Cut
<1>4. CASE Len(log[r]) + 1 <= Len(chain)
  BY <1>1, <1>2, <1>4 DEF ChainStep
<1>5. CASE ~(Len(log[r]) + 1 <= Len(chain))
  <2>1. chain' = Append(chain, v) /\ Len(log[r]) = Len(chain)
    BY <1>1, <1>3, <1>5
  <2> DEFINE d == Append(chain, v)
  <2>2. d \in Seq(Values) /\ Len(d) = Len(chain) + 1 /\ d[Len(chain) + 1] = v
    BY <1>1
  <2>3. Fits(r, Me(r), d)
    BY <1>1, FitsGrows
  <2>4. chain' = d
    BY <2>1
  <2>5. ChainStep
    BY <2>1 DEF ChainStep
  <2> HIDE DEF d
  <2>6. Len(log[r]) < Len(d) /\ d[Len(log[r]) + 1] = v
    BY <1>1, <2>1, <2>2
  <2> QED
    BY <1>2, <2>2, <2>3, <2>4, <2>5, <2>6
<1> QED
  BY <1>4, <1>5

LEMMA StepDecide ==
  ASSUME Inv, NEW r \in Replicas, Decide(r)
  PROVE  Good
<1>1. PICK v \in Values, fault \in Faults(r, {"validation"}) :
        /\ Len(log[r]) + 1 <= Len(chain) => v = chain[Len(log[r]) + 1]
        /\ chain' = IF Len(log[r]) + 1 <= Len(chain) THEN chain ELSE Append(chain, v)
        /\ Install(r, dispatchCommit(r, Me(r), v, fault), link)
  BY DEF Decide
<1>2. mode[r] = "running" /\ UNCHANGED budget
  BY DEF Decide, Untouched
<1> DEFINE me == Me(r)
           c == chain'
           it == dispatchCommit(r, me, v, fault)
<1>3. /\ ChainStep /\ c \in Seq(Values) /\ Fits(r, me, c) /\ me.log = log[r]
      /\ Len(log[r]) < Len(c) /\ c[Len(log[r]) + 1] = v
  BY <1>1, Decided
<1>4. me.mode = "running"
  BY <1>2 DEF Me, MeWith
<1>5. Install(r, it, link)
  BY <1>1
<1> HIDE DEF me, c
<1>6. Fits(r, it, c) /\ Len(it.log) >= Len(log[r])
  BY <1>3, <1>4, DispatchFits
<1> HIDE DEF it
<1>7. link \in [Links -> Seq(Messages(Len(chain)))] /\ budget' \in [Links -> Spent]
  BY <1>2 DEF Inv, Typed
<1> QED
  BY <1>2, <1>3, <1>5, <1>6, <1>7, InstallStep DEF c

LEMMA StepPulse ==
  ASSUME Inv, NEW r \in Replicas, Pulse(r)
  PROVE  Good
<1>1. PICK fault : Install(r, pulse(r, fault), link)
  BY DEF Pulse
<1>2. UNCHANGED chain /\ UNCHANGED budget
  BY DEF Pulse, Untouched
<1>3. /\ chain \in Seq(Values) /\ Fits(r, Me(r), chain) /\ Len(log[r]) \in Nat
      /\ link \in [Links -> Seq(Messages(Len(chain)))] /\ budget' \in [Links -> Spent]
  BY <1>2 DEF Inv, Typed
<1> DEFINE it == pulse(r, fault)
<1>4. /\ Fits(r, it, chain) /\ it.log = log[r]
      /\ mode[r] = "repairing" => it.mode = "repairing"
  BY <1>3, PulseFits
<1>5. Install(r, it, link)
  BY <1>1
<1> HIDE DEF it
<1> QED
  BY <1>2, <1>3, <1>4, <1>5, InstallStep DEF ChainStep

LEMMA StepSubmit ==
  ASSUME Inv, NEW r \in Replicas, Submit(r)
  PROVE  Good
<1> DEFINE h == Len(log[r]) + 1
           mine == [verdict[r] EXCEPT ![h] = "pending"]
<1>1. /\ mode[r] = "running" /\ h <= MaxHeight
      /\ verdict' = [verdict EXCEPT ![r][h] = "pending"]
      /\ UNCHANGED <<chain, log, retained, mode, held, asked, sync, budget, pulseDue, link>>
  BY DEF Submit
<1>2. /\ verdict[r] \in [Heights -> Answers] /\ verdict \in [Replicas -> [Heights -> Answers]]
      /\ Fits(r, Me(r), chain)
  BY DEF Inv, Typed
<1>3. mine \in [Heights -> Answers]
  BY <1>2 DEF Answers
<1>4. verdict' = [verdict EXCEPT ![r] = mine]
  BY <1>1, <1>2
<1>5. \A k \in Heights : mine[k] = IF k = h THEN "pending" ELSE verdict[r][k]
  BY <1>2
<1> DEFINE me == Me(r)
           x == [log |-> log[r], retained |-> retained[r], mode |-> mode[r], held |-> held[r],
                 asked |-> asked[r], sync |-> sync[r], verdict |-> mine, out |-> <<>>,
                 work |-> NoWork]
<1>6. /\ me.log = log[r] /\ me.retained = retained[r] /\ me.mode = mode[r]
      /\ me.held = held[r] /\ me.verdict = verdict[r]
  BY DEF Me, MeWith
<1>7. x \in Local(Len(chain))
  <2>1. NoWork \in Spent /\ <<>> \in Seq(Messages(Len(chain)))
    BY LogSyncAssumption DEF NoWork, Spent
  <2> HIDE DEF mine
  <2> QED
    BY <1>3, <2>1 DEF Inv, Typed, Local
<1> HIDE DEF mine
<1>8. verdict'[r] = mine /\ \A q \in Replicas \ {r} : verdict'[q] = verdict[q]
  BY <1>2, <1>4
<1>9. x = Me(r)'
  BY <1>1, <1>8 DEF Me, MeWith
<1>10. /\ x.log = me.log /\ x.retained = me.retained /\ x.mode = me.mode /\ x.held = me.held
       /\ x.verdict = mine
  BY <1>6
<1> HIDE DEF me, x
<1>11. Fits(r, x, chain)
  <2>1. Fits(r, me, chain) /\ me.mode # "down" /\ h = Len(me.log) + 1
    BY <1>1, <1>2, <1>6 DEF me
  <2> QED
    BY <1>5, <1>6, <1>7, <1>10, <2>1 DEF Fits
<1>12. Fits(r, Me(r), chain)'
  BY <1>1, <1>9, <1>11 DEF Fits
<1>13. verdict' \in [Replicas -> [Heights -> Answers]]
  BY <1>2, <1>3, <1>4
<1>14. Typed'
  BY <1>1, <1>13 DEF Inv, Typed
<1>15. Len(log'[r]) >= Len(log[r])
  BY <1>1 DEF Inv, Typed
<1> QED
  BY <1>1, <1>8, <1>12, <1>14, <1>15, OneStep DEF ChainStep

LEMMA StepTick ==
  ASSUME Inv, Tick
  PROVE  Good
<1>1. ASSUME NEW q \in Replicas
      PROVE  Older(sync[q], NoSync) \in SyncRecord
  BY LogSyncAssumption DEF Inv, Typed, Older, NoSync, SyncRecord
<1>2. ASSUME NEW l \in Links
      PROVE  Older(budget[l], NoWork) \in Spent
  <2> DEFINE w == budget[l]
  <2>1. w \in Spent
    BY DEF Inv, Typed
  <2> HIDE DEF w
  <2>2. [w EXCEPT !.age = @ + 1] \in Spent /\ NoWork \in Spent
    BY <2>1, LogSyncAssumption DEF Spent, NoWork
  <2> QED
    BY <2>2 DEF Older, w
<1>3. /\ sync' = [q \in Replicas |-> Older(sync[q], NoSync)]
      /\ budget' = [l \in Links |-> Older(budget[l], NoWork)]
      /\ asked' = [q \in Replicas |-> FALSE]
      /\ UNCHANGED <<chain, log, retained, mode, held, verdict, link>>
  BY DEF Tick
<1>4. sync' \in [Replicas -> SyncRecord] /\ budget' \in [Links -> Spent]
      /\ asked' \in [Replicas -> BOOLEAN]
  BY <1>1, <1>2, <1>3
<1>5. Typed'
  BY <1>3, <1>4 DEF Inv, Typed
<1> QED
  BY <1>3, <1>5, SameStep

\* The end of a replica whose journal ends with `durable`.
LEMMA EndedStep ==
  ASSUME Inv, NEW r \in Replicas, NEW durable \in Seq(Values), Ended(r, durable), ChainStep,
         UNCHANGED retained, Cut(durable, chain'), Len(durable) >= Len(log[r]),
         retained[r] => Len(durable) < Len(chain'), Fits(r, Me(r), chain')
  PROVE  Good
<1> DEFINE c == chain'
           mine == [h \in Heights |-> IF verdict[r][h] = "pending" THEN "unknown" ELSE verdict[r][h]]
<1>1. /\ mode' = [mode EXCEPT ![r] = "down"]
      /\ log' = [log EXCEPT ![r] = durable]
      /\ held' = [held EXCEPT ![r] = FALSE]
      /\ asked' = [asked EXCEPT ![r] = FALSE]
      /\ sync' = [sync EXCEPT ![r] = NoSync]
      /\ verdict' = [verdict EXCEPT ![r] = mine]
      /\ budget' = [l \in Links |-> IF l[2] = r THEN NoWork ELSE budget[l]]
      /\ link' = [l \in Links |-> IF r \in {l[1], l[2]} THEN <<>> ELSE link[l]]
  BY DEF Ended
<1>2. NoWork \in Spent /\ NoSync \in SyncRecord /\ <<>> \in Seq(Messages(Len(c)))
  BY LogSyncAssumption DEF NoWork, Spent, NoSync, SyncRecord
<1>3. /\ mine \in [Heights -> Answers]
      /\ \A h \in Heights : mine[h] # "pending" /\ (mine[h] # "unknown" => mine[h] = verdict[r][h])
  BY DEF Inv, Typed, Answers
<1>4. /\ chain \in Seq(Values) /\ c \in Seq(Values) /\ Len(chain) \in Nat /\ Len(c) \in Nat
      /\ Len(chain) <= Len(c)
  <2>1. chain \in Seq(Values) /\ Len(chain) \in Nat
    BY DEF Inv, Typed
  <2>2. ASSUME NEW v \in Values
        PROVE  Append(chain, v) \in Seq(Values) /\ Len(Append(chain, v)) = Len(chain) + 1
    BY <2>1
  <2>3. CASE c = chain
    BY <2>1, <2>3
  <2>4. CASE \E v \in Values : c = Append(chain, v)
    BY <2>1, <2>2, <2>4
  <2> QED
    BY <2>3, <2>4 DEF ChainStep
<1>5. link' \in [Links -> Seq(Messages(Len(c)))]
  <2>1. Messages(Len(chain)) \subseteq Messages(Len(c))
    BY <1>4, MessagesGrow
  <2>2. Seq(Messages(Len(chain))) \subseteq Seq(Messages(Len(c)))
    BY <2>1
  <2>3. link \in [Links -> Seq(Messages(Len(chain)))]
    BY DEF Inv, Typed
  <2> QED
    BY <1>1, <2>2, <2>3
<1>6. budget' \in [Links -> Spent]
  BY <1>1, <1>2 DEF Inv, Typed
<1> HIDE DEF mine
<1>7. Typed'
  BY <1>1, <1>2, <1>3, <1>4, <1>5, <1>6 DEF Inv, Typed, Modes
<1>8. /\ mode'[r] = "down" /\ log'[r] = durable /\ held'[r] = FALSE /\ asked'[r] = FALSE
      /\ sync'[r] = NoSync /\ verdict'[r] = mine /\ retained'[r] = retained[r]
      /\ retained[r] \in BOOLEAN
  BY <1>1 DEF Inv, Typed
<1>9. \A q \in Replicas \ {r} :
        /\ log'[q] = log[q] /\ retained'[q] = retained[q] /\ mode'[q] = mode[q]
        /\ held'[q] = held[q] /\ verdict'[q] = verdict[q]
  BY <1>1 DEF Inv, Typed
<1> DEFINE x == [log |-> durable, retained |-> retained[r], mode |-> "down", held |-> FALSE,
                 asked |-> FALSE, sync |-> NoSync, verdict |-> mine, out |-> <<>>,
                 work |-> NoWork]
<1>10. x = Me(r)'
  BY <1>8 DEF Me, MeWith
<1>11. x \in Local(Len(c))
  BY <1>2, <1>3, <1>8 DEF Local, Modes
<1>12. /\ x.log = durable /\ x.retained = retained[r] /\ x.mode = "down" /\ x.held = FALSE
       /\ x.verdict = mine
  OBVIOUS
<1> HIDE DEF x
<1>13. \A h \in Heights : /\ mine[h] = "ok" => h <= Len(c) /\ c[h] = r
                          /\ mine[h] = "renewed" => h <= Len(c) /\ c[h] # r
  <2>1. Me(r).verdict = verdict[r]
    BY DEF Me, MeWith
  <2> QED
    BY <1>3, <2>1 DEF Fits
<1>14. Fits(r, x, c)
  BY <1>3, <1>11, <1>12, <1>13 DEF Fits
<1>15. Fits(r, Me(r), chain)'
  BY <1>10, <1>14 DEF Fits
<1> QED
  BY <1>7, <1>8, <1>9, <1>15, OneStep

LEMMA StepCrash ==
  ASSUME Inv, NEW r \in Replicas, Crash(r)
  PROVE  Good
<1>1. Ended(r, log[r]) /\ UNCHANGED <<chain, retained>>
  BY DEF Crash
<1>2. log[r] \in Seq(Values) /\ Fits(r, Me(r), chain)
  BY DEF Inv, Typed
<1>3. Cut(log[r], chain) /\ (retained[r] => Len(log[r]) < Len(chain))
  BY <1>2 DEF Fits, Me, MeWith
<1> QED
  BY <1>1, <1>2, <1>3, EndedStep DEF ChainStep

LEMMA StepCrashAfterCommit ==
  ASSUME Inv, NEW r \in Replicas, CrashAfterCommit(r)
  PROVE  Good
<1>1. PICK v \in Values :
        /\ Len(log[r]) + 1 <= Len(chain) => v = chain[Len(log[r]) + 1]
        /\ chain' = IF Len(log[r]) + 1 <= Len(chain) THEN chain ELSE Append(chain, v)
        /\ Ended(r, Append(log[r], v))
  BY DEF CrashAfterCommit
<1>2. UNCHANGED retained /\ ~retained[r]
  BY DEF CrashAfterCommit
<1> DEFINE c == chain'
           l == Append(log[r], v)
<1>3. /\ ChainStep /\ c \in Seq(Values) /\ Fits(r, Me(r), c) /\ Me(r).log = log[r]
      /\ Len(log[r]) < Len(c) /\ c[Len(log[r]) + 1] = v
  BY <1>1, Decided
<1>4. /\ log[r] \in Seq(Values) /\ Len(log[r]) \in Nat
  BY DEF Inv, Typed
<1>5. /\ l \in Seq(Values) /\ Len(l) = Len(log[r]) + 1 /\ l[Len(log[r]) + 1] = v
      /\ \A i \in 1..Len(log[r]) : l[i] = log[r][i]
  BY <1>4
<1> HIDE DEF l
<1>6. Cut(l, c)
  BY <1>3, <1>4, <1>5 DEF Fits, Cut
<1>7. Ended(r, l)
  BY <1>1 DEF l
<1> QED
  BY <1>2, <1>3, <1>4, <1>5, <1>6, <1>7, EndedStep

LEMMA StepRestart ==
  ASSUME Inv, NEW r \in Replicas, Restart(r)
  PROVE  Good
<1>1. /\ mode[r] = "down" /\ mode' = [mode EXCEPT ![r] = "running"]
      /\ UNCHANGED <<chain, log, retained, held, asked, sync, budget, verdict, link>>
  BY DEF Restart
<1>2. Typed'
  BY <1>1 DEF Inv, Typed, Modes
<1>3. mode'[r] = "running" /\ \A q \in Replicas \ {r} : mode'[q] = mode[q]
  BY <1>1 DEF Inv, Typed
<1> DEFINE me == Me(r)
           x == [log |-> log[r], retained |-> retained[r], mode |-> "running", held |-> held[r],
                 asked |-> asked[r], sync |-> sync[r], verdict |-> verdict[r], out |-> <<>>,
                 work |-> NoWork]
<1>4. /\ Fits(r, me, chain) /\ me.log = log[r] /\ me.retained = retained[r] /\ me.mode = "down"
      /\ me.held = held[r] /\ me.verdict = verdict[r]
  BY <1>1 DEF Inv, Me, MeWith
<1>5. x \in Local(Len(chain))
  <2>1. NoWork \in Spent /\ <<>> \in Seq(Messages(Len(chain)))
    BY LogSyncAssumption DEF NoWork, Spent
  <2> QED
    BY <2>1 DEF Inv, Typed, Local, Modes
<1>6. x = Me(r)'
  BY <1>1, <1>3 DEF Me, MeWith
<1>7. /\ x.log = me.log /\ x.retained = me.retained /\ x.mode = "running" /\ x.held = me.held
      /\ x.verdict = me.verdict
  BY <1>4
<1> HIDE DEF me, x
<1>8. Fits(r, x, chain)
  BY <1>4, <1>5, <1>7 DEF Fits
<1>9. Fits(r, Me(r), chain)'
  BY <1>1, <1>6, <1>8 DEF Fits
<1>10. Len(log'[r]) >= Len(log[r])
  BY <1>1 DEF Inv, Typed
<1> QED
  BY <1>1, <1>2, <1>3, <1>9, <1>10, OneStep DEF ChainStep

LEMMA StepDisconnect ==
  ASSUME Inv, NEW p, Disconnect(p)
  PROVE  Good
<1>1. /\ link' = [l \in Links |-> IF {l[1], l[2]} = p THEN <<>> ELSE link[l]]
      /\ UNCHANGED <<chain, log, retained, mode, held, asked, sync, budget, verdict>>
  BY DEF Disconnect
<1>2. link' \in [Links -> Seq(Messages(Len(chain)))]
  BY <1>1 DEF Inv, Typed
<1>3. Typed'
  BY <1>1, <1>2 DEF Inv, Typed
<1> QED
  BY <1>1, <1>3, SameStep

LEMMA StepConnect ==
  ASSUME Inv, NEW p, Connect(p)
  PROVE  Good
<1>1. UNCHANGED <<chain, log, retained, mode, held, asked, sync, budget, verdict, link>>
  BY DEF Connect
<1>2. Typed'
  BY <1>1 DEF Inv, Typed
<1> QED
  BY <1>1, <1>2, SameStep

-----------------------------------------------------------------------------
(***************************************************************************)
(* The specification.                                                      *)
(***************************************************************************)

LEMMA InitInv == Init => Inv
<1> SUFFICES ASSUME Init PROVE Inv
  OBVIOUS
<1>1. /\ NoSync \in SyncRecord /\ NoWork \in Spent
      /\ <<>> \in Seq(Values) /\ <<>> \in Seq(Messages(Len(chain)))
  BY LogSyncAssumption DEF NoSync, SyncRecord, NoWork, Spent
<1>2. Typed
  BY <1>1 DEF Init, Typed, Modes, Answers
<1>3. ASSUME NEW r \in Replicas PROVE Fits(r, Me(r), chain)
  <2> DEFINE me == Me(r)
  <2>1. me \in Local(Len(chain))
    BY <1>1, <1>2 DEF Typed, Local, Me, MeWith
  <2>2. /\ me.log = <<>> /\ me.retained = FALSE /\ me.held = FALSE
        /\ \A h \in Heights : me.verdict[h] = "none"
    BY DEF Init, Me, MeWith
  <2>3. chain = <<>>
    BY DEF Init
  <2> HIDE DEF me
  <2>4. Cut(me.log, chain)
    BY <2>2, <2>3 DEF Cut
  <2>5. Fits(r, me, chain)
    BY <2>1, <2>2, <2>4 DEF Fits
  <2> QED
    BY <2>5 DEF me
<1> QED
  BY <1>2, <1>3 DEF Inv

LEMMA NextGood ==
  ASSUME Inv, [Next]_vars
  PROVE  Good
<1>1. ASSUME NEW l \in Links, NEW from, NEW r, l = <<from, r>>, Receive(from, r) PROVE Good
  BY <1>1, StepReceiveCommit, StepReceiveSyncRes, StepReceiveSyncReq, StepReceiveSnapshotReq,
     StepReceiveSnapshotRes, StepReceiveHeartbeat, StepReceiveRepairSnapshot,
     StepReceiveDuringRepair DEF Receive
<1>2. ASSUME NEW l \in Links, Receive(l[1], l[2]) PROVE Good
  <2>1. l = <<l[1], l[2]>>
    BY DEF Links
  <2> QED
    BY <1>1, <1>2, <2>1
<1>3. ASSUME NEW r \in Replicas,
             \/ Decide(r) \/ Submit(r) \/ Pulse(r) \/ Restart(r) \/ Crash(r) \/ CrashAfterCommit(r)
      PROVE  Good
  BY <1>3, StepDecide, StepSubmit, StepPulse, StepRestart, StepCrash, StepCrashAfterCommit
<1>4. CASE UNCHANGED vars
  <2>1. Typed' /\ UNCHANGED <<chain, log, retained, mode, held, verdict>>
    BY <1>4 DEF vars, Inv, Typed
  <2> QED
    BY <2>1, SameStep
<1> QED
  BY <1>2, <1>3, <1>4, StepDisconnect, StepConnect, StepTick DEF Next

\* Every replica has a cut of the chain and agrees with it, whatever the
\* network, the repairs and the crashes do.
THEOREM Invariance == Spec => []Inv
<1>1. Inv /\ [Next]_vars => Inv'
  BY NextGood DEF Good
<1> QED
  BY InitInv, <1>1, PTL DEF Spec

\* What submit() answered for a command is what the certified log holds.
THEOREM TrueVerdicts == Spec => []VerdictIsTrue
<1>1. Inv => VerdictIsTrue
  <2> SUFFICES ASSUME Inv, NEW r \in Replicas PROVE
        \A h \in Heights :
          /\ verdict[r][h] = "ok" => h <= Len(chain) /\ chain[h] = r
          /\ verdict[r][h] = "renewed" => h <= Len(chain) /\ chain[h] # r
          /\ verdict[r][h] = "pending" => mode[r] # "down" /\ h = Len(log[r]) + 1
    BY DEF VerdictIsTrue
  <2> DEFINE me == Me(r)
  <2>1. me.verdict = verdict[r] /\ me.mode = mode[r] /\ me.log = log[r]
    BY DEF Me, MeWith
  <2>2. Fits(r, me, chain)
    BY DEF Inv
  <2> HIDE DEF me
  <2> QED
    BY <2>1, <2>2 DEF Fits
<1> QED
  BY Invariance, <1>1, PTL

\* A commit that was held during a repair is applied at its end.
THEOREM HeldIsApplied == Spec => HeldCommitIsApplied
<1>1. Inv /\ [Next]_vars
        => [\A r \in Replicas :
              mode[r] = "repairing" /\ held[r] /\ mode'[r] = "running"
                => Len(log'[r]) > Len(log[r]) \/ retained'[r]]_vars
  BY NextGood DEF Good, Applied
<1> QED
  BY Invariance, <1>1, PTL DEF Spec, HeldCommitIsApplied

\* The replicas implement the certified log: every step appends a certified
\* value, or gives a replica more of the chain, or changes nothing of it.
THEOREM Implementation == Spec => ImplementsCertifiedLog
<1>1. Init => Certified!Init
  BY DEF Init, Certified!Init
<1>2. Inv /\ [Next]_vars => [Certified!Next]_<<chain, log>>
  BY NextGood DEF Good
<1> QED
  BY Invariance, <1>1, <1>2, PTL DEF Spec, ImplementsCertifiedLog, Certified!Spec
=============================================================================
