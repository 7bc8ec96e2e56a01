-------------------------- MODULE MembershipProofs --------------------------
(***************************************************************************)
(* Proofs about Membership, for every table of players and bots, every     *)
(* supply of keys, every window of a consent and every number of entries.  *)
(*                                                                         *)
(* The argument: every key that was ever named is reserved, and the keys   *)
(* of what is pending are reserved and have controlled nothing, so when    *)
(* they take over they serve once.  While something is pending only        *)
(* entries that leave the membership alone, and those that end or replace  *)
(* it, can follow; so it still fits when it is activated.                  *)
(***************************************************************************)
EXTENDS Membership, FiniteSetTheorems, WellFoundedInduction, TLAPS

Controller ==
    [publicKey : Keys, hostSeat : Seats, kind : {"human", "bot"},
     status : {"active", "pending-recovery"}, activatedAt : Nat]
Root ==
    [finalAuthorization : Nat, activation : Nat, departedSeat : Seats,
     lastHumanGameKey : Keys, affectedSeats : SUBSET Seats]

\* Keys for some of the seats, a key for each.
Assignment(keys) ==
    /\ DOMAIN keys \subseteq Seats
    /\ keys \in [DOMAIN keys -> Keys]
    /\ \A s, t \in DOMAIN keys : keys[s] = keys[t] => s = t

Statement(c) ==
    /\ c.seat \in Seats
    /\ c.anchor \in 0..height
    /\ Assignment(c.replacements)

MTypeOK ==
    /\ height \in Nat /\ epoch \in Nat
    /\ controllers \in [Seats -> Controller]
    /\ usedPublicKeys \subseteq Keys
    /\ offline \in [Seats -> 0..height]
    /\ voided \in BOOLEAN
    /\ returnRoots \in Seq(Root)
    /\ intentBarrier \in 0..height
    /\ log \in [0..height -> [controllers : [Seats -> Controller], offline : [Seats -> Nat]]]
    /\ \A c \in consents : Statement(c)

\* The history ends with the present.
LogIsCurrent == log[height] = [controllers |-> controllers, offline |-> offline]

\* Who ever controlled a seat used up a key.
KeysAreReserved == \A h \in 0..height, s \in Seats : log[h].controllers[s].publicKey \in usedPublicKeys

\* Keys that are reserved and have controlled nothing so far.
Unserved(keys) ==
    /\ Assignment(keys)
    /\ \A s \in DOMAIN keys :
          /\ keys[s] \in usedPublicKeys
          /\ \A h \in 0..height, t \in Seats : log[h].controllers[t].publicKey # keys[s]

\* What is known of a pending takeover.
TakeoverFits ==
    recovery # NotPending =>
        /\ transfer = NotPending
        /\ ~voided
        /\ Unserved(recovery.replacements)
        /\ recovery.departedSeat \in DOMAIN recovery.replacements
        /\ offline[recovery.departedSeat] # 0
        /\ recovery.hostSeat \in members
        /\ recoverersAreCurrent
        /\ \A s \in DOMAIN recovery.replacements :
              controllers[s].status = "pending-recovery" /\ controllers[s].kind = "bot"
        /\ \E i \in DOMAIN returnRoots : returnRoots[i].finalAuthorization = recovery.entry

\* What is known of a pending transfer.
TransferFits ==
    transfer # NotPending =>
        LET c == transfer.statement IN
        /\ recovery = NotPending
        /\ Statement(c)
        /\ Unserved(c.replacements)
        /\ c.nextEpoch = epoch + 1
        /\ c.seat \in DOMAIN c.replacements
        /\ \A s \in DOMAIN c.replacements :
              /\ controllers[s].publicKey = c.oldPublicKeys[s]
              /\ controllers[s].status = "active"
              /\ s # c.seat => controllers[s].kind = "bot"

\* Nothing has happened to the membership since the barrier.
QuietSinceBarrier == \A h \in intentBarrier..height : log[h] = log[height]

IndInv ==
    /\ MTypeOK
    /\ LogIsCurrent
    /\ KeysAreReserved
    /\ KeysServeOnce
    /\ AuthorityIsValid
    /\ TakeoverFits
    /\ TransferFits
    /\ ConsentIsFresh
    /\ QuietSinceBarrier
    /\ MarkersAreCurrent
    /\ VotersSurvive

-----------------------------------------------------------------------------
LEMMA InitInv == MemberInit => IndInv
<1> SUFFICES ASSUME MemberInit
             PROVE  IndInv
  OBVIOUS
<1> USE MembersAssumption
<1> DEFINE first(s) ==
      [publicKey |-> FirstKey[s], hostSeat |-> IF s \in Bots THEN FirstHost[s] ELSE s,
       kind |-> IF s \in Bots THEN "bot" ELSE "human", status |-> "active", activatedAt |-> 0]
<1>1. controllers = [s \in Seats |-> first(s)]
  BY DEF MemberInit
<1>2. \A s \in Seats : first(s) \in Controller
  BY DEF Controller
<1>3. controllers \in [Seats -> Controller]
  BY <1>1, <1>2
<1>4. /\ height = 0 /\ epoch = 0 /\ offline = [s \in Seats |-> 0] /\ voided = FALSE
      /\ recovery = NotPending /\ transfer = NotPending /\ returnRoots = <<>>
      /\ intentBarrier = 0 /\ consents = {}
      /\ usedPublicKeys = {FirstKey[s] : s \in Seats}
      /\ log = [h \in {0} |-> [controllers |-> controllers, offline |-> offline]]
  BY DEF MemberInit
<1>5. log[0] = [controllers |-> controllers, offline |-> offline] /\ 0..0 = {0}
  BY <1>4
<1>6. MTypeOK
  <2>1. log \in [0..height -> [controllers : [Seats -> Controller], offline : [Seats -> Nat]]]
    BY <1>3, <1>4, <1>5
  <2>2. usedPublicKeys \subseteq Keys
    BY <1>4
  <2>3. returnRoots \in Seq(Root)
    BY <1>4
  <2>4. offline \in [Seats -> 0..height]
    BY <1>4
  <2> QED
    BY <2>1, <2>2, <2>3, <2>4, <1>3, <1>4 DEF MTypeOK
<1>7. LogIsCurrent
  BY <1>4, <1>5 DEF LogIsCurrent
<1>8. ASSUME NEW s \in Seats
      PROVE  /\ controllers[s].publicKey = FirstKey[s]
             /\ controllers[s].hostSeat = IF s \in Bots THEN FirstHost[s] ELSE s
             /\ controllers[s].kind = IF s \in Bots THEN "bot" ELSE "human"
             /\ controllers[s].status = "active"
  <2>1. controllers[s] = first(s)
    BY <1>1
  <2> QED
    BY <2>1
<1>9. KeysAreReserved /\ KeysServeOnce
  <2>1. \A s \in Seats : log[0].controllers[s].publicKey = FirstKey[s]
    BY <1>5, <1>8
  <2>2. \A s \in Seats : log[0].controllers[s] = controllers[s]
    BY <1>5
  <2> QED
    BY <2>1, <2>2, <1>4, <1>5, <1>8 DEF KeysAreReserved, KeysServeOnce
<1>10. members = Seats \ Bots
  <2>1. \A s \in Seats : s \in members <=> s \notin Bots
    BY <1>8 DEF members
  <2> QED
    BY <2>1 DEF members
<1>11. AuthorityIsValid
  <2>1. \A s \in Seats : controllers[s].kind = "human" => s \notin Bots
    BY <1>8
  <2> QED
    BY <2>1, <1>4, <1>8, <1>10 DEF AuthorityIsValid
<1>12. VotersSurvive
  <2>1. Cardinality(Seats \ Bots) \in Nat
    BY FS_Subset, FS_CardinalityType
  <2> QED
    BY <2>1, <1>10 DEF VotersSurvive
<1>13. TakeoverFits /\ TransferFits /\ ConsentIsFresh
  BY <1>4 DEF TakeoverFits, TransferFits, ConsentIsFresh
<1>14. QuietSinceBarrier
  BY <1>4 DEF QuietSinceBarrier
<1>15. MarkersAreCurrent
  BY <1>4 DEF MarkersAreCurrent
<1> QED
  BY <1>6, <1>7, <1>9, <1>11, <1>12, <1>13, <1>14, <1>15 DEF IndInv

-----------------------------------------------------------------------------
(***************************************************************************)
(* What every entry does to the history.                                   *)
(***************************************************************************)

\* The history grows by the state after the entry.
LEMMA LogStep ==
    ASSUME MTypeOK, Extend,
           controllers' \in [Seats -> Controller], offline' \in [Seats -> 0..height + 1]
    PROVE  /\ height' = height + 1 /\ height' \in Nat /\ ~voided
           /\ \A h \in 0..height : log'[h] = log[h]
           /\ log'[height + 1] = [controllers |-> controllers', offline |-> offline']
           /\ log' \in [0..height' ->
                           [controllers : [Seats -> Controller], offline : [Seats -> Nat]]]
           /\ LogIsCurrent'
           /\ \A c \in consents' : Statement(c)'
<1> DEFINE now == [controllers |-> controllers', offline |-> offline']
           was(h) == IF h <= height THEN log[h] ELSE now
<1>1. height' = height + 1 /\ height \in Nat /\ ~voided
  BY DEF Extend, MTypeOK
<1>2. log' = [h \in 0..height + 1 |-> was(h)]
  BY DEF Extend
<1>3. \A h \in 0..height : log'[h] = log[h]
  BY <1>1, <1>2
<1>4. log'[height + 1] = now
  BY <1>1, <1>2
<1>5. now \in [controllers : [Seats -> Controller], offline : [Seats -> Nat]]
  <2>1. offline' \in [Seats -> Nat]
    BY <1>1
  <2> QED
    BY <2>1
<1>6. log' \in [0..height' -> [controllers : [Seats -> Controller], offline : [Seats -> Nat]]]
  <2>1. \A h \in 0..height + 1 :
           was(h) \in [controllers : [Seats -> Controller], offline : [Seats -> Nat]]
    BY <1>1, <1>5 DEF MTypeOK
  <2> HIDE DEF was
  <2> QED
    BY <2>1, <1>1, <1>2
<1>7. LogIsCurrent'
  BY <1>1, <1>4 DEF LogIsCurrent
<1>8. \A c \in consents' : Statement(c)'
  <2>1. consents' = consents
    BY DEF Extend
  <2> QED
    BY <2>1, <1>1 DEF MTypeOK, Statement
<1> QED
  BY <1>1, <1>3, <1>4, <1>6, <1>7, <1>8

\* What has not controlled a seat so far can be put in control of one.
LEMMA KeysStep ==
    ASSUME MTypeOK, LogIsCurrent, KeysAreReserved, KeysServeOnce, Extend,
           controllers' \in [Seats -> Controller], offline' \in [Seats -> 0..height + 1],
           usedPublicKeys \subseteq usedPublicKeys',
           NEW keys, Unserved(keys),
           \A s \in DOMAIN keys :
              controllers'[s].publicKey = keys[s] /\ controllers'[s].activatedAt = height + 1,
           \A s \in Seats \ DOMAIN keys :
              /\ controllers'[s].publicKey = controllers[s].publicKey
              /\ controllers'[s].activatedAt = controllers[s].activatedAt
    PROVE  KeysAreReserved' /\ KeysServeOnce'
<1> DEFINE key(h, s) == log[h].controllers[s].publicKey
<1>1. /\ height' = height + 1 /\ height \in Nat
      /\ \A h \in 0..height : log'[h] = log[h]
      /\ log'[height + 1].controllers = controllers'
  BY LogStep DEF MTypeOK
<1>2. \A h \in 0..height + 1 : h \in 0..height \/ h = height + 1
  BY <1>1
<1>3. log[height].controllers = controllers /\ height \in 0..height
  BY <1>1 DEF LogIsCurrent
<1>4. \A s \in DOMAIN keys : s \in Seats /\ keys[s] \in usedPublicKeys
  BY DEF Unserved, Assignment
<1>5. \A s \in Seats : controllers[s].publicKey \in usedPublicKeys
  BY <1>3 DEF KeysAreReserved
<1>6. \A s \in Seats : controllers'[s].publicKey \in usedPublicKeys'
  BY <1>4, <1>5
<1>7. KeysAreReserved'
  BY <1>1, <1>2, <1>6 DEF KeysAreReserved
<1>8. ASSUME NEW h \in 0..height, NEW s \in Seats, NEW t \in Seats,
             key(h, s) = controllers'[t].publicKey
      PROVE  s = t /\ log[h].controllers[s].activatedAt = controllers'[t].activatedAt
  <2>1. t \notin DOMAIN keys
    BY <1>8 DEF Unserved
  <2>2. key(h, s) = controllers[t].publicKey
    BY <2>1, <1>8
  <2> QED
    BY <2>1, <2>2 DEF KeysServeOnce
<1>9. ASSUME NEW s \in Seats, NEW t \in Seats,
             controllers'[s].publicKey = controllers'[t].publicKey
      PROVE  s = t
  <2>1. CASE s \in DOMAIN keys /\ t \in DOMAIN keys
    BY <2>1, <1>9 DEF Unserved, Assignment
  <2>2. CASE s \notin DOMAIN keys
    <3>1. key(height, s) = controllers'[t].publicKey
      BY <2>2, <1>3, <1>9
    <3> QED
      BY <3>1, <1>3, <1>8
  <2>3. CASE t \notin DOMAIN keys
    <3>1. key(height, t) = controllers'[s].publicKey
      BY <2>3, <1>3, <1>9
    <3> QED
      BY <3>1, <1>3, <1>8
  <2> QED
    BY <2>1, <2>2, <2>3
<1>10. KeysServeOnce'
  BY <1>1, <1>2, <1>8, <1>9 DEF KeysServeOnce
<1> QED
  BY <1>7, <1>10

\* When control stays where it is, the history of the keys stays in order.
LEMMA KeysKept ==
    ASSUME MTypeOK, LogIsCurrent, KeysAreReserved, KeysServeOnce, Extend,
           controllers' \in [Seats -> Controller], offline' \in [Seats -> 0..height + 1],
           usedPublicKeys \subseteq usedPublicKeys',
           \A s \in Seats :
              /\ controllers'[s].publicKey = controllers[s].publicKey
              /\ controllers'[s].activatedAt = controllers[s].activatedAt
    PROVE  KeysAreReserved' /\ KeysServeOnce'
<1> DEFINE none == [s \in {} |-> s]
<1>1. Unserved(none)
  <2>1. DOMAIN none = {}
    OBVIOUS
  <2>2. none \in [{} -> Keys]
    OBVIOUS
  <2> QED
    BY <2>1, <2>2 DEF Unserved, Assignment
<1>2. DOMAIN none = {}
  OBVIOUS
<1> HIDE DEF none
<1> QED
  BY <1>1, <1>2, KeysStep

\* Keys that are reserved stay unserved while control stays where it is.
LEMMA StillUnserved ==
    ASSUME MTypeOK, LogIsCurrent, Extend,
           controllers' \in [Seats -> Controller], offline' \in [Seats -> 0..height + 1],
           \A s \in Seats : controllers'[s].publicKey = controllers[s].publicKey,
           NEW keys, Assignment(keys),
           \A s \in DOMAIN keys :
              /\ keys[s] \in usedPublicKeys'
              /\ \A h \in 0..height, t \in Seats : log[h].controllers[t].publicKey # keys[s]
    PROVE  Unserved(keys)'
<1>1. /\ height' = height + 1 /\ height \in Nat
      /\ \A h \in 0..height : log'[h] = log[h]
      /\ log'[height + 1].controllers = controllers'
  BY LogStep DEF MTypeOK
<1>2. \A h \in 0..height + 1 : h \in 0..height \/ h = height + 1
  BY <1>1
<1>3. log[height].controllers = controllers /\ height \in 0..height
  BY <1>1 DEF LogIsCurrent
<1>4. \A s \in DOMAIN keys, t \in Seats : controllers'[t].publicKey # keys[s]
  BY <1>3
<1> QED
  BY <1>1, <1>2, <1>4 DEF Unserved, Assignment

\* A marker that is new, or about the same player as before, is current.
LEMMA MarkersStep ==
    ASSUME MTypeOK, MarkersAreCurrent, Extend,
           controllers' \in [Seats -> Controller], offline' \in [Seats -> 0..height + 1],
           \A s \in Seats : offline'[s] # 0 =>
              /\ s \in members' \/ voided' \/ (recovery' # NotPending /\ recovery'.departedSeat = s)
              /\ \/ offline'[s] = height + 1
                 \/ offline'[s] = offline[s] /\ controllers'[s].publicKey = controllers[s].publicKey
    PROVE  MarkersAreCurrent'
<1>1. /\ height' = height + 1 /\ height \in Nat
      /\ \A h \in 0..height : log'[h] = log[h]
      /\ log'[height + 1].controllers = controllers'
  BY LogStep DEF MTypeOK
<1>2. ASSUME NEW s \in Seats, offline'[s] # 0, NEW h \in offline'[s]..height + 1
      PROVE  log'[h].controllers[s].publicKey = controllers'[s].publicKey
  <2>1. CASE h = height + 1
    BY <2>1, <1>1
  <2>2. CASE h # height + 1
    <3>1. offline'[s] \in 0..height + 1
      OBVIOUS
    <3>2. h \in 0..height /\ offline'[s] # height + 1
      BY <3>1, <2>2, <1>1
    <3>3. /\ offline'[s] = offline[s]
          /\ controllers'[s].publicKey = controllers[s].publicKey
      BY <3>2, <1>2
    <3>4. h \in offline[s]..height /\ offline[s] # 0
      BY <3>2, <3>3, <1>1, <1>2
    <3> QED
      BY <3>2, <3>3, <3>4, <1>1 DEF MarkersAreCurrent
  <2> QED
    BY <2>1, <2>2
<1> QED
  BY <1>1, <1>2 DEF MarkersAreCurrent

\* Right after a membership entry nothing has happened since the barrier.
LEMMA CertifyStep ==
    ASSUME MTypeOK, Certify
    PROVE  Extend /\ QuietSinceBarrier' /\ intentBarrier' \in 0..height'
<1>1. Extend /\ intentBarrier' = height + 1 /\ height' = height + 1 /\ height \in Nat
  BY DEF Certify, Extend, barrier, MTypeOK
<1>2. \A h \in intentBarrier'..height' : h = height'
  BY <1>1
<1> QED
  BY <1>1, <1>2 DEF QuietSinceBarrier

-----------------------------------------------------------------------------
(***************************************************************************)
(* Every entry keeps the invariant.                                        *)
(***************************************************************************)

\* An entry that leaves the members alone leaves what is asked of them.
LEMMA SameMembers ==
    ASSUME controllers' = controllers, usedPublicKeys \subseteq usedPublicKeys',
           AuthorityIsValid, VotersSurvive
    PROVE  members' = members /\ AuthorityIsValid' /\ VotersSurvive'
<1>1. members' = members
  BY DEF members
<1> QED
  BY <1>1 DEF AuthorityIsValid, VotersSurvive

LEMMA OrdinaryInv ==
    ASSUME IndInv, Ordinary
    PROVE  IndInv'
<1> USE DEF IndInv
<1>1. Extend /\ UNCHANGED <<epoch, controllers, usedPublicKeys, offline, recovery, voided,
                            transfer, returnRoots, intentBarrier>>
  BY DEF Ordinary, control
<1>2. controllers' \in [Seats -> Controller] /\ offline' \in [Seats -> 0..height + 1]
  BY <1>1 DEF MTypeOK
<1>3. /\ height' = height + 1 /\ height \in Nat /\ LogIsCurrent'
      /\ \A h \in 0..height : log'[h] = log[h]
      /\ log'[height + 1] = log[height]
  BY <1>1, <1>2, LogStep DEF MTypeOK, LogIsCurrent
<1>4. MTypeOK'
  BY <1>1, <1>2, <1>3, LogStep DEF MTypeOK
<1>5. KeysAreReserved' /\ KeysServeOnce'
  BY <1>1, <1>2, KeysKept
<1>6. members' = members /\ AuthorityIsValid' /\ VotersSurvive'
  BY <1>1, SameMembers
<1>7. ASSUME NEW keys, Unserved(keys)
      PROVE  Unserved(keys)'
  BY <1>1, <1>2, <1>7, StillUnserved DEF Unserved
<1>8. TakeoverFits'
  <2>1. ASSUME recovery # NotPending
        PROVE  Unserved(recovery.replacements)'
    <3>1. PICK keys : keys = recovery.replacements
      OBVIOUS
    <3>2. Unserved(keys)'
      BY <2>1, <3>1, <1>7 DEF TakeoverFits
    <3> QED
      BY <3>1, <3>2, <1>1 DEF Unserved
  <2>2. recoverersAreCurrent => recoverersAreCurrent'
    BY <1>1, <1>6 DEF recoverersAreCurrent
  <2> QED
    BY <2>1, <2>2, <1>1, <1>6 DEF TakeoverFits
<1>9. TransferFits'
  <2>1. ASSUME transfer # NotPending
        PROVE  Unserved(transfer.statement.replacements)' /\ Statement(transfer.statement)'
    <3>1. PICK keys : keys = transfer.statement.replacements
      OBVIOUS
    <3>2. Unserved(keys)'
      BY <2>1, <3>1, <1>7 DEF TransferFits
    <3>3. Unserved(transfer.statement.replacements)'
      BY <3>1, <3>2, <1>1 DEF Unserved
    <3>4. Statement(transfer.statement)'
      BY <2>1, <1>1, <1>3 DEF TransferFits, Statement
    <3> QED
      BY <3>3, <3>4
  <2> QED
    BY <2>1, <1>1 DEF TransferFits
<1>10. ConsentIsFresh'
  <2>1. ASSUME transfer # NotPending, NEW h \in transfer.statement.anchor..height + 1
        PROVE  log'[h] = log'[height + 1]
    <3>1. transfer.statement.anchor \in 0..height
      BY <2>1 DEF TransferFits, Statement
    <3>2. h \in transfer.statement.anchor..height \/ h = height + 1
      BY <3>1, <1>3
    <3>3. h \in 0..height \/ h = height + 1
      BY <3>1, <3>2, <1>3
    <3> QED
      BY <2>1, <3>2, <3>3, <1>3 DEF ConsentIsFresh
  <2> QED
    BY <2>1, <1>1, <1>3 DEF ConsentIsFresh
<1>11. QuietSinceBarrier'
  <2>1. ASSUME NEW h \in intentBarrier..height + 1
        PROVE  log'[h] = log'[height + 1]
    <3>1. (h \in intentBarrier..height /\ h \in 0..height) \/ h = height + 1
      BY <1>3 DEF MTypeOK
    <3> QED
      BY <3>1, <1>3 DEF QuietSinceBarrier
  <2> QED
    BY <2>1, <1>1, <1>3 DEF QuietSinceBarrier
<1>12. MarkersAreCurrent'
  BY <1>1, <1>2, <1>6, MarkersStep DEF MarkersAreCurrent
<1> QED
  BY <1>3, <1>4, <1>5, <1>6, <1>8, <1>9, <1>10, <1>11, <1>12

\* Marking and unmarking a player, who stays a member.
LEMMA PresenceInv ==
    ASSUME IndInv, NEW s \in Seats, SeatOffline(s) \/ SeatOnline(s)
    PROVE  IndInv'
<1> USE DEF IndInv
<1>1. /\ Certify /\ s \in members
      /\ UNCHANGED <<epoch, controllers, usedPublicKeys, recovery, voided, transfer, returnRoots>>
      /\ recovery = NotPending /\ transfer = NotPending
  BY DEF SeatOffline, SeatOnline
<1>2. /\ \A t \in Seats \ {s} : offline'[t] = offline[t]
      /\ offline'[s] = height + 1 \/ offline'[s] = 0
      /\ offline' \in [Seats -> 0..height + 1]
  <2>1. PICK since \in {0, height + 1} : offline' = [offline EXCEPT ![s] = since]
    BY DEF SeatOffline, SeatOnline
  <2>2. offline \in [Seats -> 0..height] /\ height \in Nat
    BY DEF MTypeOK
  <2> QED
    BY <2>1, <2>2
<1>3. controllers' \in [Seats -> Controller]
  BY <1>1 DEF MTypeOK
<1>4. Extend /\ QuietSinceBarrier' /\ intentBarrier' \in 0..height'
  BY <1>1, CertifyStep
<1>5. MTypeOK' /\ LogIsCurrent'
  BY <1>1, <1>2, <1>3, <1>4, LogStep DEF MTypeOK
<1>6. KeysAreReserved' /\ KeysServeOnce'
  BY <1>1, <1>2, <1>3, <1>4, KeysKept
<1>7. members' = members /\ AuthorityIsValid' /\ VotersSurvive'
  BY <1>1, SameMembers
<1>8. TakeoverFits' /\ TransferFits' /\ ConsentIsFresh'
  BY <1>1 DEF TakeoverFits, TransferFits, ConsentIsFresh
<1>9. MarkersAreCurrent'
  <2>1. \A t \in Seats : offline'[t] # 0 =>
           /\ t \in members \/ voided
           /\ offline'[t] = height + 1 \/ offline'[t] = offline[t]
    BY <1>1, <1>2 DEF MarkersAreCurrent
  <2> QED
    BY <2>1, <1>1, <1>2, <1>3, <1>4, <1>7, MarkersStep
<1> QED
  BY <1>4, <1>5, <1>6, <1>7, <1>8, <1>9

\* A pending takeover or transfer, as a record, is told from none by its entry.
LEMMA PendingIsSomething ==
    ASSUME NEW x, x.entry # 0
    PROVE  x # NotPending
BY DEF NotPending

\* Fresh keys of an authorization.
LEMMA FreshKeys ==
    ASSUME MTypeOK, KeysAreReserved, NEW seats \in SUBSET Seats, NEW keys \in replacementKeys(seats)
    PROVE  /\ Assignment(keys) /\ DOMAIN keys = seats
           /\ \A s \in seats : keys[s] \in Keys
           /\ \A s \in DOMAIN keys, h \in 0..height, t \in Seats :
                 log[h].controllers[t].publicKey # keys[s]
<1>1. keys \in [seats -> Keys \ usedPublicKeys]
      /\ \A s, t \in seats : keys[s] = keys[t] => s = t
  BY DEF replacementKeys
<1> QED
  BY <1>1 DEF Assignment, KeysAreReserved

\* What freezing seats under a new host leaves of the controllers.
LEMMA FrozenSeats ==
    ASSUME MTypeOK, NEW seats \in SUBSET Seats, NEW host \in Seats,
           controllers' = frozen(seats, host)
    PROVE  /\ controllers' \in [Seats -> Controller]
           /\ \A s \in Seats : /\ controllers'[s].publicKey = controllers[s].publicKey
                               /\ controllers'[s].activatedAt = controllers[s].activatedAt
           /\ \A s \in seats : /\ controllers'[s].kind = "bot"
                               /\ controllers'[s].status = "pending-recovery"
                               /\ controllers'[s].hostSeat = host
           /\ \A s \in Seats \ seats : controllers'[s] = controllers[s]
           /\ members' = members \ seats
<1> DEFINE ice(s) == [controllers[s] EXCEPT !.hostSeat = host, !.kind = "bot",
                                            !.status = "pending-recovery"]
<1>1. \A s \in Seats : controllers'[s] = IF s \in seats THEN ice(s) ELSE controllers[s]
  BY DEF frozen
<1>2. \A s \in Seats : controllers[s] \in Controller
  BY DEF MTypeOK
<1>3. ASSUME NEW s \in Seats
      PROVE  /\ ice(s) \in Controller
             /\ ice(s).publicKey = controllers[s].publicKey
             /\ ice(s).activatedAt = controllers[s].activatedAt
             /\ ice(s).kind = "bot" /\ ice(s).status = "pending-recovery"
             /\ ice(s).hostSeat = host
  <2>1. PICK c \in Controller : c = controllers[s]
    BY <1>2
  <2> DEFINE c1 == [c EXCEPT !.hostSeat = host]
             c2 == [c1 EXCEPT !.kind = "bot"]
             c3 == [c2 EXCEPT !.status = "pending-recovery"]
  <2>2. /\ c1 \in Controller /\ c1.hostSeat = host
        /\ c1.publicKey = c.publicKey /\ c1.activatedAt = c.activatedAt
    BY DEF Controller
  <2> HIDE DEF c1
  <2>3. /\ c2 \in Controller /\ c2.hostSeat = host /\ c2.kind = "bot"
        /\ c2.publicKey = c.publicKey /\ c2.activatedAt = c.activatedAt
    BY <2>2 DEF Controller
  <2> HIDE DEF c2
  <2>4. /\ c3 \in Controller /\ c3.hostSeat = host /\ c3.kind = "bot"
        /\ c3.publicKey = c.publicKey /\ c3.activatedAt = c.activatedAt
        /\ c3.status = "pending-recovery"
    BY <2>3 DEF Controller
  <2>5. ice(s) = c3
    BY <2>1 DEF c1, c2
  <2> QED
    BY <2>1, <2>4, <2>5
<1>4. controllers' \in [Seats -> Controller]
  <2>1. controllers' = [s \in Seats |-> IF s \in seats THEN ice(s) ELSE controllers[s]]
    BY DEF frozen
  <2> HIDE DEF ice
  <2> QED
    BY <2>1, <1>2, <1>3
<1> HIDE DEF ice
<1>5. members' = members \ seats
  <2>1. \A s \in Seats : s \in members' <=> s \in members /\ s \notin seats
    BY <1>1, <1>3 DEF members
  <2> QED
    BY <2>1 DEF members
<1> QED
  BY <1>1, <1>3, <1>4, <1>5

\* Changing one takeover of the list of takeovers.
LEMMA RootsStep ==
    ASSUME NEW roots \in Seq(Root), NEW i \in DOMAIN roots, NEW n \in Nat
    PROVE  /\ [roots EXCEPT ![i].finalAuthorization = n] \in Seq(Root)
           /\ [roots EXCEPT ![i].finalAuthorization = n][i].finalAuthorization = n
           /\ DOMAIN [roots EXCEPT ![i].finalAuthorization = n] = DOMAIN roots
           /\ [roots EXCEPT ![i].activation = n] \in Seq(Root)
<1>1. roots[i] \in Root
  OBVIOUS
<1>2. /\ [roots[i] EXCEPT !.finalAuthorization = n] \in Root
      /\ [roots[i] EXCEPT !.activation = n] \in Root
      /\ [roots[i] EXCEPT !.finalAuthorization = n].finalAuthorization = n
  BY <1>1 DEF Root
<1>3. \A r \in Root : [roots EXCEPT ![i] = r] \in Seq(Root)
  OBVIOUS
<1>4. /\ [roots EXCEPT ![i].finalAuthorization = n]
            = [roots EXCEPT ![i] = [roots[i] EXCEPT !.finalAuthorization = n]]
      /\ [roots EXCEPT ![i].activation = n]
            = [roots EXCEPT ![i] = [roots[i] EXCEPT !.activation = n]]
  OBVIOUS
<1> QED
  BY <1>2, <1>3, <1>4

\* A takeover is authorized, or its authorization replaced.
LEMMA TakeoverStep ==
    ASSUME IndInv, Certify, transfer = NotPending,
           NEW departed \in Seats, NEW seats \in SUBSET Seats, departed \in seats,
           NEW host \in members \ seats, NEW keys \in replacementKeys(seats),
           controllers' = frozen(seats, host),
           usedPublicKeys' = usedPublicKeys \cup {keys[s] : s \in seats},
           recovery' = Authorization(departed, host, keys, members \ seats),
           epoch' = epoch + 1,
           UNCHANGED <<offline, voided, transfer>>,
           returnRoots' \in Seq(Root),
           \E i \in DOMAIN returnRoots' : returnRoots'[i].finalAuthorization = height + 1,
           offline[departed] # 0,
           \A s \in Seats : offline[s] # 0 => s \in members \ seats \/ s = departed,
           \A s \in Seats \ seats : controllers[s].hostSeat \in members \ seats,
           Cardinality(members \ seats) >= 3
              \/ Cardinality(members \ seats) >= Cardinality(Seats \ Bots)
    PROVE  IndInv'
<1> USE DEF IndInv
<1>1. host \in Seats /\ members \subseteq Seats
  BY DEF members
<1>2. /\ controllers' \in [Seats -> Controller]
      /\ \A s \in Seats : /\ controllers'[s].publicKey = controllers[s].publicKey
                          /\ controllers'[s].activatedAt = controllers[s].activatedAt
      /\ \A s \in seats : /\ controllers'[s].kind = "bot"
                          /\ controllers'[s].status = "pending-recovery"
                          /\ controllers'[s].hostSeat = host
      /\ \A s \in Seats \ seats : controllers'[s] = controllers[s]
      /\ members' = members \ seats
  BY <1>1, FrozenSeats
<1>3. Extend /\ QuietSinceBarrier' /\ intentBarrier' \in 0..height'
  BY CertifyStep
<1>4. offline' \in [Seats -> 0..height + 1] /\ height \in Nat /\ epoch \in Nat
  BY DEF MTypeOK
<1>5. /\ Assignment(keys) /\ DOMAIN keys = seats
      /\ \A s \in seats : keys[s] \in Keys
      /\ \A s \in DOMAIN keys, h \in 0..height, t \in Seats :
            log[h].controllers[t].publicKey # keys[s]
  BY FreshKeys
<1>6. /\ usedPublicKeys \subseteq usedPublicKeys' /\ usedPublicKeys' \subseteq Keys
      /\ \A s \in seats : keys[s] \in usedPublicKeys'
  BY <1>5 DEF MTypeOK
<1>7. height' = height + 1 /\ LogIsCurrent' /\ ~voided /\ MTypeOK'
  <2>1. /\ height' = height + 1 /\ height' \in Nat /\ ~voided
        /\ log' \in [0..height' ->
                        [controllers : [Seats -> Controller], offline : [Seats -> Nat]]]
        /\ LogIsCurrent'
        /\ \A c \in consents' : Statement(c)'
    BY <1>2, <1>3, <1>4, LogStep
  <2>2. voided' \in BOOLEAN /\ epoch' \in Nat
    BY <1>4 DEF MTypeOK
  <2> QED
    BY <1>2, <1>3, <1>4, <1>6, <2>1, <2>2 DEF MTypeOK
<1>8. KeysAreReserved' /\ KeysServeOnce'
  BY <1>2, <1>3, <1>4, <1>6, KeysKept
<1>9. Unserved(keys)'
  BY <1>2, <1>3, <1>4, <1>5, <1>6, StillUnserved
<1>10. AuthorityIsValid'
  <2>1. \A s \in Seats : controllers'[s].hostSeat \in members'
    BY <1>2
  <2>2. \A s \in Seats : controllers'[s].kind = "human" => s \notin seats
    BY <1>2
  <2> QED
    BY <2>1, <2>2, <1>2, <1>6 DEF AuthorityIsValid
<1>11. /\ recovery'.entry = height + 1 /\ recovery'.replacements = keys
       /\ recovery'.departedSeat = departed /\ recovery'.hostSeat = host
       /\ recovery'.recoverers = [s \in members \ seats |-> controllers[s].publicKey]
       /\ recovery' # NotPending
  <2>1. recovery'.entry = height + 1
    BY DEF Authorization
  <2> QED
    BY <2>1, <1>4, PendingIsSomething DEF Authorization
<1>12. recoverersAreCurrent'
  <2>1. [s \in members \ seats |-> controllers[s].publicKey]
           = [s \in members' |-> controllers'[s].publicKey]
    BY <1>1, <1>2
  <2> QED
    BY <2>1, <1>11 DEF recoverersAreCurrent
<1>13. TakeoverFits'
  <2>1. Unserved(recovery.replacements)'
    <3>1. recovery'.replacements = keys
      BY <1>11
    <3> QED
      BY ONLY <3>1, <1>9, Zenon DEF Unserved, Assignment
  <2> QED
    BY <2>1, <1>2, <1>5, <1>7, <1>11, <1>12 DEF TakeoverFits
<1>14. TransferFits' /\ ConsentIsFresh'
  BY DEF TransferFits, ConsentIsFresh
<1>15. MarkersAreCurrent'
  BY <1>2, <1>3, <1>4, <1>11, MarkersStep
<1>16. VotersSurvive'
  BY <1>2 DEF VotersSurvive
<1> QED
  BY <1>3, <1>7, <1>8, <1>10, <1>13, <1>14, <1>15, <1>16

LEMMA RecoveryAuthorizeInv ==
    ASSUME IndInv, NEW departed \in Seats, NEW host \in Seats, RecoveryAuthorize(departed, host)
    PROVE  IndInv'
<1> USE DEF IndInv
<1> DEFINE seats == affected(departed)
           root == [finalAuthorization |-> height + 1, activation |-> 0, departedSeat |-> departed,
                    lastHumanGameKey |-> controllers[departed].publicKey, affectedSeats |-> seats]
<1>1. /\ Certify /\ recovery = NotPending /\ transfer = NotPending
      /\ departed \in members /\ host \in members \ {departed} /\ offline[departed] # 0
      /\ enoughRemain(departed)
      /\ controllers' = frozen(seats, host) /\ epoch' = epoch + 1
      /\ returnRoots' = Append(returnRoots, root)
      /\ UNCHANGED <<offline, voided, transfer>>
  BY DEF RecoveryAuthorize, transferInTheWay
<1>2. PICK keys \in replacementKeys(seats) :
         /\ usedPublicKeys' = usedPublicKeys \cup {keys[s] : s \in seats}
         /\ recovery' = Authorization(departed, host, keys, members \ {departed})
  BY DEF RecoveryAuthorize
<1>3. seats \subseteq Seats /\ departed \in seats
      /\ \A s \in Seats : s \in seats <=> s = departed \/ controllers[s].hostSeat = departed
  BY DEF affected
<1> HIDE DEF seats
<1>4. \A s \in members : s \in Seats /\ controllers[s].hostSeat = s
  BY DEF members, AuthorityIsValid
<1>5. members \ seats = members \ {departed}
  BY <1>3, <1>4
<1>6. returnRoots' \in Seq(Root)
      /\ \E i \in DOMAIN returnRoots' : returnRoots'[i].finalAuthorization = height + 1
  <2>1. root \in Root
    BY <1>3 DEF MTypeOK, Root, Controller
  <2>2. returnRoots \in Seq(Root)
    BY DEF MTypeOK
  <2>3. root.finalAuthorization = height + 1
    OBVIOUS
  <2> HIDE DEF root
  <2>4. returnRoots' \in Seq(Root) /\ Len(returnRoots') = Len(returnRoots) + 1
        /\ returnRoots'[Len(returnRoots) + 1] = root
    BY <2>1, <2>2, <1>1
  <2> QED
    BY <2>2, <2>3, <2>4
<1>7. \A s \in Seats \ seats : controllers[s].hostSeat \in members \ seats
  BY <1>3, <1>5 DEF AuthorityIsValid
<1>8. ~voided
  BY <1>1 DEF Certify, Extend
<1>9. \A s \in Seats : offline[s] # 0 => s \in members \ seats \/ s = departed
  BY <1>1, <1>5, <1>8 DEF MarkersAreCurrent
<1>10. Cardinality(members \ seats) >= 3
  <2>1. IsFiniteSet(members)
    BY MembersAssumption, FS_Subset DEF members
  <2>2. Cardinality(members) \in Nat /\ Cardinality(members \ {departed}) = Cardinality(members) - 1
    BY <2>1, <1>1, FS_CardinalityType, FS_RemoveElement
  <2>3. Cardinality(members \ {departed}) >= quorumSize(Cardinality(members))
    BY <1>1 DEF enoughRemain
  <2>4. \A n \in Nat : n - 1 >= quorumSize(n) => n - 1 >= 3
    BY DEF quorumSize
  <2> QED
    BY <2>2, <2>3, <2>4, <1>5
<1> QED
  BY <1>1, <1>2, <1>3, <1>5, <1>6, <1>7, <1>9, <1>10, TakeoverStep

LEMMA RecoveryAmendInv ==
    ASSUME IndInv, NEW host \in Seats, RecoveryAmend(host)
    PROVE  IndInv'
<1> USE DEF IndInv
<1>1. PICK seats, departed :
         seats = DOMAIN recovery.replacements /\ departed = recovery.departedSeat
  OBVIOUS
<1>2. /\ Certify /\ recovery # NotPending /\ transfer = NotPending
      /\ offline[departed] # 0 /\ host \in members
      /\ controllers' = frozen(seats, host) /\ epoch' = epoch + 1
      /\ UNCHANGED <<offline, voided, transfer>>
  BY <1>1 DEF RecoveryAmend, transferInTheWay
<1>3. PICK keys \in replacementKeys(seats) :
         /\ usedPublicKeys' = usedPublicKeys \cup {keys[s] : s \in seats}
         /\ recovery' = Authorization(departed, host, keys, members)
  BY <1>1 DEF RecoveryAmend
<1>4. /\ seats \subseteq Seats /\ departed \in seats
      /\ \A s \in seats : controllers[s].kind = "bot"
  BY <1>1, <1>2 DEF TakeoverFits, Unserved, Assignment
<1>5. members \ seats = members
  BY <1>4 DEF members
<1>6. returnRoots' \in Seq(Root)
      /\ \E i \in DOMAIN returnRoots' : returnRoots'[i].finalAuthorization = height + 1
  <2>1. PICK i \in DOMAIN returnRoots :
           returnRoots' = [returnRoots EXCEPT ![i].finalAuthorization = height + 1]
    BY DEF RecoveryAmend
  <2>2. returnRoots \in Seq(Root) /\ height + 1 \in Nat
    BY DEF MTypeOK
  <2> QED
    BY <2>1, <2>2, RootsStep
<1>7. \A s \in Seats \ seats : controllers[s].hostSeat \in members \ seats
  BY <1>5 DEF AuthorityIsValid
<1>8. ~voided
  BY <1>2 DEF Certify, Extend
<1>9. \A s \in Seats : offline[s] # 0 => s \in members \ seats \/ s = departed
  BY <1>1, <1>5, <1>8 DEF MarkersAreCurrent
<1>10. \/ Cardinality(members \ seats) >= 3
       \/ Cardinality(members \ seats) >= Cardinality(Seats \ Bots)
  BY <1>5 DEF VotersSurvive
<1>11. departed \in Seats /\ seats \in SUBSET Seats /\ host \in members \ seats
  BY <1>2, <1>4, <1>5
<1> QED
  BY <1>2, <1>3, <1>4, <1>5, <1>6, <1>7, <1>9, <1>10, <1>11, TakeoverStep

\* The bots take over, with the keys that waited for them.
LEMMA RecoveryActivateInv ==
    ASSUME IndInv, RecoveryActivate
    PROVE  IndInv'
<1> USE DEF IndInv
<1>1. PICK keys, departed, host :
         /\ keys = recovery.replacements
         /\ departed = recovery.departedSeat /\ host = recovery.hostSeat
  OBVIOUS
<1> DEFINE seats == DOMAIN keys
           bot(s) == [publicKey |-> keys[s], hostSeat |-> host, kind |-> "bot",
                      status |-> "active", activatedAt |-> height + 1]
<1>2. /\ Certify /\ recovery # NotPending /\ transfer = NotPending
      /\ controllers' = [s \in Seats |-> IF s \in seats THEN bot(s) ELSE controllers[s]]
      /\ epoch' = epoch + 1
      /\ offline' = [s \in Seats |-> IF s = departed THEN 0 ELSE offline[s]]
      /\ recovery' = NotPending
      /\ UNCHANGED <<usedPublicKeys, voided, transfer>>
  BY <1>1 DEF RecoveryActivate, transferInTheWay, unmarked
<1>3. /\ Unserved(keys) /\ Assignment(keys) /\ seats \subseteq Seats
      /\ departed \in seats /\ departed \in Seats
      /\ host \in members /\ host \in Seats
      /\ \A s \in seats : controllers[s].kind = "bot" /\ keys[s] \in Keys /\ keys[s] \in usedPublicKeys
  BY <1>1, <1>2 DEF TakeoverFits, Unserved, Assignment, members
<1>4. /\ height \in Nat /\ epoch \in Nat
      /\ controllers \in [Seats -> Controller] /\ offline \in [Seats -> 0..height]
  BY DEF MTypeOK
<1>5. /\ \A s \in seats : controllers'[s] = bot(s)
      /\ \A s \in Seats \ seats : controllers'[s] = controllers[s]
  BY <1>2, <1>3
<1>6. controllers' \in [Seats -> Controller] /\ offline' \in [Seats -> 0..height + 1]
  <2>1. \A s \in seats : bot(s) \in Controller
    BY <1>3, <1>4 DEF Controller
  <2> HIDE DEF bot
  <2> QED
    BY <2>1, <1>2, <1>4
<1>7. ASSUME NEW s \in seats
      PROVE  /\ controllers'[s].publicKey = keys[s]
             /\ controllers'[s].activatedAt = height + 1
             /\ controllers'[s].kind = "bot" /\ controllers'[s].hostSeat = host
  <2>1. controllers'[s] = bot(s)
    BY <1>5
  <2> QED
    BY <2>1
<1> HIDE DEF bot
<1>8. Extend /\ QuietSinceBarrier' /\ intentBarrier' \in 0..height'
  BY <1>2, CertifyStep
<1>9. returnRoots' \in Seq(Root)
  <2>1. PICK i \in DOMAIN returnRoots :
           returnRoots' = [returnRoots EXCEPT ![i].activation = height + 1]
    BY DEF RecoveryActivate
  <2>2. returnRoots \in Seq(Root) /\ height + 1 \in Nat
    BY DEF MTypeOK
  <2> QED
    BY <2>1, <2>2, RootsStep
<1>10. /\ height' = height + 1 /\ height' \in Nat /\ ~voided
       /\ log' \in [0..height' ->
                       [controllers : [Seats -> Controller], offline : [Seats -> Nat]]]
       /\ LogIsCurrent'
       /\ \A c \in consents' : Statement(c)'
  BY <1>6, <1>8, LogStep
<1>11. MTypeOK'
  <2>1. voided' \in BOOLEAN /\ usedPublicKeys' \subseteq Keys /\ epoch' \in Nat
    BY <1>2, <1>4 DEF MTypeOK
  <2> QED
    BY <2>1, <1>6, <1>8, <1>9, <1>10 DEF MTypeOK
<1>12. KeysAreReserved' /\ KeysServeOnce'
  BY <1>2, <1>3, <1>5, <1>6, <1>7, <1>8, KeysStep
<1>13. members' = members
  <2>1. \A s \in Seats : s \in members' <=> s \in members
    BY <1>3, <1>5, <1>7 DEF members
  <2> QED
    BY <2>1 DEF members
<1>14. AuthorityIsValid'
  <2>1. \A s, t \in Seats : controllers'[s].publicKey = controllers'[t].publicKey => s = t
    BY <1>10, <1>12 DEF KeysServeOnce, LogIsCurrent
  <2>2. \A s \in Seats : /\ controllers'[s].publicKey \in usedPublicKeys'
                         /\ controllers'[s].hostSeat \in members'
                         /\ controllers'[s].kind = "human" => s \notin seats
    <3>1. usedPublicKeys' = usedPublicKeys
      BY <1>2
    <3>2. ASSUME NEW s \in seats
          PROVE  /\ controllers'[s].publicKey \in usedPublicKeys'
                 /\ controllers'[s].hostSeat \in members' /\ controllers'[s].kind # "human"
      BY <1>3, <1>7, <1>13, <3>1
    <3>3. ASSUME NEW s \in Seats \ seats
          PROVE  /\ controllers'[s].publicKey \in usedPublicKeys'
                 /\ controllers'[s].hostSeat \in members'
      <4>1. controllers[s].publicKey \in usedPublicKeys /\ controllers[s].hostSeat \in members
        BY DEF AuthorityIsValid
      <4> QED
        BY <1>5, <1>13, <3>1, <4>1
    <3> QED
      BY <3>2, <3>3
  <2> QED
    BY <2>1, <2>2, <1>5 DEF AuthorityIsValid
<1>15. TakeoverFits' /\ TransferFits' /\ ConsentIsFresh'
  BY <1>2 DEF TakeoverFits, TransferFits, ConsentIsFresh
<1>16. MarkersAreCurrent'
  <2>1. ASSUME NEW s \in Seats, offline'[s] # 0
        PROVE  s \in members /\ s \notin seats /\ offline'[s] = offline[s]
    <3>1. s # departed /\ offline'[s] = offline[s]
      BY <2>1, <1>2
    <3>2. s \in members
      BY <3>1, <2>1, <1>1, <1>10 DEF MarkersAreCurrent
    <3> QED
      BY <3>1, <3>2, <1>3 DEF members
  <2> QED
    BY <2>1, <1>5, <1>6, <1>8, <1>13, MarkersStep
<1>17. VotersSurvive'
  BY <1>13 DEF VotersSurvive
<1> QED
  BY <1>8, <1>10, <1>11, <1>12, <1>14, <1>15, <1>16, <1>17

\* The game is void: nothing follows.
LEMMA RecoveryVoidInv ==
    ASSUME IndInv, RecoveryVoid
    PROVE  IndInv'
<1> USE DEF IndInv
<1>1. /\ Certify /\ recovery # NotPending /\ transfer = NotPending
      /\ recovery' = NotPending /\ voided' = TRUE
      /\ UNCHANGED <<epoch, controllers, usedPublicKeys, offline, transfer, returnRoots>>
  BY DEF RecoveryVoid, transferInTheWay
<1>2. controllers' \in [Seats -> Controller] /\ offline' \in [Seats -> 0..height + 1]
  BY <1>1 DEF MTypeOK
<1>3. Extend /\ QuietSinceBarrier' /\ intentBarrier' \in 0..height'
  BY <1>1, CertifyStep
<1>4. MTypeOK' /\ LogIsCurrent'
  BY <1>1, <1>2, <1>3, LogStep DEF MTypeOK
<1>5. KeysAreReserved' /\ KeysServeOnce'
  BY <1>1, <1>2, <1>3, KeysKept
<1>6. members' = members /\ AuthorityIsValid' /\ VotersSurvive'
  BY <1>1, SameMembers
<1>7. TakeoverFits' /\ TransferFits' /\ ConsentIsFresh'
  BY <1>1 DEF TakeoverFits, TransferFits, ConsentIsFresh
<1>8. MarkersAreCurrent'
  BY <1>1, <1>2, <1>3, MarkersStep
<1> QED
  BY <1>3, <1>4, <1>5, <1>6, <1>7, <1>8

\* Somebody signs the consent to a transfer; the log stays as it is.
LEMMA SignConsentInv ==
    ASSUME IndInv, NEW seat \in Seats, SignConsent(seat)
    PROVE  IndInv'
<1> USE DEF IndInv
<1>1. UNCHANGED <<height, epoch, controllers, usedPublicKeys, offline, recovery, voided,
                  transfer, returnRoots, intentBarrier, log>>
  BY DEF SignConsent, control
<1>2. ASSUME NEW mode, NEW signers, NEW moves \in SUBSET Seats, NEW root,
             NEW c \in Consent(mode, seat, signers, moves, root)
      PROVE  Statement(c)
  <2>1. PICK keys \in replacementKeys(moves) :
           c.seat = seat /\ c.anchor = height /\ c.replacements = keys
    BY DEF Consent
  <2>2. Assignment(keys)
    BY FreshKeys
  <2>3. height \in 0..height
    BY DEF MTypeOK
  <2> QED
    BY <2>1, <2>2, <2>3 DEF Statement
<1>3. movesLive(seat) \subseteq Seats
  BY DEF movesLive
<1>4. \A i \in DOMAIN returnRoots : movesBack(seat, returnRoots[i]) \subseteq Seats
  <2>1. \A i \in DOMAIN returnRoots : returnRoots[i] \in Root
    BY DEF MTypeOK
  <2>2. \A root \in Root : root.affectedSeats \subseteq Seats
    BY DEF Root
  <2> QED
    BY <2>1, <2>2 DEF movesBack
<1>5. \A c \in consents' : Statement(c)
  <2>1. PICK kept \in SUBSET consents :
           \/ \E c \in Consent("live", seat, {controllers[seat].publicKey}, movesLive(seat), NoRoot) :
                 consents' = kept \cup {c}
           \/ \E i \in DOMAIN returnRoots, signers \in {memberKeys} \cup {{key} : key \in playerKeys(seat)} :
                 \E c \in Consent("return", seat, signers, movesBack(seat, returnRoots[i]), returnRoots[i]) :
                    consents' = kept \cup {c}
    BY DEF SignConsent
  <2>2. \A c \in kept : Statement(c)
    BY <2>1 DEF MTypeOK
  <2>3. PICK c : consents' = kept \cup {c} /\ Statement(c)
    BY <2>1, <1>2, <1>3, <1>4
  <2> QED
    BY <2>2, <2>3
<1>6. MTypeOK'
  BY <1>1, <1>5 DEF MTypeOK, Statement
<1>7. members' = members /\ AuthorityIsValid' /\ VotersSurvive'
  BY <1>1, SameMembers
<1>8. LogIsCurrent' /\ KeysAreReserved' /\ KeysServeOnce' /\ QuietSinceBarrier'
  BY <1>1 DEF LogIsCurrent, KeysAreReserved, KeysServeOnce, QuietSinceBarrier
<1>9. ConsentIsFresh' /\ MarkersAreCurrent'
  BY <1>1, <1>7 DEF ConsentIsFresh, MarkersAreCurrent
<1>10. TakeoverFits'
  <2>1. recoverersAreCurrent => recoverersAreCurrent'
    BY <1>1, <1>7 DEF recoverersAreCurrent
  <2> QED
    BY <2>1, <1>1, <1>7 DEF TakeoverFits, Unserved
<1>11. TransferFits'
  BY <1>1 DEF TransferFits, Unserved, Statement
<1> QED
  BY <1>6, <1>7, <1>8, <1>9, <1>10, <1>11

\* A consent is used: its keys are reserved, and it is about the members of now.
LEMMA TransferAuthorizeInv ==
    ASSUME IndInv, NEW c \in consents, TransferAuthorize(c)
    PROVE  IndInv'
<1> USE DEF IndInv
<1>1. /\ Certify /\ recovery = NotPending /\ transfer = NotPending
      /\ consentIsRecent(c)
      /\ ownerConsents(c) \/ returnConsents(c)
      /\ \A s \in DOMAIN c.replacements : /\ c.oldPublicKeys[s] = controllers[s].publicKey
                                          /\ c.replacements[s] \notin usedPublicKeys
      /\ transfer' = [entry |-> height + 1, statement |-> c]
      /\ UNCHANGED <<epoch, controllers, offline, recovery, voided, returnRoots>>
  BY DEF TransferAuthorize
<1>2. usedPublicKeys' = usedPublicKeys \cup {c.replacements[s] : s \in DOMAIN c.replacements}
  BY DEF TransferAuthorize, reserved
<1>3. /\ c.seat \in Seats /\ c.anchor \in 0..height /\ Assignment(c.replacements)
      /\ height \in Nat
  BY DEF MTypeOK, Statement
<1>4. /\ usedPublicKeys \subseteq usedPublicKeys' /\ usedPublicKeys' \subseteq Keys
      /\ \A s \in DOMAIN c.replacements : c.replacements[s] \in usedPublicKeys'
  BY <1>2, <1>3 DEF MTypeOK, Assignment
<1>5. controllers' \in [Seats -> Controller] /\ offline' \in [Seats -> 0..height + 1]
  BY <1>1 DEF MTypeOK
<1>6. Extend /\ QuietSinceBarrier' /\ intentBarrier' \in 0..height'
  BY <1>1, CertifyStep
<1>7. /\ height' = height + 1 /\ LogIsCurrent'
      /\ \A h \in 0..height : log'[h] = log[h]
      /\ log'[height + 1] = log[height]
  BY <1>1, <1>5, <1>6, LogStep DEF LogIsCurrent
<1>8. MTypeOK'
  BY <1>1, <1>4, <1>5, <1>6, LogStep DEF MTypeOK
<1>9. KeysAreReserved' /\ KeysServeOnce'
  BY <1>1, <1>4, <1>5, <1>6, KeysKept
<1>10. members' = members /\ AuthorityIsValid' /\ VotersSurvive'
  BY <1>1, <1>4, SameMembers
<1>11. transfer'.statement = c /\ transfer' # NotPending
  BY <1>1, <1>3, PendingIsSomething
<1>12. TakeoverFits'
  BY <1>1 DEF TakeoverFits
<1>13. TransferFits'
  <2>1. Unserved(c.replacements)'
    <3>1. PICK keys : keys = c.replacements
      OBVIOUS
    <3>2. \A s \in DOMAIN keys : \A h \in 0..height, t \in Seats :
             log[h].controllers[t].publicKey # keys[s]
      BY <3>1, <1>1 DEF KeysAreReserved
    <3>3. Unserved(keys)'
      BY <3>1, <3>2, <1>1, <1>3, <1>4, <1>5, <1>6, StillUnserved
    <3> QED
      BY ONLY <3>1, <3>3, Zenon DEF Unserved, Assignment
  <2>2. /\ c.nextEpoch = epoch + 1
        /\ c.seat \in DOMAIN c.replacements
        /\ \A s \in DOMAIN c.replacements :
              /\ controllers[s].status = "active"
              /\ s # c.seat => controllers[s].kind = "bot"
    <3>1. CASE ownerConsents(c)
      BY <3>1, <1>1, <1>3 DEF ownerConsents, movesLive, members, consentIsRecent
    <3>2. CASE returnConsents(c)
      BY <3>2, <1>1 DEF returnConsents, movesBack, consentIsRecent
    <3> QED
      BY <3>1, <3>2, <1>1
  <2>3. Statement(c)'
    BY <1>3, <1>7 DEF Statement
  <2>4. \A s \in DOMAIN c.replacements : controllers'[s].publicKey = c.oldPublicKeys[s]
    BY <1>1
  <2> QED
    BY <2>1, <2>2, <2>3, <2>4, <1>1, <1>11 DEF TransferFits, Unserved, Statement
<1>14. ConsentIsFresh'
  <2>1. ASSUME NEW h \in c.anchor..height + 1
        PROVE  log'[h] = log'[height + 1]
    <3>1. c.anchor >= intentBarrier /\ intentBarrier \in 0..height
      BY <1>1 DEF consentIsRecent, MTypeOK
    <3>2. (h \in intentBarrier..height /\ h \in 0..height) \/ h = height + 1
      BY <3>1, <1>3
    <3> QED
      BY <3>2, <1>7 DEF QuietSinceBarrier
  <2> QED
    BY <2>1, <1>7, <1>11 DEF ConsentIsFresh
<1>15. MarkersAreCurrent'
  BY <1>1, <1>5, <1>6, <1>10, MarkersStep DEF MarkersAreCurrent
<1> QED
  BY <1>6, <1>7, <1>8, <1>9, <1>10, <1>12, <1>13, <1>14, <1>15

LEMMA TransferCancelInv ==
    ASSUME IndInv, TransferCancel
    PROVE  IndInv'
<1> USE DEF IndInv
<1>1. /\ Certify /\ recovery = NotPending /\ transfer' = NotPending
      /\ UNCHANGED <<epoch, controllers, usedPublicKeys, offline, recovery, voided, returnRoots>>
  BY DEF TransferCancel
<1>2. controllers' \in [Seats -> Controller] /\ offline' \in [Seats -> 0..height + 1]
  BY <1>1 DEF MTypeOK
<1>3. Extend /\ QuietSinceBarrier' /\ intentBarrier' \in 0..height'
  BY <1>1, CertifyStep
<1>4. MTypeOK' /\ LogIsCurrent'
  BY <1>1, <1>2, <1>3, LogStep DEF MTypeOK
<1>5. KeysAreReserved' /\ KeysServeOnce'
  BY <1>1, <1>2, <1>3, KeysKept
<1>6. members' = members /\ AuthorityIsValid' /\ VotersSurvive'
  BY <1>1, SameMembers
<1>7. TakeoverFits' /\ TransferFits' /\ ConsentIsFresh'
  BY <1>1 DEF TakeoverFits, TransferFits, ConsentIsFresh
<1>8. MarkersAreCurrent'
  BY <1>1, <1>2, <1>3, <1>6, MarkersStep DEF MarkersAreCurrent
<1> QED
  BY <1>3, <1>4, <1>5, <1>6, <1>7, <1>8

LEMMA TransferActivateInv ==
    ASSUME IndInv, TransferActivate
    PROVE  IndInv'
<1> USE DEF IndInv
<1>1. PICK c, keys : c = transfer.statement /\ keys = c.replacements
  OBVIOUS
<1> DEFINE seats == DOMAIN keys
           moved(s) == [controllers[s] EXCEPT
                          !.publicKey = keys[s], !.hostSeat = c.seat,
                          !.kind = IF s = c.seat THEN "human" ELSE "bot",
                          !.activatedAt = height + 1]
<1>2. /\ Certify /\ recovery = NotPending /\ transfer # NotPending
      /\ controllers' = [s \in Seats |-> IF s \in seats THEN moved(s) ELSE controllers[s]]
      /\ epoch' = epoch + 1
      /\ offline' = [s \in Seats |-> IF s \in seats THEN 0 ELSE offline[s]]
      /\ transfer' = NotPending
      /\ UNCHANGED <<usedPublicKeys, recovery, voided, returnRoots>>
  BY <1>1 DEF TransferActivate, unmarked
<1>3. /\ Unserved(keys) /\ Assignment(keys) /\ seats \subseteq Seats
      /\ c.seat \in seats /\ c.seat \in Seats
      /\ \A s \in seats : /\ controllers[s].status = "active"
                          /\ s # c.seat => controllers[s].kind = "bot"
                          /\ keys[s] \in Keys /\ keys[s] \in usedPublicKeys
  BY <1>1, <1>2 DEF TransferFits, Statement, Unserved, Assignment
<1>4. /\ height \in Nat /\ epoch \in Nat
      /\ controllers \in [Seats -> Controller] /\ offline \in [Seats -> 0..height]
  BY DEF MTypeOK
<1>5. ASSUME NEW s \in seats
      PROVE  /\ moved(s) \in Controller
             /\ moved(s).publicKey = keys[s] /\ moved(s).hostSeat = c.seat
             /\ moved(s).kind = (IF s = c.seat THEN "human" ELSE "bot")
             /\ moved(s).activatedAt = height + 1 /\ moved(s).status = "active"
  <2>1. PICK k \in Controller : k = controllers[s] /\ k.status = "active"
    BY <1>3, <1>4
  <2> DEFINE k1 == [k EXCEPT !.publicKey = keys[s]]
             k2 == [k1 EXCEPT !.hostSeat = c.seat]
             k3 == [k2 EXCEPT !.kind = IF s = c.seat THEN "human" ELSE "bot"]
             k4 == [k3 EXCEPT !.activatedAt = height + 1]
  <2>2. k1 \in Controller /\ k1.publicKey = keys[s] /\ k1.status = "active"
    BY <2>1, <1>3 DEF Controller
  <2> HIDE DEF k1
  <2>3. /\ k2 \in Controller /\ k2.publicKey = keys[s] /\ k2.status = "active"
        /\ k2.hostSeat = c.seat
    BY <2>2, <1>3 DEF Controller
  <2> HIDE DEF k2
  <2>4. /\ k3 \in Controller /\ k3.publicKey = keys[s] /\ k3.status = "active"
        /\ k3.hostSeat = c.seat /\ k3.kind = IF s = c.seat THEN "human" ELSE "bot"
    BY <2>3 DEF Controller
  <2> HIDE DEF k3
  <2>5. /\ k4 \in Controller /\ k4.publicKey = keys[s] /\ k4.status = "active"
        /\ k4.hostSeat = c.seat /\ k4.kind = (IF s = c.seat THEN "human" ELSE "bot")
        /\ k4.activatedAt = height + 1
    BY <2>4, <1>4 DEF Controller
  <2>6. moved(s) = k4
    BY <2>1 DEF k1, k2, k3
  <2> QED
    BY <2>5, <2>6
<1> HIDE DEF moved
<1>6. controllers' \in [Seats -> Controller] /\ offline' \in [Seats -> 0..height + 1]
  BY <1>2, <1>4, <1>5
<1>7. /\ \A s \in seats : controllers'[s] = moved(s)
      /\ \A s \in Seats \ seats : controllers'[s] = controllers[s]
  BY <1>2, <1>3
<1>8. Extend /\ QuietSinceBarrier' /\ intentBarrier' \in 0..height'
  BY <1>2, CertifyStep
<1>9. /\ height' = height + 1 /\ height' \in Nat /\ ~voided
      /\ log' \in [0..height' ->
                      [controllers : [Seats -> Controller], offline : [Seats -> Nat]]]
      /\ LogIsCurrent'
      /\ \A d \in consents' : Statement(d)'
  BY <1>6, <1>8, LogStep
<1>10. MTypeOK'
  <2>1. voided' \in BOOLEAN /\ usedPublicKeys' \subseteq Keys /\ epoch' \in Nat
        /\ returnRoots' \in Seq(Root)
    BY <1>2, <1>4 DEF MTypeOK
  <2> QED
    BY <2>1, <1>6, <1>8, <1>9 DEF MTypeOK
<1>11. KeysAreReserved' /\ KeysServeOnce'
  BY <1>2, <1>3, <1>5, <1>6, <1>7, <1>8, KeysStep
<1>12. members' = members \cup {c.seat}
  <2>1. \A s \in Seats : s \in members' <=> s \in members \/ s = c.seat
    BY <1>3, <1>5, <1>7 DEF members
  <2> QED
    BY <2>1, <1>3 DEF members
<1>13. AuthorityIsValid'
  <2>1. \A s, t \in Seats : controllers'[s].publicKey = controllers'[t].publicKey => s = t
    BY <1>9, <1>11 DEF KeysServeOnce, LogIsCurrent
  <2>2. ASSUME NEW s \in Seats
        PROVE  /\ controllers'[s].publicKey \in usedPublicKeys'
               /\ controllers'[s].hostSeat \in members'
               /\ controllers'[s].kind = "human" =>
                     controllers'[s].hostSeat = s /\ controllers'[s].status = "active"
    <3>1. CASE s \in seats
      BY <3>1, <1>2, <1>3, <1>5, <1>7, <1>12
    <3>2. CASE s \notin seats
      BY <3>2, <1>2, <1>7, <1>12 DEF AuthorityIsValid
    <3> QED
      BY <3>1, <3>2
  <2> QED
    BY <2>1, <2>2 DEF AuthorityIsValid
<1>14. TakeoverFits' /\ TransferFits' /\ ConsentIsFresh'
  BY <1>2 DEF TakeoverFits, TransferFits, ConsentIsFresh
<1>15. MarkersAreCurrent'
  <2>1. ASSUME NEW s \in Seats, offline'[s] # 0
        PROVE  s \in members /\ s \notin seats /\ offline'[s] = offline[s]
    BY <2>1, <1>2, <1>9 DEF MarkersAreCurrent
  <2> QED
    BY <2>1, <1>6, <1>7, <1>8, <1>12, MarkersStep
<1>16. VotersSurvive'
  <2>1. members \subseteq members' /\ members' \subseteq Seats
    BY <1>3, <1>12 DEF members
  <2>2. IsFiniteSet(members')
    BY <2>1, MembersAssumption, FS_Subset
  <2>3. /\ Cardinality(members) <= Cardinality(members')
        /\ Cardinality(members) \in Nat /\ Cardinality(members') \in Nat
    BY <2>1, <2>2, FS_Subset, FS_CardinalityType
  <2>4. Cardinality(Seats \ Bots) \in Nat
    BY MembersAssumption, FS_Subset, FS_CardinalityType
  <2> QED
    BY <2>3, <2>4 DEF VotersSurvive
<1> QED
  BY <1>8, <1>9, <1>10, <1>11, <1>13, <1>14, <1>15, <1>16

-----------------------------------------------------------------------------
LEMMA NextInv == IndInv /\ [MemberNext]_memberVars => IndInv'
<1> SUFFICES ASSUME IndInv, [MemberNext]_memberVars
             PROVE  IndInv'
  OBVIOUS
<1> USE MembersAssumption
<1>1. CASE Ordinary
  BY <1>1, OrdinaryInv
<1>2. ASSUME NEW s \in Movers, SeatOffline(s) \/ SeatOnline(s)
      PROVE  IndInv'
  BY <1>2, PresenceInv
<1>3. ASSUME NEW s \in Movers, NEW host \in Seats, RecoveryAuthorize(s, host)
      PROVE  IndInv'
  BY <1>3, RecoveryAuthorizeInv
<1>4. ASSUME NEW s \in Movers, SignConsent(s)
      PROVE  IndInv'
  BY <1>4, SignConsentInv
<1>5. ASSUME NEW host \in Seats, RecoveryAmend(host)
      PROVE  IndInv'
  BY <1>5, RecoveryAmendInv
<1>6. CASE RecoveryActivate
  BY <1>6, RecoveryActivateInv
<1>7. CASE RecoveryVoid
  BY <1>7, RecoveryVoidInv
<1>8. ASSUME NEW c \in consents, TransferAuthorize(c)
      PROVE  IndInv'
  BY <1>8, TransferAuthorizeInv
<1>9. CASE TransferCancel
  BY <1>9, TransferCancelInv
<1>10. CASE TransferActivate
  BY <1>10, TransferActivateInv
<1>11. CASE UNCHANGED memberVars
  <2>1. UNCHANGED <<height, epoch, controllers, usedPublicKeys, offline, recovery, voided,
                    transfer, returnRoots, intentBarrier, consents, log>>
    BY <1>11 DEF memberVars, control
  <2>2. members' = members /\ (recoverersAreCurrent => recoverersAreCurrent')
    BY <2>1 DEF members, recoverersAreCurrent
  <2>3. MTypeOK' /\ LogIsCurrent' /\ KeysAreReserved' /\ KeysServeOnce' /\ QuietSinceBarrier'
    BY <2>1 DEF IndInv, MTypeOK, Statement, LogIsCurrent, KeysAreReserved, KeysServeOnce,
                QuietSinceBarrier
  <2>4. AuthorityIsValid' /\ VotersSurvive' /\ MarkersAreCurrent' /\ ConsentIsFresh'
    BY <2>1, <2>2 DEF IndInv, AuthorityIsValid, VotersSurvive, MarkersAreCurrent, ConsentIsFresh
  <2>5. TakeoverFits' /\ TransferFits'
    BY <2>1, <2>2 DEF IndInv, TakeoverFits, TransferFits, Unserved, Statement
  <2> QED
    BY <2>3, <2>4, <2>5 DEF IndInv
<1> QED
  BY <1>1, <1>2, <1>3, <1>4, <1>5, <1>6, <1>7, <1>8, <1>9, <1>10, <1>11 DEF MemberNext

\* The inductive invariant holds of every table.
THEOREM Invariance == MemberSpec => []IndInv
  BY InitInv, NextInv, PTL DEF MemberSpec

\* The controllers that replay derives always pass validateSeatAuthorities.
THEOREM ValidAuthority == MemberSpec => []AuthorityIsValid
<1>1. IndInv => AuthorityIsValid
  BY DEF IndInv
<1> QED
  BY <1>1, Invariance, PTL

\* A takeover and a transfer that are pending can still be finished: nothing
\* that may be certified in between takes their seats or their keys away.
THEOREM UsablePending == MemberSpec => []PendingStaysUsable
<1>1. IndInv => PendingStaysUsable
  <2> SUFFICES ASSUME IndInv
               PROVE  PendingStaysUsable
    OBVIOUS
  <2>1. height \in 0..height /\ log[height].controllers = controllers
    BY DEF IndInv, MTypeOK, LogIsCurrent
  <2>2. ASSUME NEW keys, Unserved(keys), NEW s \in DOMAIN keys, NEW t \in Seats
        PROVE  controllers[t].publicKey # keys[s]
    BY <2>1, <2>2 DEF Unserved
  <2> QED
    BY <2>2 DEF IndInv, PendingStaysUsable, TakeoverFits, TransferFits
<1> QED
  BY <1>1, Invariance, PTL

\* A key controls one seat for one stretch of the log.
THEOREM SingleService == MemberSpec => []KeysServeOnce
<1>1. IndInv => KeysServeOnce
  BY DEF IndInv
<1> QED
  BY <1>1, Invariance, PTL

\* A consent takes effect only on the membership that its signers saw.
THEOREM FreshConsent == MemberSpec => []ConsentIsFresh
<1>1. IndInv => ConsentIsFresh
  BY DEF IndInv
<1> QED
  BY <1>1, Invariance, PTL

\* A marker is about the player who holds the seat.
THEOREM CurrentMarkers == MemberSpec => []MarkersAreCurrent
<1>1. IndInv => MarkersAreCurrent
  BY DEF IndInv
<1> QED
  BY <1>1, Invariance, PTL

\* Takeovers never leave fewer than three voters, unless there never were more.
THEOREM EnoughVoters == MemberSpec => []VotersSurvive
<1>1. IndInv => VotersSurvive
  BY DEF IndInv
<1> QED
  BY <1>1, Invariance, PTL

-----------------------------------------------------------------------------
(***************************************************************************)
(* Whose consent counts.  The latest takeover of a seat that a bot holds   *)
(* remembers the key of the seat's last player.                            *)
(***************************************************************************)

\* The last player of the seat, without a choice.
LastHuman(seat, key) ==
    \E h \in 0..height :
        /\ log[h].controllers[seat].kind = "human"
        /\ log[h].controllers[seat].publicKey = key
        /\ \A g \in h + 1..height : log[g].controllers[seat].kind # "human"

\* The takeover is the latest of its seat.
LatestOf(i, seat) ==
    /\ returnRoots[i].departedSeat = seat
    /\ \A j \in DOMAIN returnRoots : returnRoots[j].departedSeat = seat => j <= i

RootsRemember ==
    \A seat \in Seats, i \in DOMAIN returnRoots :
        LatestOf(i, seat) /\ controllers[seat].kind = "bot"
            => LastHuman(seat, returnRoots[i].lastHumanGameKey)

ConsentCounts ==
    transfer # NotPending =>
        LET c == transfer.statement IN
        \/ \E key \in Keys : LastHuman(c.seat, key) /\ c.signers = {key}
        \/ c.mode = "return" /\ c.signers = memberKeys

Owned == IndInv /\ RootsRemember /\ ConsentCounts

\* A nonempty set of natural numbers has a least element.
LEMMA LeastExists ==
    ASSUME NEW T, T \subseteq Nat, T # {}
    PROVE  \E x \in T : \A y \in T : x <= y
<1>1. \A x, y \in Nat : x < y => <<x, y>> \in OpToRel(<, Nat)
  BY DEF OpToRel
<1>2. IsWellFoundedOn(OpToRel(<, Nat), Nat)
  BY NatLessThanWellFounded, Zenon
<1>3. PICK R : /\ IsWellFoundedOn(R, Nat)
               /\ \A x, y \in Nat : x < y => <<x, y>> \in R
  BY ONLY <1>1, <1>2, Zenon
<1>4. IsWellFoundedOn(R, Nat)
  BY ONLY <1>3, Zenon
<1>5. \E x \in T : \A y \in T : ~ (<<y, x>> \in R)
  BY ONLY <1>4, T \subseteq Nat, T # {}, WFMin, Zenon
<1>6. PICK x \in T : \A y \in T : ~ (<<y, x>> \in R)
  BY ONLY <1>5, Zenon
<1>7. \A y \in T : ~(y < x)
  BY <1>3, <1>6
<1> QED
  BY <1>7

\* So a nonempty set of natural numbers up to a bound has its maximum.
LEMMA LargestExists ==
    ASSUME NEW n \in Nat, NEW S, S \subseteq 0..n, S # {}
    PROVE  Max(S) \in S /\ \A k \in S : Max(S) >= k
<1> DEFINE T == {x \in 0..n : n - x \in S}
<1>1. \A k \in S : n - k \in T /\ k \in Int
  OBVIOUS
<1>2. T \subseteq Nat /\ \A x \in T : n - x \in S
  OBVIOUS
<1>3. T # {}
  BY <1>1
<1> HIDE DEF T
<1>4. PICK x \in T : \A y \in T : x <= y
  BY ONLY <1>2, <1>3, LeastExists
<1>5. x \in Nat /\ n - x \in S
  BY <1>2
<1>6. \A k \in S : n - x >= k
  <2> TAKE k \in S
  <2>1. x <= n - k /\ k \in Int
    BY <1>1, <1>4
  <2> QED
    BY <2>1, <1>5
<1> QED
  BY <1>5, <1>6 DEF Max

\* The last player is who lastPlayer finds.
LEMMA LastPlayerIsLast ==
    ASSUME height \in Nat, NEW seat, NEW key, LastHuman(seat, key)
    PROVE  key = lastPlayer(seat)
<1> DEFINE played == {h \in 0..height : log[h].controllers[seat].kind = "human"}
<1>1. PICK h \in 0..height :
         /\ log[h].controllers[seat].kind = "human"
         /\ log[h].controllers[seat].publicKey = key
         /\ \A g \in h + 1..height : log[g].controllers[seat].kind # "human"
  BY DEF LastHuman
<1>2. h \in played /\ \A g \in played : h >= g
  BY <1>1
<1>3. \A g \in played : (\A f \in played : g >= f) => g = h
  BY <1>2
<1>4. Max(played) = h
  BY <1>2, <1>3 DEF Max
<1> QED
  BY <1>1, <1>4 DEF lastPlayer

\* A seat that a bot holds keeps its last player.
LEMMA LastHumanStep ==
    ASSUME MTypeOK, MTypeOK', Extend, NEW seat \in Seats, NEW key,
           LastHuman(seat, key), controllers'[seat].kind = "bot"
    PROVE  LastHuman(seat, key)'
<1>1. /\ height' = height + 1 /\ height \in Nat
      /\ controllers' \in [Seats -> Controller] /\ offline' \in [Seats -> 0..height + 1]
  BY DEF MTypeOK, Extend
<1>2. /\ \A h \in 0..height : log'[h] = log[h]
      /\ log'[height + 1].controllers = controllers'
  BY <1>1, LogStep
<1>3. PICK h \in 0..height :
         /\ log[h].controllers[seat].kind = "human"
         /\ log[h].controllers[seat].publicKey = key
         /\ \A g \in h + 1..height : log[g].controllers[seat].kind # "human"
  BY DEF LastHuman
<1>4. \A g \in h + 1..height + 1 : (g \in h + 1..height /\ g \in 0..height) \/ g = height + 1
  BY <1>1
<1>5. \A g \in h + 1..height + 1 : log'[g].controllers[seat].kind # "human"
  BY <1>2, <1>3, <1>4
<1> QED
  BY <1>1, <1>2, <1>3, <1>5 DEF LastHuman

\* A player who holds a seat is the last one.
LEMMA HumanIsLast ==
    ASSUME MTypeOK, LogIsCurrent, NEW seat \in Seats, controllers[seat].kind = "human"
    PROVE  LastHuman(seat, controllers[seat].publicKey)
<1>1. height \in 0..height /\ height \in Nat /\ log[height].controllers = controllers
  BY DEF MTypeOK, LogIsCurrent
<1>2. \A g \in height + 1..height : FALSE
  BY <1>1
<1> QED
  BY <1>1, <1>2 DEF LastHuman

\* A seat that stays with its controller keeps its last player.
LEMMA LastHumanSame ==
    ASSUME MTypeOK, MTypeOK', LogIsCurrent, Extend, controllers' = controllers,
           NEW seat \in Seats, NEW key, LastHuman(seat, key)
    PROVE  LastHuman(seat, key)'
<1>1. CASE controllers[seat].kind # "human"
  <2>1. controllers[seat] \in Controller
    BY DEF MTypeOK
  <2>2. controllers'[seat].kind = "bot"
    BY <1>1, <2>1 DEF Controller
  <2> QED
    BY <2>2, LastHumanStep
<1>2. CASE controllers[seat].kind = "human"
  <2>1. /\ height' = height + 1 /\ height \in Nat
        /\ controllers' \in [Seats -> Controller] /\ offline' \in [Seats -> 0..height + 1]
    BY DEF MTypeOK, Extend
  <2>2. log'[height + 1].controllers = controllers'
    BY <2>1, LogStep
  <2>3. PICK h \in 0..height :
           /\ log[h].controllers[seat].kind = "human"
           /\ log[h].controllers[seat].publicKey = key
           /\ \A g \in h + 1..height : log[g].controllers[seat].kind # "human"
    BY DEF LastHuman
  <2>4. log[height].controllers = controllers
    BY DEF LogIsCurrent
  <2>5. h = height
    BY <1>2, <2>1, <2>3, <2>4
  <2>6. controllers[seat].publicKey = key
    BY <2>3, <2>4, <2>5
  <2>7. \A g \in height + 1 + 1..height + 1 : FALSE
    BY <2>1
  <2> QED
    BY <1>2, <2>1, <2>2, <2>6, <2>7 DEF LastHuman
<1> QED
  BY <1>1, <1>2

\* The root that the validator finds is the latest takeover of the seat.
LEMMA RootIsLatest ==
    ASSUME MTypeOK, NEW seat, returnRoot(seat) # 0
    PROVE  returnRoot(seat) \in DOMAIN returnRoots /\ LatestOf(returnRoot(seat), seat)
<1> DEFINE taken == {i \in DOMAIN returnRoots : returnRoots[i].departedSeat = seat}
           all == {0} \cup taken
<1>1. Len(returnRoots) \in Nat /\ DOMAIN returnRoots = 1..Len(returnRoots)
  BY DEF MTypeOK
<1>2. all \subseteq 0..Len(returnRoots) /\ all # {}
  BY <1>1
<1>3. Max(all) \in all /\ \A j \in all : Max(all) >= j
  BY ONLY <1>1, <1>2, LargestExists
<1>4. returnRoot(seat) = Max(all)
  BY DEF returnRoot
<1>5. returnRoot(seat) \in taken /\ \A j \in taken : returnRoot(seat) >= j
  BY <1>3, <1>4
<1> QED
  BY <1>1, <1>5 DEF LatestOf

\* A takeover adds what it has to remember.
LEMMA RootsGrow ==
    ASSUME IndInv, IndInv', RootsRemember, NEW departed \in Seats, NEW host \in Seats,
           RecoveryAuthorize(departed, host)
    PROVE  RootsRemember'
<1> DEFINE seats == affected(departed)
           n == Len(returnRoots) + 1
           root == [finalAuthorization |-> height + 1, activation |-> 0, departedSeat |-> departed,
                    lastHumanGameKey |-> controllers[departed].publicKey, affectedSeats |-> seats]
<1>1. /\ Extend /\ departed \in members /\ MTypeOK /\ MTypeOK' /\ LogIsCurrent
      /\ controllers' = frozen(seats, host)
  BY DEF RecoveryAuthorize, Certify, IndInv
<1>2. /\ seats \in SUBSET Seats /\ departed \in seats
      /\ \A s \in seats : s = departed \/ controllers[s].hostSeat = departed
  BY DEF affected
<1>3. /\ returnRoots \in Seq(Root) /\ Len(returnRoots') = n
      /\ \A i \in DOMAIN returnRoots : returnRoots'[i] = returnRoots[i]
      /\ returnRoots'[n].departedSeat = departed
      /\ returnRoots'[n].lastHumanGameKey = controllers[departed].publicKey
      /\ DOMAIN returnRoots' = 1..n /\ DOMAIN returnRoots = 1..Len(returnRoots)
      /\ Len(returnRoots) \in Nat
  <2>1. returnRoots' = Append(returnRoots, root) /\ returnRoots \in Seq(Root)
    BY DEF RecoveryAuthorize, IndInv, MTypeOK
  <2>2. root \in Root
    <3>1. controllers[departed] \in Controller /\ height + 1 \in Nat
      BY <1>1 DEF MTypeOK
    <3>2. controllers[departed].publicKey \in Keys /\ seats \in SUBSET Seats
      BY <3>1, <1>2 DEF Controller
    <3> HIDE DEF seats
    <3> QED
      BY <3>1, <3>2 DEF Root
  <2>3. root.departedSeat = departed /\ root.lastHumanGameKey = controllers[departed].publicKey
    OBVIOUS
  <2> HIDE DEF root
  <2>4. /\ Len(returnRoots') = n /\ returnRoots'[n] = root
        /\ \A i \in DOMAIN returnRoots : returnRoots'[i] = returnRoots[i]
        /\ DOMAIN returnRoots' = 1..n
    BY <2>1, <2>2
  <2> QED
    BY <2>1, <2>3, <2>4
<1> HIDE DEF seats, n
<1>4. /\ \A s \in Seats \ seats : controllers'[s] = controllers[s]
      /\ \A s \in seats : controllers'[s].kind = "bot"
  BY <1>1, <1>2, FrozenSeats
<1> SUFFICES ASSUME NEW seat \in Seats, NEW i, i \in DOMAIN returnRoots',
                    LatestOf(i, seat)', controllers'[seat].kind = "bot"
             PROVE  LastHuman(seat, returnRoots[i].lastHumanGameKey)'
  BY DEF RootsRemember
<1>5. CASE i = n
  <2>1. seat = departed
    BY <1>3, <1>5 DEF LatestOf
  <2>2. PICK key : key = controllers[departed].publicKey
    OBVIOUS
  <2>3. LastHuman(seat, key)
    BY <1>1, <2>1, <2>2, HumanIsLast DEF members
  <2>4. LastHuman(seat, key)'
    BY <1>1, <2>3, LastHumanStep
  <2> QED
    BY <1>3, <1>5, <2>2, <2>4 DEF LastHuman
<1>6. CASE i # n
  <2>1. i \in DOMAIN returnRoots /\ i < n /\ n \in DOMAIN returnRoots' /\ n \in Nat
    BY <1>3, <1>6 DEF n
  <2>2. seat # departed
    BY <1>3, <2>1 DEF LatestOf
  <2>3. LatestOf(i, seat)
    <3>1. \A j \in DOMAIN returnRoots : j \in DOMAIN returnRoots'
      BY <1>3 DEF n
    <3> QED
      BY <1>3, <2>1, <3>1 DEF LatestOf
  <2>4. controllers[seat].kind = "bot"
    <3>1. CASE seat \notin seats
      BY <3>1, <1>4
    <3>2. CASE seat \in seats
      <4>1. controllers[seat].hostSeat # seat
        BY <3>2, <1>2, <2>2
      <4>2. controllers[seat].kind # "human"
        BY <4>1 DEF IndInv, AuthorityIsValid
      <4>3. controllers[seat] \in Controller
        BY <1>1 DEF MTypeOK
      <4> QED
        BY <4>2, <4>3 DEF Controller
    <3> QED
      BY <3>1, <3>2
  <2>5. PICK key : key = returnRoots[i].lastHumanGameKey
    OBVIOUS
  <2>6. LastHuman(seat, key)
    BY <2>1, <2>3, <2>4, <2>5 DEF RootsRemember
  <2>7. LastHuman(seat, key)'
    BY <1>1, <2>6, LastHumanStep
  <2> QED
    BY <1>3, <2>1, <2>5, <2>7 DEF LastHuman
<1> QED
  BY <1>5, <1>6

\* Entries that take nobody's seat leave the memory right.
LEMMA RootsStay ==
    ASSUME MTypeOK, MTypeOK', Extend, RootsRemember,
           DOMAIN returnRoots' = DOMAIN returnRoots,
           \A i \in DOMAIN returnRoots :
              /\ returnRoots'[i].departedSeat = returnRoots[i].departedSeat
              /\ returnRoots'[i].lastHumanGameKey = returnRoots[i].lastHumanGameKey,
           \A s \in Seats : controllers'[s].kind = "bot" => controllers[s].kind = "bot"
    PROVE  RootsRemember'
<1> SUFFICES ASSUME NEW seat \in Seats, NEW i \in DOMAIN returnRoots,
                    LatestOf(i, seat)', controllers'[seat].kind = "bot"
             PROVE  LastHuman(seat, returnRoots[i].lastHumanGameKey)'
  BY DEF RootsRemember
<1>1. LatestOf(i, seat)
  BY DEF LatestOf
<1>2. PICK key : key = returnRoots[i].lastHumanGameKey
  OBVIOUS
<1>3. LastHuman(seat, key)
  BY <1>1, <1>2 DEF RootsRemember
<1>4. LastHuman(seat, key)'
  BY <1>3, LastHumanStep
<1> QED
  BY <1>2, <1>4 DEF LastHuman

\* Entries that touch the takeovers only by the entry that they refer to.
LEMMA RootsUpdated ==
    ASSUME NEW roots \in Seq(Root), NEW i \in DOMAIN roots, NEW n \in Nat, NEW roots2,
           \/ roots2 = [roots EXCEPT ![i].finalAuthorization = n]
           \/ roots2 = [roots EXCEPT ![i].activation = n]
    PROVE  /\ DOMAIN roots2 = DOMAIN roots
           /\ \A j \in DOMAIN roots :
                 /\ roots2[j].departedSeat = roots[j].departedSeat
                 /\ roots2[j].lastHumanGameKey = roots[j].lastHumanGameKey
<1>1. \A j \in DOMAIN roots : roots[j] \in Root
  OBVIOUS
<1>2. \A r \in Root : /\ [r EXCEPT !.finalAuthorization = n].departedSeat = r.departedSeat
                      /\ [r EXCEPT !.finalAuthorization = n].lastHumanGameKey = r.lastHumanGameKey
                      /\ [r EXCEPT !.activation = n].departedSeat = r.departedSeat
                      /\ [r EXCEPT !.activation = n].lastHumanGameKey = r.lastHumanGameKey
  BY DEF Root
<1>3. \E r : \/ r = [roots[i] EXCEPT !.finalAuthorization = n] /\ roots2 = [roots EXCEPT ![i] = r]
             \/ r = [roots[i] EXCEPT !.activation = n] /\ roots2 = [roots EXCEPT ![i] = r]
  OBVIOUS
<1>4. PICK r : /\ roots2 = [roots EXCEPT ![i] = r]
               /\ r.departedSeat = roots[i].departedSeat
               /\ r.lastHumanGameKey = roots[i].lastHumanGameKey
  BY <1>1, <1>2, <1>3
<1> QED
  BY <1>4

\* No entry but a takeover makes a bot of a player, and the takeovers stay.
LEMMA RootsKept ==
    ASSUME IndInv, IndInv', RootsRemember, MemberNext, Extend,
           \A s \in Movers, host \in Seats : ~RecoveryAuthorize(s, host)
    PROVE  RootsRemember'
<1>1. MTypeOK /\ MTypeOK' /\ TakeoverFits /\ TransferFits
      /\ returnRoots \in Seq(Root) /\ height + 1 \in Nat
  <2>1. MTypeOK /\ MTypeOK' /\ TakeoverFits /\ TransferFits
    BY ONLY IndInv, IndInv' DEF IndInv
  <2>2. returnRoots \in Seq(Root) /\ height \in Nat
    BY ONLY <2>1 DEF MTypeOK
  <2> QED
    BY ONLY <2>1, <2>2
<1>2. CASE returnRoots' = returnRoots /\ controllers' = controllers
  BY <1>1, <1>2, RootsStay
<1>3. ASSUME NEW host \in Seats, RecoveryAmend(host)
      PROVE  RootsRemember'
  <2> DEFINE seats == DOMAIN recovery.replacements
  <2>1. recovery # NotPending /\ controllers' = frozen(seats, host)
    BY <1>3 DEF RecoveryAmend
  <2>2. seats \in SUBSET Seats /\ \A s \in seats : controllers[s].kind = "bot"
    BY <1>1, <2>1 DEF TakeoverFits, Unserved, Assignment
  <2> HIDE DEF seats
  <2>3. \A s \in Seats : controllers'[s].kind = "bot" => controllers[s].kind = "bot"
    BY <1>1, <2>1, <2>2, FrozenSeats
  <2>4. PICK i \in DOMAIN returnRoots :
           returnRoots' = [returnRoots EXCEPT ![i].finalAuthorization = height + 1]
    BY <1>3 DEF RecoveryAmend
  <2> QED
    BY <1>1, <2>3, <2>4, RootsUpdated, RootsStay
<1>4. CASE RecoveryActivate
  <2>1. /\ recovery # NotPending
        /\ controllers' = [s \in Seats |->
              IF s \in DOMAIN recovery.replacements
              THEN [publicKey |-> recovery.replacements[s], hostSeat |-> recovery.hostSeat,
                    kind |-> "bot", status |-> "active", activatedAt |-> height + 1]
              ELSE controllers[s]]
    BY <1>4 DEF RecoveryActivate
  <2>2. \A s \in DOMAIN recovery.replacements : controllers[s].kind = "bot"
    BY <1>1, <2>1 DEF TakeoverFits
  <2>3. \A s \in Seats : controllers'[s].kind = "bot" => controllers[s].kind = "bot"
    BY <2>1, <2>2
  <2>4. PICK i \in DOMAIN returnRoots :
           returnRoots' = [returnRoots EXCEPT ![i].activation = height + 1]
    BY <1>4 DEF RecoveryActivate
  <2> QED
    BY <1>1, <2>3, <2>4, RootsUpdated, RootsStay
<1>5. CASE TransferActivate
  <2> DEFINE c == transfer.statement
             moved(s) == [controllers[s] EXCEPT
                             !.publicKey = c.replacements[s], !.hostSeat = c.seat,
                             !.kind = IF s = c.seat THEN "human" ELSE "bot",
                             !.activatedAt = height + 1]
  <2>1. /\ transfer # NotPending /\ returnRoots' = returnRoots
        /\ controllers' = [s \in Seats |-> IF s \in DOMAIN c.replacements THEN moved(s)
                                           ELSE controllers[s]]
    BY <1>5 DEF TransferActivate
  <2>2. \A s \in DOMAIN c.replacements : s # c.seat => controllers[s].kind = "bot"
    BY <1>1, <2>1 DEF TransferFits
  <2>3. ASSUME NEW s \in Seats, s = c.seat, s \in DOMAIN c.replacements
        PROVE  moved(s).kind = "human"
    <3>1. controllers[s] \in Controller
      BY <1>1 DEF MTypeOK
    <3> QED
      BY <3>1, <2>3 DEF Controller
  <2> HIDE DEF moved
  <2>4. \A s \in Seats : controllers'[s].kind = "bot" => controllers[s].kind = "bot"
    BY <2>1, <2>2, <2>3
  <2> QED
    BY <1>1, <2>1, <2>4, RootsStay
<1>6. ASSUME NEW s \in Movers, SignConsent(s)
      PROVE  RootsRemember'
  BY <1>1, <1>2, <1>6 DEF SignConsent, control
<1>7. ASSUME NEW s \in Movers, SeatOffline(s) \/ SeatOnline(s)
      PROVE  returnRoots' = returnRoots /\ controllers' = controllers
  BY <1>7 DEF SeatOffline, SeatOnline
<1>8. Ordinary \/ RecoveryVoid \/ TransferCancel \/ (\E c \in consents : TransferAuthorize(c))
          => returnRoots' = returnRoots /\ controllers' = controllers
  BY DEF Ordinary, control, RecoveryVoid, TransferCancel, TransferAuthorize
<1> QED
  BY <1>2, <1>3, <1>4, <1>5, <1>6, <1>7, <1>8 DEF MemberNext

\* A transfer is authorized by who may, and no other entry changes whose
\* consent the pending one has.
LEMMA ConsentStep ==
    ASSUME Owned, IndInv', MemberNext
    PROVE  ConsentCounts'
<1> USE MembersAssumption
<1>1. MTypeOK /\ MTypeOK' /\ LogIsCurrent /\ TransferFits /\ AuthorityIsValid
  BY DEF Owned, IndInv
<1>2. ASSUME Extend, controllers' = controllers, NEW seat \in Seats,
             NEW key \in Keys, LastHuman(seat, key)
      PROVE  LastHuman(seat, key)'
  BY <1>1, <1>2, LastHumanSame
<1>3. controllers' = controllers => memberKeys' = memberKeys
  BY DEF memberKeys, members
<1>4. CASE Ordinary
  <2>1. Extend /\ controllers' = controllers /\ transfer' = transfer
    BY <1>4 DEF Ordinary, control
  <2> SUFFICES ASSUME transfer # NotPending
               PROVE  ConsentCounts'
    BY <2>1 DEF ConsentCounts
  <2> DEFINE c == transfer.statement
  <2>2. c.seat \in Seats
    BY <1>1 DEF TransferFits, Statement
  <2>3. CASE c.mode = "return" /\ c.signers = memberKeys
    BY <1>3, <2>1, <2>3 DEF ConsentCounts
  <2>4. CASE \E key \in Keys : LastHuman(c.seat, key) /\ c.signers = {key}
    <3>1. PICK seat \in Seats, key \in Keys :
             seat = c.seat /\ LastHuman(seat, key) /\ c.signers = {key}
      BY <2>2, <2>4
    <3>2. LastHuman(seat, key)'
      BY <1>2, <2>1, <3>1
    <3>3. seat = transfer'.statement.seat /\ transfer'.statement.signers = {key}
      BY <2>1, <3>1
    <3>4. LastHuman(transfer.statement.seat, key)'
      BY <3>2, <3>3 DEF LastHuman
    <3> QED
      BY <3>3, <3>4 DEF ConsentCounts
  <2> QED
    BY <2>3, <2>4 DEF Owned, ConsentCounts
<1>5. ASSUME NEW c \in consents, TransferAuthorize(c)
      PROVE  ConsentCounts'
  <2>1. /\ Extend /\ controllers' = controllers /\ transfer'.statement = c
        /\ c.seat \in Seats
        /\ ownerConsents(c) \/ returnConsents(c)
    BY <1>1, <1>5 DEF TransferAuthorize, Certify, MTypeOK, Statement
  <2>2. ASSUME NEW key \in Keys, LastHuman(c.seat, key), c.signers = {key}
        PROVE  ConsentCounts'
    <3>1. PICK seat \in Seats : seat = c.seat
      BY <2>1
    <3>2. LastHuman(seat, key)'
      BY <1>2, <2>1, <2>2, <3>1
    <3>3. LastHuman(transfer.statement.seat, key)'
      BY <2>1, <3>1, <3>2 DEF LastHuman
    <3> QED
      BY <2>1, <2>2, <3>3 DEF ConsentCounts
  <2>3. CASE ownerConsents(c)
    <3>1. c.seat \in members /\ c.signers = {controllers[c.seat].publicKey}
      BY <2>3 DEF ownerConsents
    <3>2. controllers[c.seat].publicKey \in Keys
      BY <1>1, <2>1 DEF MTypeOK, Controller
    <3>3. LastHuman(c.seat, controllers[c.seat].publicKey)
      BY <1>1, <2>1, <3>1, HumanIsLast DEF members
    <3> QED
      BY <2>2, <3>1, <3>2, <3>3
  <2>4. CASE returnConsents(c) /\ c.signers = memberKeys
    BY <1>3, <2>1, <2>4 DEF ConsentCounts, returnConsents
  <2>5. CASE returnConsents(c) /\ c.signers = {returnRoots[returnRoot(c.seat)].lastHumanGameKey}
    <3>1. returnRoot(c.seat) # 0 /\ controllers[c.seat].kind = "bot"
      BY <2>5 DEF returnConsents
    <3>2. PICK i \in DOMAIN returnRoots : i = returnRoot(c.seat) /\ LatestOf(i, c.seat)
      BY <1>1, <3>1, RootIsLatest
    <3>3. LastHuman(c.seat, returnRoots[i].lastHumanGameKey)
      BY <2>1, <3>1, <3>2 DEF Owned, RootsRemember
    <3>4. returnRoots[i].lastHumanGameKey \in Keys
      <4>1. returnRoots[i] \in Root
        BY <1>1 DEF MTypeOK
      <4> QED
        BY <4>1 DEF Root
    <3> QED
      BY <2>2, <2>5, <3>2, <3>3, <3>4
  <2> QED
    BY <2>1, <2>3, <2>4, <2>5 DEF returnConsents
<1>6. ASSUME NEW s \in Movers, SignConsent(s)
      PROVE  ConsentCounts'
  <2>1. UNCHANGED <<height, controllers, transfer, log>>
    BY <1>6 DEF SignConsent, control
  <2> QED
    BY <1>3, <2>1 DEF Owned, ConsentCounts, LastHuman
<1>7. ASSUME NEW s \in Movers, NEW host \in Seats,
             SeatOffline(s) \/ SeatOnline(s) \/ RecoveryAuthorize(s, host)
      PROVE  transfer' = NotPending
  BY <1>7 DEF SeatOffline, SeatOnline, RecoveryAuthorize, transferInTheWay
<1>8. ASSUME NEW host \in Seats, RecoveryAmend(host)
      PROVE  transfer' = NotPending
  BY <1>8 DEF RecoveryAmend, transferInTheWay
<1>9. RecoveryActivate \/ RecoveryVoid \/ TransferCancel \/ TransferActivate
         => transfer' = NotPending
  BY DEF RecoveryActivate, RecoveryVoid, TransferCancel, TransferActivate, transferInTheWay
<1>10. ASSUME NEW s \in Movers, SeatOffline(s) \/ SeatOnline(s)
       PROVE  transfer' = NotPending
  BY <1>10 DEF SeatOffline, SeatOnline
<1>11. transfer' = NotPending => ConsentCounts'
  BY DEF ConsentCounts
<1> QED
  BY <1>4, <1>5, <1>6, <1>7, <1>8, <1>9, <1>10, <1>11 DEF MemberNext

\* Every step keeps what is known of the owners of seats.
LEMMA OwnedStep == Owned /\ IndInv' /\ [MemberNext]_memberVars => Owned'
<1> SUFFICES ASSUME Owned, IndInv', [MemberNext]_memberVars
             PROVE  RootsRemember' /\ ConsentCounts'
  BY DEF Owned
<1>1. CASE UNCHANGED <<height, control, log>>
  <2>1. UNCHANGED <<height, controllers, returnRoots, transfer, log>> /\ memberKeys' = memberKeys
    BY <1>1 DEF control, memberKeys, members
  <2> QED
    BY <2>1 DEF Owned, RootsRemember, LatestOf, ConsentCounts, LastHuman
<1>2. CASE MemberNext
  <2>1. ASSUME NEW s \in Movers, NEW host \in Seats, RecoveryAuthorize(s, host)
        PROVE  RootsRemember'
    BY <2>1, MembersAssumption, RootsGrow DEF Owned
  <2>2. ASSUME Extend, \A s \in Movers, host \in Seats : ~RecoveryAuthorize(s, host)
        PROVE  RootsRemember'
    <3>1. RootsRemember /\ IndInv
      BY DEF Owned
    <3> QED
      BY <1>2, <2>2, <3>1, RootsKept
  <2>3. Extend \/ UNCHANGED <<height, control, log>>
    BY <1>2 DEF MemberNext, Ordinary, SeatOffline, SeatOnline, RecoveryAuthorize, SignConsent,
                RecoveryAmend, RecoveryActivate, RecoveryVoid, TransferAuthorize, TransferCancel,
                TransferActivate, Certify
  <2> QED
    BY <1>1, <1>2, <2>1, <2>2, <2>3, ConsentStep
<1> QED
  BY <1>1, <1>2 DEF memberVars

LEMMA OwnedInit == MemberInit => Owned
<1> SUFFICES ASSUME MemberInit
             PROVE  RootsRemember /\ ConsentCounts
  BY InitInv DEF Owned
<1> QED
  BY DEF MemberInit, RootsRemember, ConsentCounts

\* A seat changes hands only with the consent of its last player or of everybody
\* who plays.
THEOREM OwnedConsent == MemberSpec => []ConsentIsOwned
<1>1. Owned => ConsentIsOwned
  <2> SUFFICES ASSUME Owned
               PROVE  ConsentIsOwned
    OBVIOUS
  <2>1. height \in Nat
    BY DEF Owned, IndInv, MTypeOK
  <2> QED
    BY <2>1, LastPlayerIsLast DEF Owned, ConsentCounts, ConsentIsOwned
<1>2. MemberSpec => []Owned
  <2>1. Owned /\ IndInv' /\ [MemberNext]_memberVars => Owned'
    BY OwnedStep
  <2> QED
    BY <2>1, OwnedInit, Invariance, PTL DEF MemberSpec
<1> QED
  BY <1>1, <1>2, PTL
=============================================================================
