----------------------------- MODULE Membership -----------------------------
(***************************************************************************)
(* Who controls each seat of a verified game, and so who votes at each     *)
(* height: the membership entries of the certified log and what replaying  *)
(* them does (authority.ts, recovery-presence.ts, recovery-membership.ts,  *)
(* transfer-membership.ts, and the dispatch of log.ts).                    *)
(*                                                                         *)
(* A step is the next certified entry.  The validators decide which        *)
(* entries can be certified at all; which of those the voters want is      *)
(* theirs to say, so any valid entry may come next.  A reference to an     *)
(* entry is its height.  A signature over the exact parent can be used at  *)
(* one height only and is part of the step that uses it.  The consent to a *)
(* transfer is different: it is signed ahead, lies around, and may be used *)
(* by anyone at any later height that the validator lets it.               *)
(***************************************************************************)
EXTENDS Votes, FiniteSetsExt

CONSTANTS
    Seats,
    Bots,         \* the seats that bots hold in the genesis
    FirstHost,    \* such a seat -> the human seat that hosts its bot
    Keys,         \* voting keys
    FirstKey,     \* seat -> its key in the genesis
    Window,       \* heights for which a signed consent may be used (64)
    Movers,       \* the seats whose player goes away or moves: a bound
    MaxHeight,    \* bound on the entries
    MaxIdle,      \* bound on the other entries between two membership entries
    MaxConsents   \* bound on the consents that are around

ASSUME MembersAssumption ==
    /\ IsFiniteSet(Seats)
    /\ Bots \subseteq Seats
    /\ FirstHost \in [Bots -> Seats \ Bots]
    /\ FirstKey \in [Seats -> Keys]
    /\ \A s, t \in Seats : FirstKey[s] = FirstKey[t] => s = t
    /\ Movers \subseteq Seats
    /\ Window \in Nat /\ MaxHeight \in Nat /\ MaxIdle \in Nat /\ MaxConsents \in Nat

VARIABLES
    height,          \* the certified head
    epoch,           \* how often control of a seat has changed hands
    controllers,     \* seat -> publicKey, hostSeat, kind, status, activatedAt
    usedPublicKeys,  \* every key ever named as a controller or a replacement
    offline,         \* seat -> the height that marked it offline, or 0
    recovery,        \* the takeover that is authorized and not yet activated
    voided,          \* a certified void has ended the game
    transfer,        \* the transfer that is authorized and not yet activated
    returnRoots,     \* the takeovers, with the player who may come back
    intentBarrier,   \* the latest membership entry
    consents,        \* the signed transfer statements that are around
    log              \* height -> controllers and markers (history, for the properties)

control == <<epoch, controllers, usedPublicKeys, offline, recovery, voided,
             transfer, returnRoots>>
memberVars == <<height, control, intentBarrier, consents, log>>

\* No takeover, no transfer is pending; entry 0 is the genesis.
NotPending == [entry |-> 0]

\* The voters of the next height.
members == {s \in Seats : controllers[s].kind = "human" /\ controllers[s].status = "active"}
memberKeys == {controllers[s].publicKey : s \in members}

MemberInit ==
    /\ height = 0 /\ epoch = 0
    /\ controllers =
          [s \in Seats |->
              [publicKey |-> FirstKey[s], hostSeat |-> IF s \in Bots THEN FirstHost[s] ELSE s,
               kind |-> IF s \in Bots THEN "bot" ELSE "human",
               status |-> "active", activatedAt |-> 0]]
    /\ usedPublicKeys = {FirstKey[s] : s \in Seats}
    /\ offline = [s \in Seats |-> 0]
    /\ recovery = NotPending /\ transfer = NotPending /\ voided = FALSE
    /\ returnRoots = <<>>
    /\ intentBarrier = 0
    /\ consents = {}
    /\ log = [h \in {0} |-> [controllers |-> controllers, offline |-> offline]]

\* The entry becomes the certified head; nothing extends a void game.
Extend ==
    /\ ~voided /\ height < MaxHeight
    /\ height' = height + 1
    /\ log' = [h \in 0..height + 1 |->
                  IF h <= height THEN log[h]
                  ELSE [controllers |-> controllers', offline |-> offline']]
    /\ UNCHANGED consents

\* Fault: presence entries do not move the barrier.
barrierByEpoch == IF epoch' # epoch THEN height + 1 ELSE intentBarrier

\* advanceTransferHead: every membership entry moves the barrier.
barrier == height + 1

Certify == Extend /\ intentBarrier' = barrier

\* A game, crypto, control or cheat record.  During a takeover the game itself
\* waits, but control and cheat records go on.
Ordinary ==
    /\ height < intentBarrier + MaxIdle
    /\ UNCHANGED <<control, intentBarrier>>
    /\ Extend

-----------------------------------------------------------------------------
(***************************************************************************)
(* Presence (validateSeatPresenceTransition).                              *)
(***************************************************************************)

SeatOffline(s) ==
    /\ recovery = NotPending /\ transfer = NotPending
    /\ s \in members
    /\ offline[s] = 0
    /\ offline' = [offline EXCEPT ![s] = height + 1]
    /\ UNCHANGED <<epoch, controllers, usedPublicKeys, recovery, voided, transfer, returnRoots>>
    /\ Certify

\* The seat's current key signed the return over this very head.
SeatOnline(s) ==
    /\ recovery = NotPending /\ transfer = NotPending
    /\ s \in members
    /\ offline[s] # 0
    /\ offline' = [offline EXCEPT ![s] = 0]
    /\ UNCHANGED <<epoch, controllers, usedPublicKeys, recovery, voided, transfer, returnRoots>>
    /\ Certify

-----------------------------------------------------------------------------
(***************************************************************************)
(* Takeover of an absent player (validateRecoveryTransition, and           *)
(* advanceTransferRecovery for the way back).                              *)
(***************************************************************************)

\* Fresh and distinct keys for the seats; nobody may have named them before.
replacementKeys(seats) ==
    {keys \in [seats -> Keys \ usedPublicKeys] :
        \A s, t \in seats : keys[s] = keys[t] => s = t}

\* Fault: the quorum is that of the humans who remain.
enoughRemainAfter(departed) ==
    Cardinality(members \ {departed}) >= quorumSize(Cardinality(members \ {departed}))

\* The humans who remain are a quorum of the old voters.
enoughRemain(departed) ==
    Cardinality(members \ {departed}) >= quorumSize(Cardinality(members))

\* Fault: the bots that the player hosts are forgotten.
affectedAlone(departed) == {departed}

\* The player's seat and the bots it hosts.
affected(departed) == {s \in Seats : s = departed \/ controllers[s].hostSeat = departed}

\* The seats wait for their new keys, under a host who stays.
frozen(seats, host) ==
    [s \in Seats |->
        IF s \in seats
        THEN [controllers[s] EXCEPT !.hostSeat = host, !.kind = "bot", !.status = "pending-recovery"]
        ELSE controllers[s]]

Authorization(departed, host, keys, recoverers) ==
    [entry |-> height + 1, departedSeat |-> departed, hostSeat |-> host,
     replacements |-> keys, recoverers |-> [s \in recoverers |-> controllers[s].publicKey]]

\* Fault: a transfer that is under way is not cancelled first.
transferInTheWayNever == FALSE

transferInTheWay == transfer # NotPending

RecoveryAuthorize(departed, host) ==
    LET remaining == members \ {departed}
        seats == affected(departed)
    IN  /\ recovery = NotPending /\ ~transferInTheWay
        /\ departed \in members
        /\ offline[departed] # 0
        /\ enoughRemain(departed)
        /\ host \in remaining
        /\ \A s \in seats : controllers[s].status = "active"
        /\ \E keys \in replacementKeys(seats) :
              /\ usedPublicKeys' = usedPublicKeys \cup {keys[s] : s \in seats}
              /\ recovery' = Authorization(departed, host, keys, remaining)
        /\ epoch' = epoch + 1
        /\ controllers' = frozen(seats, host)
        /\ returnRoots' = Append(returnRoots,
              [finalAuthorization |-> height + 1, activation |-> 0, departedSeat |-> departed,
               lastHumanGameKey |-> controllers[departed].publicKey, affectedSeats |-> seats])
        /\ UNCHANGED <<offline, voided, transfer>>
        /\ Certify

\* An amendment replaces the keys or the host of the pending takeover.
RecoveryAmend(host) ==
    LET seats == DOMAIN recovery.replacements
        departed == recovery.departedSeat
    IN  /\ recovery # NotPending /\ ~transferInTheWay
        /\ offline[departed] # 0
        /\ \A s \in seats : controllers[s].status = "pending-recovery"
        /\ host \in members
        /\ \E keys \in replacementKeys(seats) :
              /\ usedPublicKeys' = usedPublicKeys \cup {keys[s] : s \in seats}
              /\ recovery' = Authorization(departed, host, keys, members)
        /\ epoch' = epoch + 1
        /\ controllers' = frozen(seats, host)
        /\ \E i \in DOMAIN returnRoots :
              /\ returnRoots[i].finalAuthorization = recovery.entry
              /\ returnRoots' = [returnRoots EXCEPT ![i].finalAuthorization = height + 1]
        /\ UNCHANGED <<offline, voided, transfer>>
        /\ Certify

\* The current humans are the ones who were to check the takeover.
recoverersAreCurrent ==
    recovery.recoverers = [s \in members |-> controllers[s].publicKey]

\* Fault: the marker of the seat that was taken over stays.
unmarkedNone(seats) == offline

\* Markers belong to a player, not to a seat.
unmarked(seats) == [s \in Seats |-> IF s \in seats THEN 0 ELSE offline[s]]

\* Every current human attests to the reconstruction at this very head.
RecoveryActivate ==
    /\ recovery # NotPending /\ ~transferInTheWay
    /\ recoverersAreCurrent
    /\ \A s \in DOMAIN recovery.replacements : controllers[s].status = "pending-recovery"
    /\ controllers' =
          [s \in Seats |->
              IF s \in DOMAIN recovery.replacements
              THEN [publicKey |-> recovery.replacements[s], hostSeat |-> recovery.hostSeat,
                    kind |-> "bot", status |-> "active", activatedAt |-> height + 1]
              ELSE controllers[s]]
    /\ epoch' = epoch + 1
    /\ offline' = unmarked({recovery.departedSeat})
    /\ \E i \in DOMAIN returnRoots :
          /\ returnRoots[i].finalAuthorization = recovery.entry
          /\ returnRoots' = [returnRoots EXCEPT ![i].activation = height + 1]
    /\ recovery' = NotPending
    /\ UNCHANGED <<usedPublicKeys, voided, transfer>>
    /\ Certify

\* The master that was to be reconstructed is not the one of the genesis.
RecoveryVoid ==
    /\ recovery # NotPending /\ ~transferInTheWay
    /\ recoverersAreCurrent
    /\ recovery' = NotPending /\ voided' = TRUE
    /\ UNCHANGED <<epoch, controllers, usedPublicKeys, offline, transfer, returnRoots>>
    /\ Certify

-----------------------------------------------------------------------------
(***************************************************************************)
(* Moving a seat to another device, and coming back to a seat that was     *)
(* taken over (validateTransferTransition).                                *)
(***************************************************************************)

\* Fault: the first takeover of the seat counts.
returnRootFirst(seat) ==
    Min({i \in DOMAIN returnRoots : returnRoots[i].departedSeat = seat})

\* The latest takeover of the seat; 0 when there was none.
returnRoot(seat) ==
    Max({0} \cup {i \in DOMAIN returnRoots : returnRoots[i].departedSeat = seat})

\* The seats that move with a player: the bots the player hosts, or what is
\* left of the takeover under the host of the seat.
movesLive(seat) ==
    {s \in Seats : s = seat \/ (/\ controllers[s].kind = "bot"
                               /\ controllers[s].status = "active"
                               /\ controllers[s].hostSeat = seat)}
movesBack(seat, root) ==
    {s \in root.affectedSeats : /\ controllers[s].kind = "bot"
                                /\ controllers[s].status = "active"
                                /\ controllers[s].hostSeat = controllers[seat].hostSeat}

\* A statement about the current head, as the devices build it.
Consent(mode, seat, signers, moves, root) ==
    {[mode |-> mode, seat |-> seat, signers |-> signers, anchor |-> height,
      validUntilSeq |-> height + Window, currentController |-> controllers[seat],
      finalAuthorization |-> root.finalAuthorization, activation |-> root.activation,
      nextEpoch |-> epoch + 1,
      oldPublicKeys |-> [s \in moves |-> controllers[s].publicKey], replacements |-> keys] :
         keys \in replacementKeys(moves)}

NoRoot == [finalAuthorization |-> 0, activation |-> 0]

\* The keys that players of the seat ever held: they keep them when they leave.
playerKeys(seat) ==
    {log[h].controllers[seat].publicKey :
        h \in {h \in 0..height : log[h].controllers[seat].kind = "human"}}

\* The owner of a seat signs, with the seat's key or device; a player who wants
\* a seat back signs with a key held once, naming any takeover of the seat; or
\* everyone who plays signs for somebody who lost the key.  Statements that are
\* around may get lost.
SignConsent(seat) ==
    /\ \E kept \in SUBSET consents :
          /\ Cardinality(kept) < MaxConsents
          /\ \/ /\ seat \in members
                /\ \E c \in Consent("live", seat, {controllers[seat].publicKey}, movesLive(seat), NoRoot) :
                      consents' = kept \cup {c}
             \/ \E i \in DOMAIN returnRoots, signers \in {memberKeys} \cup {{key} : key \in playerKeys(seat)} :
                   /\ controllers[seat].kind = "bot"
                   /\ returnRoots[i].departedSeat = seat
                   /\ \E c \in Consent("return", seat, signers, movesBack(seat, returnRoots[i]), returnRoots[i]) :
                         consents' = kept \cup {c}
    /\ UNCHANGED <<height, control, intentBarrier, log>>

\* The statement is about a recent head, and no membership entry came since.
consentIsRecent(c) ==
    /\ c.anchor >= height - Window
    /\ c.anchor >= intentBarrier
    /\ height + 1 <= c.validUntilSeq
    /\ c.nextEpoch = epoch + 1

ownerConsents(c) ==
    /\ c.mode = "live"
    /\ c.seat \in members
    /\ DOMAIN c.replacements = movesLive(c.seat)
    /\ c.signers = {controllers[c.seat].publicKey}

returnConsents(c) ==
    LET root == returnRoots[returnRoot(c.seat)] IN
    /\ c.mode = "return"
    /\ controllers[c.seat].kind = "bot" /\ controllers[c.seat].status = "active"
    /\ returnRoot(c.seat) # 0
    /\ root.activation # 0
    /\ root.finalAuthorization = c.finalAuthorization /\ root.activation = c.activation
    /\ c.seat \in movesBack(c.seat, root)
    /\ DOMAIN c.replacements = movesBack(c.seat, root)
    /\ c.signers \in {{root.lastHumanGameKey}, memberKeys}

\* Fault: the new keys are not reserved until the transfer is activated.
reservedNot(keys) == usedPublicKeys

\* The keys of an authorization are used up, whatever becomes of it.
reserved(keys) == usedPublicKeys \cup {keys[s] : s \in DOMAIN keys}

TransferAuthorize(c) ==
    /\ recovery = NotPending /\ transfer = NotPending
    /\ consentIsRecent(c)
    /\ c.currentController = controllers[c.seat]
    /\ ownerConsents(c) \/ returnConsents(c)
    /\ \A s \in DOMAIN c.replacements : c.oldPublicKeys[s] = controllers[s].publicKey
    /\ \A s \in DOMAIN c.replacements : c.replacements[s] \notin usedPublicKeys
    /\ usedPublicKeys' = reserved(c.replacements)
    /\ transfer' = [entry |-> height + 1, statement |-> c]
    /\ UNCHANGED <<epoch, controllers, offline, recovery, voided, returnRoots>>
    /\ Certify

TransferCancel ==
    /\ recovery = NotPending /\ transfer # NotPending
    /\ transfer' = NotPending
    /\ UNCHANGED <<epoch, controllers, usedPublicKeys, offline, recovery, voided, returnRoots>>
    /\ Certify

\* The new keys attest, at this very head, that they hold what the old ones had.
TransferActivate ==
    LET c == transfer.statement
        seats == DOMAIN c.replacements
    IN  /\ recovery = NotPending /\ transfer # NotPending
        /\ c.nextEpoch = epoch + 1
        /\ \A s \in seats : c.oldPublicKeys[s] = controllers[s].publicKey
        /\ epoch' = epoch + 1
        /\ controllers' =
              [s \in Seats |->
                  IF s \in seats
                  THEN [controllers[s] EXCEPT
                           !.publicKey = c.replacements[s], !.hostSeat = c.seat,
                           !.kind = IF s = c.seat THEN "human" ELSE "bot",
                           !.activatedAt = height + 1]
                  ELSE controllers[s]]
        /\ offline' = unmarked(seats)
        /\ transfer' = NotPending
        /\ UNCHANGED <<usedPublicKeys, recovery, voided, returnRoots>>
        /\ Certify

-----------------------------------------------------------------------------
MemberNext ==
    \/ Ordinary
    \/ \E s \in Movers :
          \/ SeatOffline(s)
          \/ SeatOnline(s)
          \/ \E host \in Seats : RecoveryAuthorize(s, host)
          \/ SignConsent(s)
    \/ \E host \in Seats : RecoveryAmend(host)
    \/ RecoveryActivate
    \/ RecoveryVoid
    \/ \E c \in consents : TransferAuthorize(c)
    \/ TransferCancel
    \/ TransferActivate

MemberSpec == MemberInit /\ [][MemberNext]_memberVars

-----------------------------------------------------------------------------
(***************************************************************************)
(* Properties.                                                             *)
(***************************************************************************)

\* What validateSeatAuthorities asks of the controllers a transition derives
\* holds of all of them, so it never refuses an entry the rest of the validator
\* accepts: keys are distinct and named before, and whoever acts for a seat is
\* hosted by somebody who plays, even after the host left.
AuthorityIsValid ==
    /\ \A s, t \in Seats : controllers[s].publicKey = controllers[t].publicKey => s = t
    /\ \A s \in Seats :
          /\ controllers[s].publicKey \in usedPublicKeys
          /\ controllers[s].hostSeat \in members
          /\ controllers[s].kind = "human" =>
                controllers[s].hostSeat = s /\ controllers[s].status = "active"

\* What was certified as pending can always be finished: the humans who are to
\* check a takeover are the ones who vote, its seats are still frozen and its
\* keys still unused; a transfer still finds the controllers that it replaces.
PendingStaysUsable ==
    /\ recovery # NotPending =>
          /\ recoverersAreCurrent
          /\ offline[recovery.departedSeat] # 0
          /\ \A s \in DOMAIN recovery.replacements :
                /\ controllers[s].status = "pending-recovery"
                /\ \A t \in Seats : controllers[t].publicKey # recovery.replacements[s]
          /\ \E i \in DOMAIN returnRoots : returnRoots[i].finalAuthorization = recovery.entry
    /\ transfer # NotPending =>
          /\ recovery = NotPending
          /\ transfer.statement.nextEpoch = epoch + 1
          /\ \A s \in DOMAIN transfer.statement.replacements :
                /\ controllers[s].publicKey = transfer.statement.oldPublicKeys[s]
                /\ \A t \in Seats : controllers[t].publicKey # transfer.statement.replacements[s]

\* A key serves one seat, for one stretch of the log: once it is replaced it
\* never controls anything again, whoever still holds it.
KeysServeOnce ==
    \A h \in 0..height, s, t \in Seats :
        log[h].controllers[s].publicKey = controllers[t].publicKey =>
            s = t /\ log[h].controllers[s].activatedAt = controllers[t].activatedAt

\* The last player of the seat, by its key.
lastPlayer(seat) ==
    log[Max({h \in 0..height : log[h].controllers[seat].kind = "human"})].controllers[seat].publicKey

\* A seat is given to new keys only with the consent of its last player or,
\* when the seat was taken over, of everybody who plays.  The players of an
\* earlier time, before another takeover of the same seat, have no say.
ConsentIsOwned ==
    transfer # NotPending =>
        LET c == transfer.statement IN
        \/ c.signers = {lastPlayer(c.seat)}
        \/ c.mode = "return" /\ c.signers = memberKeys

\* A consent is used only while the membership is what its signers saw: nobody
\* was marked, returned, replaced or moved in between.
ConsentIsFresh ==
    transfer # NotPending =>
        \A h \in transfer.statement.anchor..height : log[h] = log[height]

\* A marker is about the player who holds the seat now, or about the player of
\* the takeover that is under way: nobody is taken over for the absence of an
\* earlier player of the seat.
MarkersAreCurrent ==
    \A s \in Seats : offline[s] # 0 =>
        /\ s \in members \/ voided \/ (recovery # NotPending /\ recovery.departedSeat = s)
        /\ \A h \in offline[s]..height :
              log[h].controllers[s].publicKey = controllers[s].publicKey

\* Takeovers leave at least three humans, or all there were at the start: one
\* voter that fails or lies never stands alone against one other.
VotersSurvive ==
    \/ Cardinality(members) >= 3
    \/ Cardinality(members) >= Cardinality(Seats \ Bots)
=============================================================================
