------------------------------ MODULE BaseGame ------------------------------
(***************************************************************************)
(* The turn of the base game (packages/engine/src/modules/base): the stack *)
(* of phases, the trade offers and the development cards, together with    *)
(* the hands.  A hand is private; the log knows its exact size and, for    *)
(* every kind, a least and a greatest count (core/resources/bounds.ts).    *)
(* A step is one certified input: the public update, the private update    *)
(* of the hands behind it, and finalize.                                   *)
(*                                                                         *)
(* The seats need not be honest: a command is anything validate accepts.   *)
(* What stands between a lie and the hands are the proofs that             *)
(* planHandTransition demands.  The board is abstract: a hex yields what   *)
(* config.yield says, and building only costs.                             *)
(***************************************************************************)
EXTENDS FiniteSetsExt, Functions, Integers, Sequences, SequencesExt

CONSTANTS
    Kinds,      \* the card kinds, in the order of the bank: 1..n
    Configs     \* the agreed games: seats, first hands, bank, board, options

\* hands: the cards of each seat at the start; yield: hex -> seat -> counts;
\* sides: what may stand on the two sides of an offer; cards: the development
\* cards of the deck; cost: what a build costs; rate: of the maritime trade.
ASSUME ConfigsAssumption ==
    /\ IsFiniteSet(Kinds) /\ Kinds # {} /\ Kinds = 1..Cardinality(Kinds)
    /\ \A c \in Configs :
         /\ c.seats \in Nat \ {0, 1} /\ c.limit \in Nat /\ c.rate \in Nat \ {0}
         /\ c.bank \in [Kinds -> Nat]
         /\ c.hands \in [0..c.seats - 1 -> [Kinds -> Nat]]
         /\ DOMAIN c.yield \subseteq Nat
         /\ \A h \in DOMAIN c.yield : c.yield[h] \in [0..c.seats - 1 -> [Kinds -> Nat]]
         /\ \A s \in c.sides : s.give \in [Kinds -> Nat] /\ s.want \in [Kinds -> Nat]
         /\ c.cards \subseteq {"knight", "roadBuilding", "yearOfPlenty", "monopoly"}
         /\ c.cost \in [Kinds -> Nat]

VARIABLES
    config,     \* the agreed game
    turn,       \* the active seat, the stack of phases, one card played or not
    bank,       \* the counts of the bank
    bounds,     \* seat -> the public bounds of its hand
    hand,       \* seat -> its private hand
    offers,     \* the open offers, at most one of a proposer
    cards,      \* development card -> where it is, and whether since this turn
    robberHex   \* where the robber stands

gameVars == <<config, turn, bank, bounds, hand, offers, cards, robberHex>>

Seats == 0..config.seats - 1
Hexes == DOMAIN config.yield
active == turn.active

zeroCounts == [k \in Kinds |-> 0]
only(k, n) == [zeroCounts EXCEPT ![k] = n]
\* Nothing is subtracted from less: what is given has been checked before.
addCounts(c, d) == [k \in Kinds |-> c[k] + d[k]]
subtractCounts(c, d) == [k \in Kinds |-> c[k] - d[k]]
larger(a, b) == IF a >= b THEN a ELSE b
smaller(a, b) == IF a <= b THEN a ELSE b

-----------------------------------------------------------------------------
(* Bounds. *)

feasible(b) ==
    /\ \A k \in Kinds : b.min[k] <= b.max[k]
    /\ SumFunction(b.min) <= b.total /\ b.total <= SumFunction(b.max)

\* One round of normalizeBounds: what the other kinds leave for this one.
tightened(b) ==
    LET minTotal == SumFunction(b.min)
        maxTotal == SumFunction(b.max)
    IN [total |-> b.total,
        min |-> [k \in Kinds |-> larger(b.min[k], b.total - (maxTotal - b.max[k]))],
        max |-> [k \in Kinds |-> smaller(b.max[k], b.total - (minTotal - b.min[k]))]]

normalizeBounds(b) ==
    LET round[n \in 0..Cardinality(Kinds)] == IF n = 0 THEN b ELSE tightened(round[n - 1])
    IN round[Cardinality(Kinds)]

exactBounds(c) == [total |-> SumFunction(c), min |-> c, max |-> c]

canAfford(b, cost) ==
    /\ feasible(b)
    /\ \A k \in Kinds : cost[k] <= b.max[k]
    /\ SumFunction([k \in Kinds |-> larger(b.min[k], cost[k])]) <= b.total

gainKnown(b, c) ==
    normalizeBounds([total |-> b.total + SumFunction(c),
                     min |-> addCounts(b.min, c), max |-> addCounts(b.max, c)])

loseKnown(b, c) ==
    normalizeBounds([total |-> b.total - SumFunction(c),
                     min |-> [k \in Kinds |-> larger(0, b.min[k] - c[k])],
                     max |-> subtractCounts(b.max, c)])

gainHidden(b, n) ==
    normalizeBounds([b EXCEPT !.total = @ + n, !.max = [k \in Kinds |-> @[k] + n]])

loseHidden(b, n) ==
    normalizeBounds([b EXCEPT !.total = @ - n, !.min = [k \in Kinds |-> larger(0, @[k] - n)]])

revealExact(b, k, n) == normalizeBounds([b EXCEPT !.min[k] = n, !.max[k] = n])

-----------------------------------------------------------------------------
(* Phases. *)

frame(id) == [id |-> id]
top == Last(turn.phase)
replaceTop(f) == [turn EXCEPT !.phase = Append(Front(@), f)]
pushPhase(f) == [turn EXCEPT !.phase = Append(@, f)]
popPhase == [turn EXCEPT !.phase = Front(@)]
\* Fault: the robber that a seven moved is moved again.
resumeAgain(returnTo) == 
    IF returnTo = "main" THEN replaceTop([id |-> "moveRobber", returnTo |-> "main"]) ELSE popPhase

resume(returnTo) == IF returnTo = "main" THEN replaceTop(frame("main")) ELSE popPhase

robberHexes == Hexes \ {robberHex}
robberStepFrame ==
    IF robberHexes # {} THEN [id |-> "moveRobber", returnTo |-> "main"] ELSE frame("main")

occupants(h) == {s \in Seats : SumFunction(config.yield[h][s]) > 0}
robberTargets(h) == {s \in occupants(h) \ {active} : bounds[s].total > 0}

-----------------------------------------------------------------------------
(* Payments. *)

\* Fault: a public bound is taken for the hand.
paysUnproved(s, cost) == canAfford(bounds[s], cost)

\* What the log lets a seat pay: some hand within the bounds can, and what
\* exceeds the least count the owner has proved (planHandTransition).
pays(s, cost) ==
    /\ canAfford(bounds[s], cost)
    /\ \A k \in Kinds : cost[k] > bounds[s].min[k] => cost[k] <= hand[s][k]

\* The hand and the bounds of a seat after it gave and then got known cards.
exchanged(s, given, got) ==
    /\ hand' = [hand EXCEPT ![s] = addCounts(subtractCounts(@, given), got)]
    /\ bounds' = [bounds EXCEPT ![s] = gainKnown(loseKnown(@, given), got)]

exchangeBank(s, given, got) ==
    /\ exchanged(s, given, got)
    /\ bank' = subtractCounts(addCounts(bank, given), got)

bankHas(c) == \A k \in Kinds : c[k] <= bank[k]

\* Fault: an offer is checked only when it is made.
finalizeStale(os) == offers' = os

\* Offers are checked again after every input.
finalize(os) ==
    offers' = {[o EXCEPT !.valid = canAfford(bounds'[o.proposer], o.give)] : o \in os}

handsStay == UNCHANGED <<bank, bounds, hand>>

\* The n cards of a hand that gives its most plentiful kinds first.
greedyCards(c, n) ==
    LET before(k) == {j \in Kinds : c[j] > c[k] \/ (c[j] = c[k] /\ j < k)}
    IN [k \in Kinds |-> smaller(c[k], larger(0, n - SumFunctionOnSet(c, before(k))))]

-----------------------------------------------------------------------------
(* The first turn, after the setup. *)

GameInit ==
    /\ config \in Configs
    /\ turn = [active |-> 0, phase |-> <<frame("preRoll")>>, devPlayed |-> FALSE]
    /\ bank = config.bank
    /\ hand = config.hands
    /\ bounds = [s \in Seats |-> exactBounds(hand[s])]
    /\ offers = {}
    /\ cards = [c \in config.cards |-> [at |-> "deck", owner |-> 0, fresh |-> FALSE]]
    /\ robberHex \in Hexes

(* The roll. *)

RollDice(s) ==
    /\ top.id = "preRoll" /\ s = active
    /\ turn' = replaceTop(frame("dice"))
    /\ handsStay /\ finalize(offers)
    /\ UNCHANGED <<config, cards, robberHex>>

\* A kind the bank cannot pay to all is paid to nobody, or what is left of it
\* to the only one who asks.
productionPayments(h) ==
    LET demand == IF h = robberHex THEN [s \in Seats |-> zeroCounts] ELSE config.yield[h]
        total(k) == SumFunction([s \in Seats |-> demand[s][k]])
    IN [s \in Seats |-> [k \in Kinds |->
           IF total(k) <= bank[k] THEN demand[s][k]
           ELSE IF demand[s][k] = total(k) THEN bank[k] ELSE 0]]

\* A roll of the token of hex h.
Produce(h) ==
    /\ top.id = "dice"
    /\ LET paid == productionPayments(h)
       IN /\ hand' = [s \in Seats |-> addCounts(hand[s], paid[s])]
          /\ bounds' = [s \in Seats |-> gainKnown(bounds[s], paid[s])]
          /\ bank' = [k \in Kinds |-> bank[k] - SumFunction([s \in Seats |-> paid[s][k]])]
    /\ turn' = replaceTop(frame("main"))
    /\ finalize(offers)
    /\ UNCHANGED <<config, cards, robberHex>>

discardFrame(remaining) ==
    IF remaining = {} THEN robberStepFrame ELSE [id |-> "discard", remaining |-> remaining]

Seven ==
    /\ top.id = "dice"
    /\ turn' = replaceTop(discardFrame(
          {s \in Seats : bounds[s].total > config.limit /\ bounds[s].total \div 2 > 0}))
    /\ handsStay /\ finalize(offers)
    /\ UNCHANGED <<config, cards, robberHex>>

Discard(s, c) ==
    /\ top.id = "discard" /\ s \in top.remaining
    /\ SumFunction(c) = bounds[s].total \div 2 /\ pays(s, c)
    /\ exchangeBank(s, c, zeroCounts)
    /\ turn' = replaceTop(discardFrame(top.remaining \ {s}))
    /\ finalize(offers)
    /\ UNCHANGED <<config, cards, robberHex>>

\* What the owner's client sends when its own timer runs out.
timedDiscard(s) == greedyCards(hand[s], bounds[s].total \div 2)
TimedDiscard(s) == Discard(s, timedDiscard(s))

(* The robber. *)

MoveRobber(s, h) ==
    /\ top.id = "moveRobber" /\ s = active /\ h \in robberHexes
    /\ robberHex' = h
    /\ turn' = IF robberTargets(h) # {}
               THEN replaceTop([id |-> "steal", targets |-> robberTargets(h),
                                returnTo |-> top.returnTo])
               ELSE resume(top.returnTo)
    /\ handsStay /\ finalize(offers)
    /\ UNCHANGED <<config, cards>>

Steal(s, victim) ==
    /\ top.id = "steal" /\ s = active /\ victim \in top.targets
    /\ turn' = replaceTop([id |-> "stealResult", victim |-> victim, returnTo |-> top.returnTo])
    /\ handsStay /\ finalize(offers)
    /\ UNCHANGED <<config, cards, robberHex>>

\* The sealed transfer moves a card the victim has; its kind may be public.
transferBounds(victim, k, known) ==
    [bounds EXCEPT
       ![victim] = IF known THEN loseKnown(@, only(k, 1)) ELSE loseHidden(@, 1),
       ![active] = IF known THEN gainKnown(@, only(k, 1)) ELSE gainHidden(@, 1)]

StealResult(k, known) ==
    /\ top.id = "stealResult"
    /\ hand[top.victim][k] > 0
    /\ bounds[top.victim].total > 0
    /\ known => canAfford(bounds[top.victim], only(k, 1))
    /\ bounds' = transferBounds(top.victim, k, known)
    /\ hand' = [hand EXCEPT ![top.victim][k] = @ - 1, ![active][k] = @ + 1]
    /\ turn' = resume(top.returnTo)
    /\ finalize(offers)
    /\ UNCHANGED <<config, bank, cards, robberHex>>

(* Development cards. *)

\* A build is its price here; where it stands is not.
Build ==
    /\ top.id = "main" /\ pays(active, config.cost)
    /\ exchangeBank(active, config.cost, zeroCounts)
    /\ finalize(offers)
    /\ UNCHANGED <<config, turn, cards, robberHex>>

deck == {c \in config.cards : cards[c].at = "deck"}

BuyDevCard ==
    /\ top.id = "main" /\ deck # {} /\ pays(active, config.cost)
    /\ exchangeBank(active, config.cost, zeroCounts)
    /\ turn' = pushPhase(frame("drawDev"))
    /\ finalize(offers)
    /\ UNCHANGED <<config, cards, robberHex>>

CardDealt(c) ==
    /\ top.id = "drawDev" /\ c \in deck
    /\ cards' = [cards EXCEPT ![c] = [at |-> "slot", owner |-> active, fresh |-> TRUE]]
    /\ turn' = popPhase
    /\ handsStay /\ finalize(offers)
    /\ UNCHANGED <<config, robberHex>>

\* The part of PLAY_DEV_CARD that all cards share.
revealed(c) ==
    /\ top.id \in {"preRoll", "main"}
    /\ c \in config.cards /\ cards[c].at = "slot" /\ cards[c].owner = active
    /\ ~cards[c].fresh /\ ~turn.devPlayed
    /\ cards' = [cards EXCEPT ![c].at = "played"]

playedWith(f) == [pushPhase(f) EXCEPT !.devPlayed = TRUE]
playedAlone == [turn EXCEPT !.devPlayed = TRUE]

PlayKnight ==
    /\ revealed("knight")
    /\ turn' = playedWith([id |-> "moveRobber", returnTo |-> "pop"])
    /\ handsStay /\ finalize(offers)
    /\ UNCHANGED <<config, robberHex>>

\* The board decides whether a free road can be placed.
PlayRoadBuilding ==
    /\ revealed("roadBuilding")
    /\ turn' \in {playedWith([id |-> "roadBuilding", remaining |-> 2]), playedAlone}
    /\ handsStay /\ finalize(offers)
    /\ UNCHANGED <<config, robberHex>>

PlaceFreeRoad ==
    /\ top.id = "roadBuilding"
    /\ \/ top.remaining > 1 /\ turn' = replaceTop([top EXCEPT !.remaining = @ - 1])
       \/ turn' = popPhase
    /\ handsStay /\ finalize(offers)
    /\ UNCHANGED <<config, cards, robberHex>>

SkipRoadBuilding(s) ==
    /\ top.id = "roadBuilding" /\ s = active
    /\ turn' = popPhase
    /\ handsStay /\ finalize(offers)
    /\ UNCHANGED <<config, cards, robberHex>>

PlayYearOfPlenty(requested) ==
    /\ revealed("yearOfPlenty")
    /\ SumFunction(requested) = 2
    /\ exchangeBank(active, zeroCounts, Pointwise(requested, bank, smaller))
    /\ turn' = playedAlone
    /\ finalize(offers)
    /\ UNCHANGED <<config, robberHex>>

PlayMonopoly(k) ==
    /\ revealed("monopoly")
    /\ LET remaining == {s \in Seats \ {active} : bounds[s].max[k] > 0}
       IN turn' = IF remaining = {} THEN playedAlone
                  ELSE playedWith([id |-> "monopoly", resource |-> k, remaining |-> remaining])
    /\ handsStay /\ finalize(offers)
    /\ UNCHANGED <<config, robberHex>>

\* The opened count must be one that the bounds allow.
opens(s) ==
    LET k == top.resource
        n == hand[s][k]
    IN /\ bounds[s].min[k] <= n /\ n <= bounds[s].max[k]
       /\ canAfford(revealExact(bounds[s], k, n), only(k, n))

\* The victim opens the exact count of its hand and loses it to the player.
RevealCount(s) ==
    LET k == top.resource
        n == hand[s][k]
    IN /\ top.id = "monopoly" /\ s \in top.remaining /\ opens(s)
       /\ bounds' = [bounds EXCEPT ![s] = loseKnown(revealExact(@, k, n), only(k, n)),
                                   ![active] = gainKnown(@, only(k, n))]
       /\ hand' = [hand EXCEPT ![s][k] = 0, ![active][k] = @ + n]
       /\ turn' = IF top.remaining = {s} THEN popPhase
                  ELSE replaceTop([top EXCEPT !.remaining = @ \ {s}])
       /\ finalize(offers)
       /\ UNCHANGED <<config, bank, cards, robberHex>>

-----------------------------------------------------------------------------
(* Trades, in the main phase. *)

MaritimeTrade(give, want) ==
    /\ top.id = "main"
    /\ \A k \in Kinds : give[k] % config.rate = 0 /\ (give[k] = 0 \/ want[k] = 0)
    /\ SumFunction(want) > 0 /\ SumFunction(give) = config.rate * SumFunction(want)
    /\ bankHas(want) /\ pays(active, give)
    /\ exchangeBank(active, give, want)
    /\ finalize(offers)
    /\ UNCHANGED <<config, turn, cards, robberHex>>

\* A new offer takes the place of its proposer's last one.
opened(s, side, to) ==
    {o \in offers : o.proposer # s} \cup
    {[proposer |-> s, give |-> side.give, want |-> side.want, to |-> to,
      acceptedBy |-> {}, declinedBy |-> {}, valid |-> TRUE]}

OfferTrade(side, to) ==
    /\ top.id = "main" /\ to # {} /\ active \notin to
    /\ canAfford(bounds[active], side.give)
    /\ handsStay /\ finalize(opened(active, side, to))
    /\ UNCHANGED <<config, turn, cards, robberHex>>

ProposeTrade(s, side) ==
    /\ top.id = "main" /\ s # active
    /\ canAfford(bounds[s], side.give)
    /\ handsStay /\ finalize(opened(s, side, {active}))
    /\ UNCHANGED <<config, turn, cards, robberHex>>

unanswered(s) ==
    {o \in offers : o.proposer = active /\ s \in o.to \ (o.acceptedBy \cup o.declinedBy)}

RespondTrade(s, o, accept) ==
    /\ top.id = "main" /\ o \in unanswered(s)
    /\ handsStay
    /\ finalize((offers \ {o}) \cup {IF accept THEN [o EXCEPT !.acceptedBy = @ \cup {s}]
                                               ELSE [o EXCEPT !.declinedBy = @ \cup {s}]})
    /\ UNCHANGED <<config, turn, cards, robberHex>>

counterparty(o, other) ==
    IF o.proposer = active THEN other \in o.acceptedBy
    ELSE o.proposer = other /\ active \in o.to

ConfirmTrade(o, other) ==
    LET recipient == IF o.proposer = active THEN other ELSE active
    IN /\ top.id = "main" /\ o \in offers /\ o.valid
       /\ counterparty(o, other)
       /\ pays(o.proposer, o.give) /\ pays(recipient, o.want)
       /\ bounds' = [bounds EXCEPT ![o.proposer] = gainKnown(loseKnown(@, o.give), o.want),
                                   ![recipient] = loseKnown(gainKnown(@, o.give), o.want)]
       /\ hand' = [hand EXCEPT
                     ![o.proposer] = addCounts(subtractCounts(@, o.give), o.want),
                     ![recipient] = addCounts(subtractCounts(@, o.want), o.give)]
       /\ finalize(offers \ {o})
       /\ UNCHANGED <<config, turn, bank, cards, robberHex>>

CancelTrade(s, o) ==
    /\ top.id = "main" /\ o \in offers
    /\ handsStay
    /\ \/ s \in {active, o.proposer} /\ finalize(offers \ {o})
       \/ /\ s \notin {active, o.proposer} /\ o.proposer = active /\ s \in o.acceptedBy
          /\ finalize((offers \ {o}) \cup
                {[o EXCEPT !.acceptedBy = @ \ {s}, !.declinedBy = @ \cup {s}]})
    /\ UNCHANGED <<config, turn, cards, robberHex>>

(* The end of a turn and of a player's time. *)

nextSeat == (active + 1) % config.seats

EndTurn(s) ==
    /\ top.id = "main" /\ s = active
    /\ turn' = [active |-> nextSeat, phase |-> <<frame("preRoll")>>, devPlayed |-> FALSE]
    /\ cards' = [c \in config.cards |-> [cards[c] EXCEPT !.fresh = FALSE]]
    /\ handsStay /\ finalize({})
    /\ UNCHANGED <<config, robberHex>>

\* The discard of a hand that is public; no other can be made for its owner.
DeterministicDiscard(s) ==
    /\ bounds[s].min = bounds[s].max
    /\ Discard(s, greedyCards(bounds[s].min, bounds[s].total \div 2))

automaticRobberHex ==
    LET away == {h \in robberHexes : active \notin occupants(h)}
    IN Min(IF away # {} THEN away ELSE robberHexes)

DeclineAll(s) ==
    /\ top.id = "main" /\ s # active /\ unanswered(s) # {}
    /\ handsStay
    /\ finalize((offers \ unanswered(s)) \cup
                {[o EXCEPT !.declinedBy = @ \cup {s}] : o \in unanswered(s)})
    /\ UNCHANGED <<config, turn, cards, robberHex>>

Timeout(s) ==
    \/ RollDice(s)
    \/ robberHexes # {} /\ MoveRobber(s, automaticRobberHex)
    \/ top.id = "steal" /\ Steal(s, Min(top.targets))
    \/ DeterministicDiscard(s)
    \/ SkipRoadBuilding(s)
    \/ EndTurn(s)
    \/ DeclineAll(s)

-----------------------------------------------------------------------------
\* What the log goes on with whoever is away: random results, openings by the
\* owners' clients, the owners' timed discards, and the timeouts.
Automatic ==
    \/ \E h \in Hexes : Produce(h)
    \/ Seven
    \/ \E k \in Kinds, known \in BOOLEAN : StealResult(k, known)
    \/ \E c \in config.cards : CardDealt(c)
    \/ \E s \in Seats : RevealCount(s) \/ TimedDiscard(s)
    \/ top.id # "main" /\ \E s \in Seats : Timeout(s)

\* Hands of two cards, the requests of a year of plenty.
pairsOfCards == {c \in [Kinds -> 0..2] : SumFunction(c) = 2}

Commands ==
    \/ \E s \in Seats : RollDice(s) \/ EndTurn(s) \/ SkipRoadBuilding(s)
    \/ \E s \in Seats, c \in [Kinds -> 0..Max({bounds[t].total : t \in Seats})] : Discard(s, c)
    \/ \E s \in Seats, h \in Hexes : MoveRobber(s, h)
    \/ \E s \in Seats, victim \in Seats : Steal(s, victim)
    \/ Build \/ BuyDevCard \/ PlayKnight \/ PlayRoadBuilding \/ PlaceFreeRoad
    \/ \E c \in pairsOfCards : PlayYearOfPlenty(c)
    \/ \E k \in Kinds : PlayMonopoly(k)
    \/ \E k, l \in Kinds : MaritimeTrade(only(k, config.rate), only(l, 1))
    \/ \E side \in config.sides, to \in SUBSET Seats : OfferTrade(side, to)
    \/ \E s \in Seats, side \in config.sides : ProposeTrade(s, side)
    \/ \E s \in Seats, o \in offers, accept \in BOOLEAN : RespondTrade(s, o, accept)
    \/ \E o \in offers, other \in Seats : ConfirmTrade(o, other)
    \/ \E s \in Seats, o \in offers : CancelTrade(s, o)

GameNext == Commands \/ Automatic \/ \E s \in Seats : Timeout(s)

GameSpec == GameInit /\ [][GameNext]_gameVars

\* Something that waits for nobody's decision can happen in this phase.
CanGoOn ==
    CASE top.id = "discard" -> \E s \in top.remaining : pays(s, timedDiscard(s))
      [] top.id = "monopoly" -> \E s \in top.remaining : opens(s)
      [] top.id = "stealResult" -> \E k \in Kinds : hand[top.victim][k] > 0
      [] top.id = "drawDev" -> deck # {}
      [] OTHER -> TRUE

-----------------------------------------------------------------------------

hands(b) ==
    {h \in [Kinds -> 0..b.total] :
        SumFunction(h) = b.total /\ \A k \in Kinds : b.min[k] <= h[k] /\ h[k] <= b.max[k]}

\* The log never says anything of a hand that is not so, says as much as its
\* bounds can, and judges a price by the hands that are possible.  No card is
\* ever made or lost.  (Hidden steals, reveals, payments and trades of seats
\* that claim cards they do not have, in any order.)
HandsWithinBounds ==
    /\ \A s \in Seats :
         LET b == bounds[s]
             possible == hands(b)
         IN /\ hand[s] \in possible
            /\ \A k \in Kinds : /\ \E h \in possible : h[k] = b.min[k]
                              /\ \E h \in possible : h[k] = b.max[k]
            /\ \A side \in config.sides :
                 canAfford(b, side.give)
                     <=> \E h \in possible : \A k \in Kinds : side.give[k] <= h[k]
    /\ \A k \in Kinds :
         bank[k] + SumFunction([s \in Seats |-> hand[s][k]])
             = config.bank[k] + SumFunction([s \in Seats |-> config.hands[s][k]])

\* An open offer belongs to the turn that is played, says truly whether its
\* proposer can still pay it, and holds answers only of those it was made to;
\* a counter-offer is for the active seat and is never answered by a third.
OffersAreSound ==
    /\ \A o \in offers :
         /\ turn.phase[1].id = "main"
         /\ o.valid = canAfford(bounds[o.proposer], o.give)
         /\ o.proposer \notin o.to
         /\ o.acceptedBy \cap o.declinedBy = {}
         /\ o.acceptedBy \cup o.declinedBy \subseteq (IF o.proposer = active THEN o.to ELSE {})
         /\ o.proposer # active => o.to = {active}
    /\ \A o1, o2 \in offers : o1.proposer = o2.proposer => o1 = o2
=============================================================================
