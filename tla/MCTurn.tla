------------------------------- MODULE MCTurn -------------------------------
(***************************************************************************)
(* For TLC: small games under the rules of BaseGame and, apart from them,  *)
(* the timers of TurnTimeout that end the phases of a game.  The initial   *)
(* state says which part moves.  The fairness of the games is what the     *)
(* timers provide: TimersRunOut.                                           *)
(***************************************************************************)
EXTENDS BaseGame, TurnTimeout

CONSTANT k1   \* a timer

VARIABLE part

\* A game of two card kinds.
game(seats, stock, first, second, rest, yield, sides, dealt, cost) ==
    [seats |-> seats, limit |-> 1, rate |-> 2, bank |-> stock,
     hands |-> [s \in 0..seats - 1 |-> CASE s = 0 -> first [] s = 1 -> second [] OTHER -> rest],
     yield |-> yield, sides |-> sides, cards |-> dealt, cost |-> cost]

\* Three seats, three cards, offers of either kind for the other.
Trading ==
    game(3, <<1, 0>>, <<1, 0>>, <<0, 1>>, <<0, 0>>,
         <<[s \in 0..2 |-> CASE s = 0 -> <<1, 0>> [] s = 1 -> <<0, 0>> [] OTHER -> <<0, 1>>],
           [s \in 0..2 |-> CASE s = 0 -> <<0, 1>> [] s = 1 -> <<1, 0>> [] OTHER -> <<0, 0>>]>>,
         {[give |-> <<1, 0>>, want |-> <<0, 1>>], [give |-> <<0, 1>>, want |-> <<1, 0>>]},
         {}, <<1, 0>>)

\* Two seats with the development cards `dealt`.
Playing(stock, dealt) ==
    game(2, stock, <<1, 1>>, <<0, 0>>, <<0, 0>>,
         <<[s \in 0..1 |-> IF s = 0 THEN <<1, 0>> ELSE <<0, 1>>],
           [s \in 0..1 |-> IF s = 0 THEN <<0, 1>> ELSE <<0, 0>>]>>,
         {}, dealt, <<0, 1>>)

\* A game without cards.
Poor ==
    game(2, <<0, 0>>, <<0, 0>>, <<0, 0>>, <<0, 0>>, <<[s \in 0..1 |-> <<0, 0>>]>>,
         {}, {}, <<0, 1>>)

Games == {Trading, Playing(<<1, 0>>, {"knight", "monopoly"}),
          Playing(<<1, 0>>, {"roadBuilding", "yearOfPlenty"}), Poor}

allVars == <<part, vars, gameVars>>

MCInit ==
    /\ part \in {"game", "timers"}
    /\ Init /\ GameInit
    /\ part = "game" => DOMAIN timers = {}
    /\ part = "timers" => DOMAIN timers = Keys /\ config = Poor

GameStep == part = "game" /\ GameNext /\ UNCHANGED <<part, vars>>
TimersStep == part = "timers" /\ Next /\ UNCHANGED <<part, gameVars>>

MCNext == GameStep \/ TimersStep

MCSpec ==
    /\ MCInit /\ [][MCNext]_allVars
    /\ Fairness
    /\ []<>(part = "timers" \/ top.id = "main" \/ ~CanGoOn)
          \/ []<><<top.id # "main">>_allVars
    /\ []<>(part = "timers" \/ top.id # "main")
          \/ []<><<active' # active>>_allVars

-----------------------------------------------------------------------------

\* Every turn ends, whoever is silent and whatever is unknown of the hands: no
\* phase waits for something that its timeout cannot bring about.
TurnsEnd ==
    \A s \in 0..2 :
        part = "game" /\ active = s ~> active # s
=============================================================================
