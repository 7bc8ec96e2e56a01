---------------------------- MODULE MCAgreement ----------------------------
(***************************************************************************)
(* For TLC: the votes of one height under Agreement and, apart from them,  *)
(* the entries of Membership that say who votes at the next heights.  The  *)
(* initial state says which part moves.                                    *)
(***************************************************************************)
EXTENDS Agreement, Membership, TLC

CONSTANTS
    h1, h2, h3, h4, b1,   \* four players, and a bot of the second
    k1, k2, k3, k4, kb,   \* their keys
    x1, x2, x3, x4        \* fresh keys

VARIABLE part

Players == {h1, h2, h3, h4}
HostOfBot == [s \in {b1} |-> h2]
KeyOf(s) == CASE s = h1 -> k1 [] s = h2 -> k2 [] s = h3 -> k3 [] s = h4 -> k4 [] s = b1 -> kb
KeyOfSeat == [s \in Players \cup {b1} |-> KeyOf(s)]
FreshKeys == <<x1, x2, x3, x4>>
AllKeys == {KeyOf(s) : s \in Players \cup {b1}} \cup {x1, x2, x3, x4}

MCInit == Init /\ MemberInit /\ part \in {"votes", "members"}

MCNext ==
    /\ UNCHANGED part
    /\ \/ part = "votes" /\ Next /\ UNCHANGED memberVars
       \/ part = "members" /\ MemberNext /\ UNCHANGED vars

MCSpec == MCInit /\ [][MCNext]_<<vars, memberVars, part>>

-----------------------------------------------------------------------------
\* Fresh keys are interchangeable: the next ones in order stand for all.
nextUnused(n) ==
    LET used == Cardinality({i \in DOMAIN FreshKeys : FreshKeys[i] \in usedPublicKeys})
    IN  {FreshKeys[i] : i \in (used + 1)..(used + n) \cap DOMAIN FreshKeys}
KeysInOrder ==
    /\ LET new == usedPublicKeys' \ usedPublicKeys IN new = nextUnused(Cardinality(new))
    /\ \A c \in consents' \ consents :
          {c.replacements[s] : s \in DOMAIN c.replacements}
             = nextUnused(Cardinality(DOMAIN c.replacements))

\* A second player is marked or moves, and takeovers are amended or end the game,
\* within the first five entries, and entries of other kinds come within the first
\* four; the rest of the log is about the first player.
Stays(s) ==
    \A h \in 0..height : log[h].offline[s] = 0 /\ log[h].controllers[s] = log[0].controllers[s]
LateEntries ==
    height < height' =>
        /\ height >= 4 => intentBarrier' = height'
        /\ height >= 5 =>
              /\ Stays(h2)'
              /\ recovery # NotPending => recovery' \in {NotPending, recovery}
              /\ ~voided'

\* Honest voters are interchangeable, and so are values, and the two players
\* who stay (with their keys).
Swap == [x \in {h3, h4, k3, k4} |-> CASE x = h3 -> h4 [] x = h4 -> h3 [] x = k3 -> k4 [] x = k4 -> k3]
Symmetry == Permutations(Honest) \cup Permutations(Values) \cup {Swap}
=============================================================================
