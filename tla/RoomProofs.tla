----------------------------- MODULE RoomProofs -----------------------------
(***************************************************************************)
(* Proofs about RoomCore and its two hosts, for every set of keys, every   *)
(* number of connections and places, and every deadline.                   *)
(*                                                                         *)
(* The argument: an operation on a sound core takes away sessions whose    *)
(* sockets it closes, and either tells everybody who is left or changes    *)
(* nothing in the roster (Outcome).  The loop of announce costs a member   *)
(* its place each time a send fails, so it comes to an end at which no     *)
(* send fails any more.  The plain server then only has to end what the    *)
(* core closed, and to forget what ended by itself.  The Durable Object    *)
(* also has to find everything in its attachments again (Fits, Restored).  *)
(***************************************************************************)
EXTENDS MCSignaling, FiniteSetTheorems, SequenceTheorems, WellFoundedInduction, TLAPS

-----------------------------------------------------------------------------
(***************************************************************************)
(* The order in which the members joined.                                  *)
(***************************************************************************)

\* A nonempty set of natural numbers has a least element.
LEMMA LeastExists ==
  ASSUME NEW T, T \subseteq Nat, T # {}
  PROVE  \E x \in T : \A y \in T : x <= y
<1>1. \A x, y \in Nat : x < y => <<x, y>> \in OpToRel(<, Nat)
  BY DEF OpToRel
<1>2. IsWellFoundedOn(OpToRel(<, Nat), Nat)
  BY NatLessThanWellFounded, Zenon
<1>3. PICK R : /\ IsWellFoundedOn(R, Nat)
               /\ \A x, y \in Nat : x < y => <<x, y>> \in R
  BY ONLY <1>1, <1>2, Zenon
<1>4. IsWellFoundedOn(R, Nat)
  BY ONLY <1>3, Zenon
<1>5. \E x \in T : \A y \in T : ~ (<<y, x>> \in R)
  BY ONLY <1>4, T \subseteq Nat, T # {}, WFMin, Zenon
<1>6. PICK x \in T : \A y \in T : ~ (<<y, x>> \in R)
  BY ONLY <1>5, Zenon
<1>7. \A y \in T : ~(y < x)
  BY <1>3, <1>6
<1> QED
  BY <1>7

Distinct(s) == \A i, j \in 1..Len(s) : s[i] = s[j] => i = j

\* One member leaves the order.
LEMMA Removed ==
  ASSUME NEW s \in Seq(Nat), Distinct(s), NEW e
  PROVE  /\ RemoveFirst(s, e) \in Seq(Nat) /\ Distinct(RemoveFirst(s, e))
         /\ ToSet(RemoveFirst(s, e)) = ToSet(s) \ {e}
         /\ Len(RemoveFirst(s, e)) = IF e \in ToSet(s) THEN Len(s) - 1 ELSE Len(s)
<1>1. Len(s) \in Nat /\ DOMAIN s = 1..Len(s) /\ \A i \in 1..Len(s) : s[i] \in Nat
  BY LenProperties
<1>2. CASE e \notin ToSet(s)
  <2>1. ~ \E i \in 1..Len(s) : s[i] = e
    BY <1>1, <1>2 DEF ToSet
  <2>2. RemoveFirst(s, e) = s
    BY <2>1 DEF RemoveFirst
  <2> QED
    BY <1>2, <2>2
<1>3. CASE e \in ToSet(s)
  <2>1. PICK k \in 1..Len(s) : s[k] = e
    BY <1>1, <1>3 DEF ToSet
  <2> DEFINE a == SubSeq(s, 1, k - 1)
             b == SubSeq(s, k + 1, Len(s))
             r == a \o b
  <2>2. RemoveFirst(s, e) = r
    <3> DEFINE I == {i \in 1..Len(s) : s[i] = e}
    <3>1. I = {k}
      BY <2>1 DEF Distinct
    <3>2. Min(I) = k
      BY <1>1, <3>1 DEF Min
    <3>3. RemoveFirst(s, e) = RemoveAt(s, Min(I))
      BY <2>1, <3>1 DEF RemoveFirst, SelectInSeq
    <3> QED
      BY <3>2, <3>3 DEF RemoveAt
  <2>3. a \in Seq(Nat) /\ Len(a) = k - 1 /\ \A i \in 1..(k - 1) : a[i] = s[i]
    <3>1. \A i \in 1..(k - 1) : s[i] \in Nat
      BY <1>1, <2>1
    <3>2. k - 1 \in Int /\ 1 \in Int
      BY <2>1
    <3>3. /\ a \in Seq(Nat) /\ Len(a) = IF 1 <= k - 1 THEN (k - 1) - 1 + 1 ELSE 0
          /\ \A i \in 1..((k - 1) - 1 + 1) : a[i] = s[1 + i - 1]
      BY ONLY <3>1, <3>2, SubSeqProperties
    <3> HIDE DEF a
    <3>4. Len(a) = k - 1
      BY <1>1, <2>1, <3>3
    <3>5. ASSUME NEW i \in 1..(k - 1)
          PROVE  a[i] = s[i]
      <4>1. i \in 1..((k - 1) - 1 + 1) /\ 1 + i - 1 = i
        BY <1>1, <2>1
      <4> QED
        BY <3>3, <4>1
    <3> QED
      BY <3>3, <3>4, <3>5
  <2>4. b \in Seq(Nat) /\ Len(b) = Len(s) - k /\ \A i \in 1..(Len(s) - k) : b[i] = s[k + i]
    <3>1. \A i \in (k + 1)..Len(s) : s[i] \in Nat
      BY <1>1, <2>1
    <3>2. k + 1 \in Int /\ Len(s) \in Int
      BY <1>1, <2>1
    <3>3. /\ b \in Seq(Nat) /\ Len(b) = IF k + 1 <= Len(s) THEN Len(s) - (k + 1) + 1 ELSE 0
          /\ \A i \in 1..(Len(s) - (k + 1) + 1) : b[i] = s[(k + 1) + i - 1]
      BY ONLY <3>1, <3>2, SubSeqProperties
    <3> HIDE DEF b
    <3>6. Len(s) \in Nat /\ k \in Nat /\ k <= Len(s)
      BY <1>1, <2>1
    <3>7. Len(b) = IF k + 1 <= Len(s) THEN Len(s) - (k + 1) + 1 ELSE 0
      BY <3>3
    <3>4. Len(b) = Len(s) - k
      BY ONLY <3>6, <3>7
    <3>5. ASSUME NEW i \in 1..(Len(s) - k)
          PROVE  b[i] = s[k + i]
      <4>1. i \in 1..(Len(s) - (k + 1) + 1) /\ (k + 1) + i - 1 = k + i
        BY <1>1, <2>1
      <4> QED
        BY <3>3, <4>1
    <3> QED
      BY <3>3, <3>4, <3>5
  <2> HIDE DEF a, b
  <2>5. /\ r \in Seq(Nat) /\ Len(r) = Len(s) - 1 /\ DOMAIN r = 1..(Len(s) - 1)
        /\ \A i \in 1..(Len(s) - 1) : r[i] = IF i < k THEN s[i] ELSE s[i + 1]
    <3>1. /\ r \in Seq(Nat) /\ Len(r) = Len(a) + Len(b)
          /\ \A i \in 1..Len(a) + Len(b) : r[i] = IF i <= Len(a) THEN a[i] ELSE b[i - Len(a)]
      BY ONLY <2>3, <2>4, ConcatProperties
    <3>2. DOMAIN r = 1..Len(r)
      BY ONLY <3>1, LenProperties
    <3> HIDE DEF r
    <3>3. Len(r) = Len(s) - 1 /\ Len(a) + Len(b) = Len(s) - 1
      BY <1>1, <2>1, <2>3, <2>4, <3>1
    <3>4. ASSUME NEW i \in 1..(Len(s) - 1)
          PROVE  r[i] = IF i < k THEN s[i] ELSE s[i + 1]
      <4>1. r[i] = IF i <= k - 1 THEN a[i] ELSE b[i - (k - 1)]
        BY <2>3, <3>1, <3>3
      <4>2. CASE i < k
        <5>1. i \in 1..(k - 1) /\ i <= k - 1
          BY <1>1, <2>1, <4>2
        <5> QED
          BY <2>3, <4>1, <4>2, <5>1
      <4>3. CASE ~(i < k)
        <5>1. /\ ~(i <= k - 1) /\ i - (k - 1) \in 1..(Len(s) - k)
              /\ k + (i - (k - 1)) = i + 1
          BY <1>1, <2>1, <4>3
        <5> QED
          BY <2>4, <4>1, <4>3, <5>1
      <4> QED
        BY <4>2, <4>3
    <3> QED
      BY <3>1, <3>2, <3>3, <3>4
  <2> HIDE DEF r
  <2> DEFINE from(i) == IF i < k THEN i ELSE i + 1
  <2>6. /\ \A i \in 1..(Len(s) - 1) : from(i) \in 1..Len(s) /\ from(i) # k /\ r[i] = s[from(i)]
        /\ \A i, j \in 1..(Len(s) - 1) : from(i) = from(j) => i = j
    <3>1. Len(s) \in Nat /\ k \in 1..Len(s)
      BY <1>1, <2>1
    <3>2. ASSUME NEW i \in 1..(Len(s) - 1)
          PROVE  from(i) \in 1..Len(s) /\ from(i) # k /\ r[i] = s[from(i)]
      <4>1. from(i) \in 1..Len(s) /\ from(i) # k
        BY ONLY <3>1, <3>2
      <4>2. r[i] = s[from(i)]
        BY <2>5, <3>2
      <4> QED
        BY <4>1, <4>2
    <3>3. \A i, j \in 1..(Len(s) - 1) : from(i) = from(j) => i = j
      BY ONLY <3>1
    <3> HIDE DEF from
    <3> QED
      BY <3>2, <3>3
  <2> HIDE DEF from
  <2>9. Distinct(r)
    <3> SUFFICES ASSUME NEW i \in 1..Len(r), NEW j \in 1..Len(r), r[i] = r[j]
                 PROVE  i = j
      BY DEF Distinct
    <3>1. i \in 1..(Len(s) - 1) /\ j \in 1..(Len(s) - 1)
      BY <2>5
    <3>2. s[from(i)] = s[from(j)] /\ from(i) \in 1..Len(s) /\ from(j) \in 1..Len(s)
      BY <2>6, <3>1
    <3>3. from(i) = from(j)
      BY <3>2 DEF Distinct
    <3> QED
      BY <2>6, <3>1, <3>3
  <2>7. ASSUME NEW x \in ToSet(r)
        PROVE  x \in ToSet(s) /\ x # e
    <3>1. PICK i \in 1..(Len(s) - 1) : r[i] = x
      BY <2>5 DEF ToSet
    <3>2. x = s[from(i)] /\ from(i) \in 1..Len(s) /\ from(i) # k
      BY <2>6, <3>1
    <3>3. x # e
      BY <2>1, <3>2 DEF Distinct
    <3> QED
      BY <1>1, <3>2, <3>3 DEF ToSet
  <2>8. ASSUME NEW x \in ToSet(s), x # e
        PROVE  x \in ToSet(r)
    <3>1. PICK i \in 1..Len(s) : s[i] = x /\ i # k
      BY <1>1, <2>1, <2>8 DEF ToSet
    <3>2. CASE i < k
      <4>1. i \in 1..(Len(s) - 1)
        BY <1>1, <2>1, <3>1, <3>2
      <4>2. r[i] = s[i]
        BY <2>5, <3>2, <4>1
      <4> QED
        BY <2>5, <3>1, <4>1, <4>2 DEF ToSet
    <3>3. CASE i > k
      <4>1. /\ i - 1 \in 1..(Len(s) - 1) /\ ~(i - 1 < k) /\ (i - 1) + 1 = i
        BY <1>1, <2>1, <3>1, <3>3
      <4>2. r[i - 1] = s[i]
        BY <2>5, <4>1
      <4> QED
        BY <2>5, <3>1, <4>1, <4>2 DEF ToSet
    <3> QED
      BY <1>1, <2>1, <3>1, <3>2, <3>3
  <2> QED
    BY <1>3, <2>2, <2>5, <2>7, <2>8, <2>9
<1> QED
  BY <1>2, <1>3

\* One more member at the end.
LEMMA Appended ==
  ASSUME NEW s \in Seq(Nat), Distinct(s), NEW e \in Nat, e \notin ToSet(s)
  PROVE  /\ Append(s, e) \in Seq(Nat) /\ Distinct(Append(s, e)) /\ Append(s, e) # <<>>
         /\ ToSet(Append(s, e)) = ToSet(s) \cup {e} /\ Len(Append(s, e)) = Len(s) + 1
<1> DEFINE r == Append(s, e)
<1>1. /\ r \in Seq(Nat) /\ Len(r) = Len(s) + 1 /\ r # <<>>
      /\ \A i \in 1..Len(s) : r[i] = s[i]
      /\ r[Len(s) + 1] = e
  BY AppendProperties
<1>2. Len(s) \in Nat /\ DOMAIN s = 1..Len(s)
  BY LenProperties
<1> HIDE DEF r
<1>3. DOMAIN r = 1..(Len(s) + 1)
  BY <1>1, LenProperties
<1>4. \A i \in 1..(Len(s) + 1) : i = Len(s) + 1 \/ i \in 1..Len(s)
  BY <1>2
<1>5. Distinct(r)
  BY <1>1, <1>2, <1>4 DEF Distinct, ToSet
<1>6. ToSet(r) = ToSet(s) \cup {e}
  <2>1. \A x \in ToSet(r) : x \in ToSet(s) \cup {e}
    BY <1>1, <1>2, <1>3, <1>4 DEF ToSet
  <2>2. \A x \in ToSet(s) : x \in ToSet(r)
    BY <1>1, <1>2, <1>3 DEF ToSet
  <2>3. e \in ToSet(r)
    BY <1>1, <1>2, <1>3 DEF ToSet
  <2> QED
    BY <2>1, <2>2, <2>3
<1> QED
  BY <1>1, <1>5, <1>6 DEF r

-----------------------------------------------------------------------------
(***************************************************************************)
(* Cores whose members are exactly the sessions that joined, each with its *)
(* own key and socket.                                                     *)
(***************************************************************************)

Session == [socket : Sockets, openedAt : Nat, peer : Peers \cup {None}]

Sessions == UNION {[I -> Session] : I \in SUBSET Nat}

Cores == [sessions : Sessions, order : Seq(Nat), room : BOOLEAN, lastActivity : Nat,
          nextId : Nat, told : [Sockets -> SUBSET (Peers \cup {None})], closing : SUBSET Sockets]

OwnSockets(t) == \A i, j \in DOMAIN t : t[i].socket = t[j].socket => i = j

\* A place in the roster is in a room, and a room has had its activity.
Lasting(c) == (c.order # <<>> => c.room) /\ (c.room => c.lastActivity # 0)

Sound(c) ==
    /\ c \in Cores
    /\ Distinct(c.order) /\ Len(c.order) <= MAX_ROOM_PEERS
    /\ ToSet(c.order) = {id \in DOMAIN c.sessions : c.sessions[id].peer # None}
    /\ \A i, j \in ToSet(c.order) : c.sessions[i].peer = c.sessions[j].peer => i = j
    /\ OwnSockets(c.sessions)
    /\ Lasting(c)

\* All members were told the roster.
AllTold(c) == \A id \in Members(c) : c.told[SocketOf(c, id)] = Roster(c)

\* What an operation does to the sessions: d is sound, some sessions of c are
\* gone, and their sockets are being closed, or are in quiet.
Thinned(c, d, quiet) ==
    /\ Sound(d) /\ d.nextId = c.nextId /\ c.closing \subseteq d.closing
    /\ Ids(d) \subseteq Ids(c)
    /\ \A id \in Ids(d) : SocketOf(d, id) = SocketOf(c, id)
    /\ \A id \in Ids(c) \ Ids(d) : SocketOf(c, id) \in d.closing \cup quiet

\* Nothing to be told.
SameRoster(c, d) ==
    /\ Members(d) = Members(c) /\ Roster(d) = Roster(c) /\ d.told = c.told
    /\ \A id \in Members(d) : SocketOf(d, id) = SocketOf(c, id)

Outcome(c, d, quiet) == Thinned(c, d, quiet) /\ (AllTold(d) \/ SameRoster(c, d))

LEMMA SessionsAre ==
  ASSUME NEW t
  PROVE  t \in Sessions <=> /\ DOMAIN t \subseteq Nat /\ t = [i \in DOMAIN t |-> t[i]]
                            /\ \A i \in DOMAIN t : t[i] \in Session
<1>1. ASSUME t \in Sessions
      PROVE  /\ DOMAIN t \subseteq Nat /\ t = [i \in DOMAIN t |-> t[i]]
             /\ \A i \in DOMAIN t : t[i] \in Session
  <2>1. PICK I \in SUBSET Nat : t \in [I -> Session]
    BY <1>1 DEF Sessions
  <2> QED
    BY <2>1
<1>2. ASSUME DOMAIN t \subseteq Nat, t = [i \in DOMAIN t |-> t[i]],
             \A i \in DOMAIN t : t[i] \in Session
      PROVE  t \in Sessions
  <2>1. t \in [DOMAIN t -> Session]
    BY <1>2
  <2> QED
    BY <1>2, <2>1 DEF Sessions
<1> QED
  BY <1>1, <1>2

LEMMA SoundFacts ==
  ASSUME NEW c, Sound(c)
  PROVE  /\ c.order \in Seq(Nat) /\ Len(c.order) \in Nat /\ DOMAIN c.order = 1..Len(c.order)
         /\ Ids(c) \subseteq Nat /\ Members(c) \subseteq Ids(c)
         /\ \A i \in Ids(c) : /\ SocketOf(c, i) \in Sockets
                              /\ c.sessions[i].openedAt \in Nat
                              /\ c.sessions[i].peer \in Peers \cup {None}
         /\ \A i \in Members(c) : c.sessions[i].peer # None
         /\ Roster(c) \subseteq Peers
         /\ c.nextId \in Nat /\ c.lastActivity \in Nat /\ c.room \in BOOLEAN
         /\ c.closing \subseteq Sockets /\ c.told \in [Sockets -> SUBSET (Peers \cup {None})]
<1>1. /\ c.order \in Seq(Nat) /\ c.sessions \in Sessions
      /\ c.nextId \in Nat /\ c.lastActivity \in Nat /\ c.room \in BOOLEAN
      /\ c.closing \subseteq Sockets /\ c.told \in [Sockets -> SUBSET (Peers \cup {None})]
  BY DEF Sound, Cores
<1>2. Len(c.order) \in Nat /\ DOMAIN c.order = 1..Len(c.order)
  BY <1>1, LenProperties
<1>3. DOMAIN c.sessions \subseteq Nat /\ \A i \in DOMAIN c.sessions : c.sessions[i] \in Session
  BY <1>1, SessionsAre
<1>4. /\ Members(c) \subseteq Ids(c)
      /\ \A i \in Members(c) : c.sessions[i].peer # None
  BY DEF Sound, Members, Ids
<1>5. \A i \in Ids(c) : /\ SocketOf(c, i) \in Sockets
                       /\ c.sessions[i].openedAt \in Nat
                       /\ c.sessions[i].peer \in Peers \cup {None}
  BY <1>3 DEF Session, SocketOf, Ids
<1>6. Roster(c) \subseteq Peers
  BY <1>4, <1>5 DEF Roster
<1> QED
  BY <1>1, <1>2, <1>3, <1>4, <1>5, <1>6 DEF Ids

\* A core is what its fields say.
LEMMA CoreIs ==
  ASSUME NEW c \in Cores
  PROVE  c = [sessions |-> c.sessions, order |-> c.order, room |-> c.room,
              lastActivity |-> c.lastActivity, nextId |-> c.nextId, told |-> c.told,
              closing |-> c.closing]
  BY DEF Cores

\* A session is forgotten.
LEMMA Forgotten ==
  ASSUME NEW c, Sound(c), NEW id \in Ids(c)
  PROVE  LET d == Forget(c, id) IN
         /\ Sound(d)
         /\ Ids(d) = Ids(c) \ {id} /\ \A i \in Ids(d) : d.sessions[i] = c.sessions[i]
         /\ Members(d) = Members(c) \ {id}
         /\ Len(d.order) = IF id \in Members(c) THEN Len(c.order) - 1 ELSE Len(c.order)
         /\ d.room = c.room /\ d.nextId = c.nextId /\ d.told = c.told /\ d.closing = c.closing
<1> DEFINE d == Forget(c, id)
<1>1. c \in Cores /\ c.sessions \in Sessions /\ c.order \in Seq(Nat) /\ Distinct(c.order)
  BY DEF Sound, Cores
<1>2. /\ d.sessions = [i \in Ids(c) \ {id} |-> c.sessions[i]]
      /\ d.order = RemoveFirst(c.order, id)
      /\ d.room = c.room /\ d.nextId = c.nextId /\ d.told = c.told /\ d.closing = c.closing
      /\ d.lastActivity = c.lastActivity
      /\ d = [sessions |-> d.sessions, order |-> d.order, room |-> d.room,
              lastActivity |-> d.lastActivity, nextId |-> d.nextId, told |-> d.told,
              closing |-> d.closing]
  <2> DEFINE t == [i \in Ids(c) \ {id} |-> c.sessions[i]]
             o == RemoveFirst(c.order, id)
  <2>1. d = [c EXCEPT !.sessions = t, !.order = o]
    BY DEF Forget, Restrict
  <2>2. c = [sessions |-> c.sessions, order |-> c.order, room |-> c.room,
             lastActivity |-> c.lastActivity, nextId |-> c.nextId, told |-> c.told,
             closing |-> c.closing]
    BY <1>1, CoreIs
  <2> HIDE DEF t, o, d
  <2>3. d = [sessions |-> t, order |-> o, room |-> c.room,
             lastActivity |-> c.lastActivity, nextId |-> c.nextId, told |-> c.told,
             closing |-> c.closing]
    BY <2>1, <2>2
  <2> QED
    BY <2>3 DEF t, o
<1> HIDE DEF d
<1>3. /\ d.order \in Seq(Nat) /\ Distinct(d.order)
      /\ ToSet(d.order) = ToSet(c.order) \ {id}
      /\ Len(d.order) = IF id \in ToSet(c.order) THEN Len(c.order) - 1 ELSE Len(c.order)
  BY <1>1, <1>2, Removed
<1>4. Ids(d) = Ids(c) \ {id} /\ \A i \in Ids(d) : d.sessions[i] = c.sessions[i]
  BY <1>2 DEF Ids
<1>5. d.sessions \in Sessions
  <2>1. DOMAIN c.sessions \subseteq Nat /\ \A i \in DOMAIN c.sessions : c.sessions[i] \in Session
    BY <1>1, SessionsAre
  <2>2. /\ DOMAIN d.sessions \subseteq Nat /\ d.sessions = [i \in DOMAIN d.sessions |-> d.sessions[i]]
        /\ \A i \in DOMAIN d.sessions : d.sessions[i] \in Session
    BY <1>2, <1>4, <2>1 DEF Ids
  <2> QED
    BY <2>2, SessionsAre
<1>6. d \in Cores
  BY <1>1, <1>2, <1>3, <1>5 DEF Cores
<1>7. ToSet(d.order) = {i \in DOMAIN d.sessions : d.sessions[i].peer # None}
  BY <1>3, <1>4 DEF Sound, Ids
<1>8. \A i, j \in ToSet(d.order) : d.sessions[i].peer = d.sessions[j].peer => i = j
  BY <1>3, <1>4, <1>7 DEF Sound, Ids
<1>9. OwnSockets(d.sessions)
  BY <1>4 DEF Sound, Ids, OwnSockets
<1>10. Len(d.order) <= MAX_ROOM_PEERS
  BY <1>1, <1>3, RoomAssumption, LenProperties DEF Sound
<1>11. Lasting(d)
  <2>1. c.order = <<>> => d.order = <<>>
    <3> SUFFICES ASSUME c.order = <<>> PROVE d.order = <<>>
      OBVIOUS
    <3>1. Len(c.order) = 0 /\ ToSet(c.order) = {}
      BY DEF ToSet
    <3> QED
      BY <1>3, <3>1, EmptySeq
  <2> QED
    BY <1>2, <2>1 DEF Sound, Lasting
<1> QED
  BY <1>2, <1>3, <1>4, <1>6, <1>7, <1>8, <1>9, <1>10, <1>11 DEF Sound, d, Members

\* A change that touches neither the sessions nor the order.
LEMMA SameParts ==
  ASSUME NEW c, Sound(c), NEW d \in Cores, d.sessions = c.sessions, d.order = c.order,
         Lasting(d)
  PROVE  /\ Sound(d) /\ Ids(d) = Ids(c) /\ Members(d) = Members(c) /\ Roster(d) = Roster(c)
         /\ \A i \in Ids(c) : SocketOf(d, i) = SocketOf(c, i) /\ d.sessions[i] = c.sessions[i]
  BY DEF Sound, Ids, Members, Roster, SocketOf

LEMMA Closes ==
  ASSUME NEW c, Sound(c), NEW s \in Sockets
  PROVE  LET d == Close(c, s) IN
         /\ Sound(d) /\ Ids(d) = Ids(c) /\ Members(d) = Members(c) /\ Roster(d) = Roster(c)
         /\ \A i \in Ids(c) : SocketOf(d, i) = SocketOf(c, i) /\ d.sessions[i] = c.sessions[i]
         /\ d.order = c.order /\ d.room = c.room /\ d.lastActivity = c.lastActivity
         /\ d.nextId = c.nextId /\ d.told = c.told /\ d.closing = c.closing \cup {s}
<1> DEFINE d == Close(c, s)
<1>1. c \in Cores /\ c.closing \subseteq Sockets
  BY DEF Sound, Cores
<1>2. /\ d \in Cores /\ d.sessions = c.sessions /\ d.order = c.order /\ d.room = c.room
      /\ d.lastActivity = c.lastActivity
      /\ d.nextId = c.nextId /\ d.told = c.told /\ d.closing = c.closing \cup {s}
  <2>1. c.closing \cup {s} \subseteq Sockets
    BY <1>1
  <2> DEFINE x == c.closing \cup {s}
  <2>2. d = [c EXCEPT !.closing = x]
    BY DEF Close
  <2> HIDE DEF x, d
  <2> QED
    BY <1>1, <2>1, <2>2 DEF Cores, x
<1> HIDE DEF d
<1>3. Lasting(d)
  BY <1>2 DEF Sound, Lasting
<1> QED
  BY <1>2, <1>3, SameParts DEF d

LEMMA Dropped ==
  ASSUME NEW c, Sound(c), NEW id \in Ids(c)
  PROVE  LET d == Drop(c, id) IN
         /\ Sound(d)
         /\ Ids(d) = Ids(c) \ {id} /\ \A i \in Ids(d) : d.sessions[i] = c.sessions[i]
         /\ Members(d) = Members(c) \ {id}
         /\ Len(d.order) = IF id \in Members(c) THEN Len(c.order) - 1 ELSE Len(c.order)
         /\ d.nextId = c.nextId /\ d.told = c.told /\ d.closing = c.closing
<1> DEFINE f == Forget(c, id)
           r == f.room /\ ~(id \in Members(c) /\ f.order = <<>>)
           d == [f EXCEPT !.room = r]
<1>1. /\ Sound(f)
      /\ Ids(f) = Ids(c) \ {id} /\ \A i \in Ids(f) : f.sessions[i] = c.sessions[i]
      /\ Members(f) = Members(c) \ {id}
      /\ Len(f.order) = IF id \in Members(c) THEN Len(c.order) - 1 ELSE Len(c.order)
      /\ f.nextId = c.nextId /\ f.told = c.told /\ f.closing = c.closing
  BY Forgotten
<1>2. Drop(c, id) = d
  BY DEF Drop
<1> HIDE DEF f
<1>3. f \in Cores /\ f.room \in BOOLEAN /\ Lasting(f)
  BY <1>1 DEF Sound, Cores
<1>4. r \in BOOLEAN /\ (f.order # <<>> => r) /\ (r => f.room)
  BY <1>3 DEF Lasting
<1> HIDE DEF r
<1>5. /\ d \in Cores /\ d.sessions = f.sessions /\ d.order = f.order /\ d.room = r
      /\ d.lastActivity = f.lastActivity
      /\ d.nextId = f.nextId /\ d.told = f.told /\ d.closing = f.closing
  BY <1>3, <1>4 DEF Cores
<1> HIDE DEF d
<1>6. /\ Sound(d) /\ Ids(d) = Ids(f) /\ Members(d) = Members(f)
      /\ \A i \in Ids(f) : d.sessions[i] = f.sessions[i]
  <2>1. Lasting(d)
    BY <1>3, <1>4, <1>5 DEF Lasting
  <2> QED
    BY <1>1, <1>5, <2>1, SameParts
<1> QED
  BY <1>1, <1>2, <1>5, <1>6

\* One thinning after the other.
LEMMA ThinnedTwice ==
  ASSUME NEW c, NEW d, NEW e, NEW q1, NEW q2, Thinned(c, d, q1), Thinned(d, e, q2)
  PROVE  Thinned(c, e, q1 \cup q2)
  BY DEF Thinned

Unbroken(c, failing) == \A id \in Members(c) : SocketOf(c, id) \notin failing

\* One loop of announce reaches everybody, or costs one member its place.
LEMMA Passed ==
  ASSUME NEW c, Sound(c), NEW failing
  PROVE  LET d == pass(c, failing) IN
         /\ Thinned(c, d, {})
         /\ Unbroken(c, failing) => AllTold(d) /\ Unbroken(d, failing)
         /\ ~Unbroken(c, failing) => Len(d.order) = Len(c.order) - 1
<1> DEFINE bad == {i \in DOMAIN c.order : SocketOf(c, c.order[i]) \in failing}
           before == IF bad = {} THEN Len(c.order) ELSE Min(bad) - 1
           reached == {SocketOf(c, c.order[i]) : i \in 1..before}
           t == [s \in Sockets |-> IF s \in reached THEN Roster(c) ELSE c.told[s]]
           sent == [c EXCEPT !.told = t]
           id == c.order[before + 1]
<1>1. pass(c, failing) = IF bad = {} THEN sent ELSE Close(Drop(sent, id), SocketOf(c, id))
  BY DEF pass
<1>2. /\ c \in Cores /\ Len(c.order) \in Nat /\ DOMAIN c.order = 1..Len(c.order)
      /\ Roster(c) \subseteq Peers /\ c.told \in [Sockets -> SUBSET (Peers \cup {None})]
      /\ Members(c) \subseteq Ids(c) /\ \A i \in Ids(c) : SocketOf(c, i) \in Sockets
  BY SoundFacts DEF Sound
<1>3. bad = {} <=> Unbroken(c, failing)
  BY DEF Unbroken, Members, ToSet
<1>4. t \in [Sockets -> SUBSET (Peers \cup {None})]
  BY <1>2
<1>5. /\ sent \in Cores /\ sent.sessions = c.sessions /\ sent.order = c.order /\ sent.room = c.room
      /\ sent.lastActivity = c.lastActivity
      /\ sent.nextId = c.nextId /\ sent.told = t /\ sent.closing = c.closing
  <2> HIDE DEF t
  <2> QED
    BY <1>2, <1>4 DEF Cores
<1> HIDE DEF sent
<1>6. /\ Sound(sent) /\ Ids(sent) = Ids(c) /\ Members(sent) = Members(c) /\ Roster(sent) = Roster(c)
      /\ \A i \in Ids(c) : SocketOf(sent, i) = SocketOf(c, i)
  <2>1. Lasting(sent)
    BY <1>5 DEF Sound, Lasting
  <2> QED
    BY <1>5, <2>1, SameParts
<1>7. ASSUME bad = {}
      PROVE  Thinned(c, sent, {}) /\ AllTold(sent) /\ Unbroken(sent, failing)
  <2>1. Thinned(c, sent, {})
    BY <1>5, <1>6 DEF Thinned
  <2>2. ASSUME NEW i \in Members(sent)
        PROVE  sent.told[SocketOf(sent, i)] = Roster(sent)
    <3>1. PICK n \in 1..Len(c.order) : i = c.order[n]
      BY <1>2, <1>6 DEF Members, ToSet
    <3>2. SocketOf(c, i) \in reached /\ SocketOf(c, i) \in Sockets
      BY <1>2, <1>6, <1>7, <3>1
    <3> QED
      BY <1>2, <1>5, <1>6, <3>2
  <2>3. Unbroken(sent, failing)
    BY <1>2, <1>3, <1>6, <1>7 DEF Unbroken
  <2> QED
    BY <2>1, <2>2, <2>3 DEF AllTold
<1>8. ASSUME bad # {}
      PROVE  LET d == Close(Drop(sent, id), SocketOf(c, id)) IN
             Thinned(c, d, {}) /\ Len(d.order) = Len(c.order) - 1
  <2>1. PICK n \in bad : \A m \in bad : n <= m
    <3>1. bad \subseteq Nat
      BY <1>2
    <3> HIDE DEF bad
    <3> QED
      BY ONLY <1>8, <3>1, LeastExists
  <2>2. Min(bad) \in bad
    BY <2>1 DEF Min
  <2>3. id \in Members(c)
    <3>1. Min(bad) \in 1..Len(c.order)
      BY <1>2, <2>2
    <3>2. before + 1 = Min(bad)
      BY <1>2, <1>8, <3>1
    <3> QED
      BY <1>2, <3>1, <3>2 DEF Members, ToSet
  <2> HIDE DEF id, bad
  <2> DEFINE g == Drop(sent, id)
             d == Close(g, SocketOf(c, id))
  <2>4. id \in Ids(sent) /\ id \in Members(sent) /\ SocketOf(c, id) \in Sockets
    BY <1>2, <1>6, <2>3
  <2>5. /\ Sound(g)
        /\ Ids(g) = Ids(sent) \ {id} /\ \A i \in Ids(g) : g.sessions[i] = sent.sessions[i]
        /\ Len(g.order) = Len(sent.order) - 1
        /\ g.nextId = sent.nextId /\ g.closing = sent.closing
    BY <1>6, <2>4, Dropped
  <2> HIDE DEF g
  <2>6. /\ Sound(d) /\ Ids(d) = Ids(g) /\ d.order = g.order
        /\ \A i \in Ids(g) : SocketOf(d, i) = SocketOf(g, i)
        /\ d.nextId = g.nextId /\ d.closing = g.closing \cup {SocketOf(c, id)}
    BY <2>4, <2>5, Closes
  <2> HIDE DEF d
  <2>7. \A i \in Ids(g) : SocketOf(g, i) = SocketOf(c, i)
    BY <1>6, <2>5 DEF SocketOf
  <2>8. Thinned(c, d, {})
    BY <1>5, <1>6, <2>5, <2>6, <2>7 DEF Thinned
  <2> QED
    BY <1>5, <2>5, <2>6, <2>8 DEF d, g
<1> QED
  BY <1>1, <1>3, <1>7, <1>8

\* The announcements nested in one another.
LEMMA AnnounceLoop ==
  ASSUME NEW c, NEW failing, Len(c.order) \in Nat
  PROVE  \E nested : /\ announce(c, failing) = nested[Len(c.order)]
                     /\ \A i \in 0..Len(c.order) :
                           nested[i] = pass(IF i = 0 THEN c ELSE nested[i - 1], failing)
<1> DEFINE N == Len(c.order)
           A(x) == pass(x, failing)
           Nested(f, n) == f = [i \in 0..n |-> A(IF i = 0 THEN c ELSE f[i - 1])]
           nested == CHOOSE f : Nested(f, N)
<1>1. announce(c, failing) = nested[N]
  BY DEF announce
<1> HIDE DEF A, Nested, N
<1>2. N \in Nat
  BY DEF N
<1>3. \E f : Nested(f, N)
  <2> DEFINE T == {k \in Nat : ~ \E f : Nested(f, k)}
  <2>1. SUFFICES ASSUME T # {} PROVE FALSE
    BY <1>2
  <2>2. T \subseteq Nat
    OBVIOUS
  <2> HIDE DEF T
  <2>3. PICK k \in T : \A j \in T : k <= j
    BY ONLY <2>1, <2>2, LeastExists
  <2>4. k \in Nat
    BY <2>2, <2>3
  <2>5. CASE k = 0
    <3> DEFINE f == [i \in 0..0 |-> A(c)]
    <3>1. 0..0 = {0}
      OBVIOUS
    <3>2. Nested(f, 0)
      BY <3>1 DEF Nested
    <3> QED
      BY <2>3, <2>5, <3>2 DEF T
  <2>6. CASE k > 0
    <3>1. k - 1 \in Nat /\ k - 1 \notin T
      BY <2>3, <2>4, <2>6
    <3>2. PICK f : Nested(f, k - 1)
      BY <3>1 DEF T
    <3> DEFINE g == [i \in 0..k |-> IF i < k THEN f[i] ELSE A(f[k - 1])]
    <3>3. ASSUME NEW i \in 0..k
          PROVE  g[i] = A(IF i = 0 THEN c ELSE g[i - 1])
      <4>1. CASE i < k
        <5>1. i \in 0..(k - 1) /\ g[i] = f[i]
          BY <2>4, <3>1, <4>1
        <5>2. f[i] = A(IF i = 0 THEN c ELSE f[i - 1])
          BY <3>2, <5>1 DEF Nested
        <5>3. i # 0 => g[i - 1] = f[i - 1]
          BY <2>4, <4>1
        <5> QED
          BY <5>1, <5>2, <5>3
      <4>2. CASE ~(i < k)
        <5>1. i = k /\ i # 0 /\ k - 1 \in 0..k /\ k - 1 < k
          BY <2>4, <2>6, <3>1, <4>2
        <5> QED
          BY <5>1
      <4> QED
        BY <4>1, <4>2
    <3>4. Nested(g, k)
      <4> DEFINE t == [i \in 0..k |-> A(IF i = 0 THEN c ELSE g[i - 1])]
      <4>1. \A i \in 0..k : g[i] = t[i]
        BY <3>3
      <4> QED
        BY <4>1 DEF Nested
    <3> HIDE DEF g
    <3> QED
      BY <2>3, <2>4, <3>4 DEF T
  <2> QED
    BY <2>4, <2>5, <2>6
<1>4. Nested(nested, N)
  BY <1>3
<1> HIDE DEF nested
<1>5. \A i \in 0..N : nested[i] = A(IF i = 0 THEN c ELSE nested[i - 1])
  BY <1>4 DEF Nested
<1> QED
  BY <1>1, <1>5 DEF A, N

\* In the end every member that is left was told the roster as it is.
LEMMA Announced ==
  ASSUME NEW c, Sound(c), NEW failing
  PROVE  Thinned(c, announce(c, failing), {}) /\ AllTold(announce(c, failing))
<1> DEFINE n == Len(c.order)
<1>1. n \in Nat
  BY SoundFacts
<1>2. PICK nested : /\ announce(c, failing) = nested[n]
                    /\ \A i \in 0..n : nested[i] = pass(IF i = 0 THEN c ELSE nested[i - 1], failing)
  BY <1>1, AnnounceLoop
<1> HIDE DEF n
<1> DEFINE Good(i) == /\ Thinned(c, nested[i], {})
                      /\ \/ AllTold(nested[i]) /\ Unbroken(nested[i], failing)
                         \/ Len(nested[i].order) <= n - (i + 1)
           T == {i \in 0..n : ~Good(i)}
<1>3. T = {}
  <2> SUFFICES ASSUME T # {} PROVE FALSE
    OBVIOUS
  <2>1. T \subseteq Nat
    OBVIOUS
  <2> HIDE DEF T
  <2>2. PICK k \in T : \A j \in T : k <= j
    BY ONLY T # {}, <2>1, LeastExists
  <2>3. k \in 0..n /\ ~Good(k)
    BY <2>2 DEF T
  <2> DEFINE d == IF k = 0 THEN c ELSE nested[k - 1]
  <2>4. nested[k] = pass(d, failing)
    BY <1>2, <2>3
  <2>5. /\ Sound(d) /\ Thinned(c, d, {})
        /\ \/ AllTold(d) /\ Unbroken(d, failing)
           \/ Len(d.order) <= n - k
    <3>1. CASE k = 0
      BY <1>1, <3>1 DEF Thinned, n
    <3>2. CASE k # 0
      <4>1. k - 1 \in 0..n /\ k - 1 \notin T
        BY <1>1, <2>2, <2>3, <3>2
      <4>2. Good(k - 1)
        BY <4>1 DEF T
      <4>3. (k - 1) + 1 = k
        BY <2>3
      <4> QED
        BY <3>2, <4>2, <4>3 DEF Thinned
    <3> QED
      BY <3>1, <3>2
  <2> HIDE DEF d, Good
  <2>6. /\ Thinned(d, nested[k], {})
        /\ Unbroken(d, failing) => AllTold(nested[k]) /\ Unbroken(nested[k], failing)
        /\ ~Unbroken(d, failing) => Len(nested[k].order) = Len(d.order) - 1
    BY <2>4, <2>5, Passed
  <2>7. Thinned(c, nested[k], {} \cup {})
    BY <2>5, <2>6, ThinnedTwice
  <2>8. Len(d.order) \in Nat
    BY <2>5, SoundFacts
  <2>9. Good(k)
    <3>1. CASE Unbroken(d, failing)
      BY <2>6, <2>7, <3>1 DEF Good
    <3>2. CASE ~Unbroken(d, failing)
      <4>1. Len(nested[k].order) <= n - (k + 1)
        BY <1>1, <2>3, <2>5, <2>6, <2>8, <3>2
      <4> QED
        BY <2>7, <4>1 DEF Good
    <3> QED
      BY <3>1, <3>2
  <2> QED
    BY <2>3, <2>9
<1>4. n \in 0..n /\ Good(n)
  BY <1>1, <1>3
<1>5. Len(nested[n].order) \in Nat
  BY <1>4, SoundFacts DEF Thinned
<1> QED
  BY <1>1, <1>2, <1>4, <1>5

-----------------------------------------------------------------------------
(***************************************************************************)
(* The operations.                                                         *)
(***************************************************************************)

LEMMA Nothing ==
  ASSUME NEW c, Sound(c), NEW quiet
  PROVE  Outcome(c, c, quiet)
  BY DEF Outcome, Thinned, SameRoster

LEMMA OutcomeTwice ==
  ASSUME NEW c, NEW d, NEW e, NEW q1, NEW q2, Outcome(c, d, q1), Outcome(d, e, q2)
  PROVE  Outcome(c, e, q1 \cup q2)
<1>1. Thinned(c, e, q1 \cup q2)
  BY ThinnedTwice DEF Outcome
<1>2. ASSUME AllTold(d), SameRoster(d, e)
      PROVE  AllTold(e)
  BY <1>2 DEF AllTold, SameRoster
<1>3. ASSUME SameRoster(c, d), SameRoster(d, e)
      PROVE  SameRoster(c, e)
  BY <1>3 DEF SameRoster
<1> QED
  BY <1>1, <1>2, <1>3 DEF Outcome

\* The socket of a session that is gone is closed.
LEMMA ClosedOutcome ==
  ASSUME NEW c, NEW d, NEW s \in Sockets, Outcome(c, d, {s})
  PROVE  Outcome(c, Close(d, s), {})
<1> DEFINE e == Close(d, s)
<1>1. Sound(d)
  BY DEF Outcome, Thinned
<1>2. /\ Sound(e) /\ Ids(e) = Ids(d) /\ Members(e) = Members(d) /\ Roster(e) = Roster(d)
      /\ \A i \in Ids(d) : SocketOf(e, i) = SocketOf(d, i)
      /\ e.nextId = d.nextId /\ e.told = d.told /\ e.closing = d.closing \cup {s}
  BY <1>1, Closes
<1> HIDE DEF e
<1>3. Members(d) \subseteq Ids(d)
  BY <1>1, SoundFacts
<1>4. Thinned(c, e, {})
  BY <1>2 DEF Outcome, Thinned
<1>5. AllTold(d) => AllTold(e)
  BY <1>2, <1>3 DEF AllTold
<1>6. SameRoster(c, d) => SameRoster(c, e)
  BY <1>2, <1>3 DEF SameRoster
<1> QED
  BY <1>4, <1>5, <1>6 DEF Outcome, e

LEMMA Disconnected ==
  ASSUME NEW c, Sound(c), NEW id, NEW failing, NEW quiet,
         id \in Ids(c) => SocketOf(c, id) \in quiet
  PROVE  Outcome(c, disconnect(c, id, failing), quiet) /\ id \notin Ids(disconnect(c, id, failing))
<1>0. Members(c) \subseteq Ids(c)
  BY SoundFacts
<1>1. CASE id \notin Ids(c)
  <2>1. disconnect(c, id, failing) = c
    BY <1>1 DEF disconnect
  <2> QED
    BY <1>1, <2>1, Nothing
<1>2. ASSUME id \in Ids(c)
      PROVE  /\ Thinned(c, Drop(c, id), quiet) /\ id \notin Ids(Drop(c, id))
             /\ id \notin Members(c) => SameRoster(c, Drop(c, id))
  <2> DEFINE d == Drop(c, id)
  <2>1. /\ Sound(d)
        /\ Ids(d) = Ids(c) \ {id} /\ \A i \in Ids(d) : d.sessions[i] = c.sessions[i]
        /\ Members(d) = Members(c) \ {id}
        /\ d.nextId = c.nextId /\ d.told = c.told /\ d.closing = c.closing
    BY <1>2, Dropped
  <2> HIDE DEF d
  <2>2. Thinned(c, d, quiet)
    BY <1>2, <2>1 DEF Thinned, SocketOf
  <2>3. id \notin Members(c) => SameRoster(c, d)
    BY <1>0, <2>1 DEF SameRoster, Roster, SocketOf
  <2> QED
    BY <2>1, <2>2, <2>3 DEF d
<1>3. CASE id \in Ids(c) \ Members(c)
  <2>1. disconnect(c, id, failing) = Drop(c, id)
    BY <1>3 DEF disconnect
  <2> QED
    BY <1>2, <1>3, <2>1 DEF Outcome
<1>4. CASE id \in Ids(c) /\ id \in Members(c)
  <2> DEFINE d == Drop(c, id)
             e == announce(d, failing)
  <2>1. disconnect(c, id, failing) = e
    BY <1>4 DEF disconnect
  <2>2. Thinned(c, d, quiet) /\ id \notin Ids(d)
    BY <1>2, <1>4
  <2> HIDE DEF d
  <2>3. Thinned(d, e, {}) /\ AllTold(e)
    BY <2>2, Announced DEF Thinned
  <2> HIDE DEF e
  <2>4. Thinned(c, e, quiet)
    BY ONLY <2>2, <2>3 DEF Thinned
  <2>5. id \notin Ids(e)
    BY <2>2, <2>3 DEF Thinned
  <2> QED
    BY <2>1, <2>3, <2>4, <2>5 DEF Outcome
<1> QED
  BY <1>0, <1>1, <1>3, <1>4

LEMMA Rejected ==
  ASSUME NEW c, Sound(c), NEW id \in Ids(c), NEW failing
  PROVE  Outcome(c, reject(c, id, failing), {})
<1>1. SocketOf(c, id) \in Sockets
  BY SoundFacts
<1>2. Outcome(c, disconnect(c, id, failing), {SocketOf(c, id)})
  BY Disconnected
<1> QED
  BY <1>1, <1>2, ClosedOutcome DEF reject

LEMMA TakenOver ==
  ASSUME NEW c, Sound(c), NEW p \in Peers
  PROVE  LET d == takeOver(c, p) IN
         /\ Thinned(c, d, {})
         /\ d = c \/ Len(d.order) < Len(c.order)
         /\ \A i \in Ids(d) : d.sessions[i] = c.sessions[i]
         /\ \A i \in Ids(c) : c.sessions[i].peer = None => i \in Ids(d)
         /\ \A i \in Members(d) : d.sessions[i].peer # p
<1> DEFINE old == {i \in Members(c) : c.sessions[i].peer = p}
           k == CHOOSE j \in old : TRUE
           f == Forget(c, k)
           d == Close(f, SocketOf(c, k))
<1>1. takeOver(c, p) = IF old = {} THEN c ELSE d
  BY DEF takeOver
<1>2. CASE old = {}
  BY <1>1, <1>2 DEF Thinned
<1>3. CASE old # {}
  <2>1. k \in old
    BY <1>3
  <2>2. k \in Members(c) /\ k \in Ids(c) /\ c.sessions[k].peer = p /\ SocketOf(c, k) \in Sockets
        /\ Len(c.order) \in Nat /\ Members(c) \subseteq Ids(c)
    BY <2>1, SoundFacts
  <2>3. \A i \in Members(c) : c.sessions[i].peer = p => i = k
    BY <2>2 DEF Sound, Members
  <2> HIDE DEF old, k
  <2>4. /\ Sound(f)
        /\ Ids(f) = Ids(c) \ {k} /\ \A i \in Ids(f) : f.sessions[i] = c.sessions[i]
        /\ Members(f) = Members(c) \ {k}
        /\ Len(f.order) = Len(c.order) - 1
        /\ f.nextId = c.nextId /\ f.closing = c.closing
    BY <2>2, Forgotten
  <2> HIDE DEF f
  <2>5. /\ Sound(d) /\ Ids(d) = Ids(f) /\ Members(d) = Members(f)
        /\ \A i \in Ids(f) : SocketOf(d, i) = SocketOf(f, i) /\ d.sessions[i] = f.sessions[i]
        /\ d.order = f.order
        /\ d.nextId = f.nextId /\ d.closing = f.closing \cup {SocketOf(c, k)}
    BY <2>2, <2>4, Closes
  <2> HIDE DEF d
  <2>6. Thinned(c, d, {})
    BY <2>2, <2>4, <2>5 DEF Thinned, SocketOf
  <2>7. \A i \in Members(d) : d.sessions[i].peer # p
    BY <2>2, <2>3, <2>4, <2>5
  <2>8. p # None
    BY RoomAssumption
  <2>9. Len(d.order) < Len(c.order)
    BY <2>2, <2>4, <2>5
  <2>10. \A i \in Ids(d) : d.sessions[i] = c.sessions[i]
    BY <2>4, <2>5
  <2>11. \A i \in Ids(c) : c.sessions[i].peer = None => i \in Ids(d)
    BY <2>2, <2>4, <2>5, <2>8
  <2> QED
    BY <1>1, <1>3, <2>6, <2>7, <2>9, <2>10, <2>11
<1> QED
  BY <1>2, <1>3

LEMMA Joins ==
  ASSUME NEW c, Sound(c), NEW id \in Ids(c), NEW p \in Peers, NEW t \in Nat \ {0}, NEW failing
  PROVE  Outcome(c, join(c, id, p, t, failing), {})
<1> DEFINE refused == c.sessions[id].peer # None \/ t - c.sessions[id].openedAt >= JOIN_TIMEOUT
           free == takeOver(c, p)
           full == Len(free.order) >= MAX_ROOM_PEERS
           own == [free.sessions EXCEPT ![id].peer = p]
           joined == [free EXCEPT !.sessions[id].peer = p, !.order = Append(@, id),
                                  !.room = TRUE, !.lastActivity = t]
<1>1. /\ refused => join(c, id, p, t, failing) = reject(c, id, failing)
      /\ ~refused /\ full => join(c, id, p, t, failing) = reject(free, id, failing)
      /\ ~refused /\ ~full => join(c, id, p, t, failing) = announce(joined, failing)
  BY DEF join
<1>2. CASE refused
  BY <1>1, <1>2, Rejected
<1>3. /\ Thinned(c, free, {}) /\ Sound(free)
      /\ free = c \/ Len(free.order) < Len(c.order)
      /\ \A i \in Ids(free) : free.sessions[i] = c.sessions[i]
      /\ \A i \in Ids(c) : c.sessions[i].peer = None => i \in Ids(free)
      /\ \A i \in Members(free) : free.sessions[i].peer # p
  BY TakenOver DEF Thinned
<1>4. Len(c.order) \in Nat /\ Len(c.order) <= MAX_ROOM_PEERS /\ MAX_ROOM_PEERS \in Nat
  BY SoundFacts, RoomAssumption DEF Sound
<1> HIDE DEF free
<1>5. Len(free.order) \in Nat
  BY <1>3, SoundFacts
<1>6. CASE ~refused /\ full
  <2>1. free = c
    BY <1>3, <1>4, <1>5, <1>6
  <2> QED
    BY <1>1, <1>6, <2>1, Rejected
<1>7. CASE ~refused /\ ~full
  <2>1. /\ id \in Ids(free) /\ id \in Nat /\ free.sessions[id].peer = None
        /\ free \in Cores /\ free.sessions \in Sessions /\ free.order \in Seq(Nat)
        /\ Distinct(free.order) /\ id \notin Members(free)
    <3>1. id \in Ids(free) /\ free.sessions[id].peer = None
      BY <1>3, <1>7
    <3>2. free \in Cores /\ Distinct(free.order)
      BY <1>3 DEF Sound
    <3>3. free.sessions \in Sessions /\ free.order \in Seq(Nat)
      BY <3>2 DEF Cores
    <3>4. Ids(free) \subseteq Nat /\ \A i \in Members(free) : free.sessions[i].peer # None
      BY <1>3, SoundFacts
    <3> QED
      BY <3>1, <3>2, <3>3, <3>4
  <2> DEFINE o == Append(free.order, id)
  <2>2. /\ o \in Seq(Nat) /\ Distinct(o) /\ o # <<>>
        /\ ToSet(o) = Members(free) \cup {id} /\ Len(o) = Len(free.order) + 1
    <3>1. id \notin ToSet(free.order)
      BY <2>1 DEF Members
    <3> QED
      BY ONLY <2>1, <3>1, Appended DEF Members
  <2>3. /\ DOMAIN free.sessions \subseteq Nat
        /\ \A i \in DOMAIN free.sessions : free.sessions[i] \in Session
    BY <2>1, SessionsAre
  <2>4. /\ DOMAIN own = Ids(free) /\ own = [i \in DOMAIN own |-> own[i]]
        /\ \A i \in Ids(free) : i # id => own[i] = free.sessions[i]
        /\ own[id] = [free.sessions[id] EXCEPT !.peer = p]
    BY <2>1 DEF Ids
  <2>5. /\ own[id] \in Session /\ own[id].peer = p
        /\ own[id].socket = free.sessions[id].socket
    <3>1. free.sessions[id] \in Session
      BY <2>1, <2>3 DEF Ids
    <3> QED
      BY <2>4, <3>1 DEF Session
  <2> HIDE DEF own, o
  <2>6. own \in Sessions
    <3>1. DOMAIN own \subseteq Nat /\ \A i \in DOMAIN own : own[i] \in Session
      BY <2>3, <2>4, <2>5 DEF Ids
    <3> QED
      BY <2>4, <3>1, SessionsAre
  <2>7. /\ joined \in Cores /\ joined.sessions = own /\ joined.order = o /\ joined.room = TRUE
        /\ joined.lastActivity = t /\ joined.nextId = free.nextId /\ joined.closing = free.closing
    <3>1. free = [sessions |-> free.sessions, order |-> free.order, room |-> free.room,
                  lastActivity |-> free.lastActivity, nextId |-> free.nextId,
                  told |-> free.told, closing |-> free.closing]
      BY <2>1, CoreIs
    <3>2. joined = [sessions |-> own, order |-> o, room |-> TRUE, lastActivity |-> t,
                    nextId |-> free.nextId, told |-> free.told, closing |-> free.closing]
      <4>1. joined = [free EXCEPT !.sessions = own, !.order = o, !.room = TRUE, !.lastActivity = t]
        BY <3>1 DEF own, o
      <4> HIDE DEF joined
      <4> QED
        BY <3>1, <4>1
    <3> HIDE DEF joined
    <3> QED
      BY <2>1, <2>2, <2>6, <3>2 DEF Cores
  <2> HIDE DEF joined
  <2>8. ToSet(joined.order) = {i \in DOMAIN joined.sessions : joined.sessions[i].peer # None}
    <3>1. Members(free) = {i \in Ids(free) : free.sessions[i].peer # None} /\ p # None
      BY <1>3, RoomAssumption DEF Sound, Members, Ids
    <3> QED
      BY <2>1, <2>2, <2>4, <2>5, <2>7, <3>1
  <2>9. \A i, j \in ToSet(joined.order) :
           joined.sessions[i].peer = joined.sessions[j].peer => i = j
    <3>1. \A i, j \in Members(free) : free.sessions[i].peer = free.sessions[j].peer => i = j
      BY <1>3 DEF Sound, Members
    <3>2. Members(free) \subseteq Ids(free)
      BY <1>3, SoundFacts
    <3>3. \A i \in Members(free) :
             own[i] = free.sessions[i] /\ own[i].peer # p /\ i # id
      BY <1>3, <2>1, <2>4, <3>2
    <3> SUFFICES ASSUME NEW i \in Members(free) \cup {id}, NEW j \in Members(free) \cup {id},
                        own[i].peer = own[j].peer
                 PROVE  i = j
      BY <2>2, <2>7
    <3>4. CASE i = id \/ j = id
      BY <2>5, <3>3, <3>4
    <3>5. CASE i # id /\ j # id
      BY <3>1, <3>3, <3>5
    <3> QED
      BY <3>4, <3>5
  <2>10. \A i \in Ids(free) : joined.sessions[i].socket = free.sessions[i].socket
    BY <2>4, <2>5, <2>7
  <2>11. OwnSockets(joined.sessions)
    BY <1>3, <2>4, <2>7, <2>10 DEF Sound, OwnSockets, Ids
  <2>12. Len(joined.order) <= MAX_ROOM_PEERS
    BY <1>4, <1>5, <1>7, <2>2, <2>7
  <2>13. Sound(joined)
    BY <2>2, <2>7, <2>8, <2>9, <2>11, <2>12 DEF Sound, Lasting
  <2>14. Thinned(free, joined, {})
    BY <2>4, <2>7, <2>10, <2>13 DEF Thinned, SocketOf, Ids
  <2> DEFINE e == announce(joined, failing)
  <2>15. Thinned(joined, e, {}) /\ AllTold(e)
    BY <2>13, Announced
  <2> HIDE DEF e
  <2>16. Thinned(c, e, {})
    BY ONLY <1>3, <2>14, <2>15 DEF Thinned
  <2> QED
    BY <1>1, <1>7, <2>15, <2>16 DEF Outcome, e
<1> QED
  BY <1>2, <1>6, <1>7

LEMMA Signals ==
  ASSUME NEW c, Sound(c), NEW id \in Ids(c), NEW p \in Peers, NEW t \in Nat \ {0}, NEW failing
  PROVE  Outcome(c, signal(c, id, p, t, failing), {})
<1> DEFINE joined == c.sessions[id].peer # None
           at == {i \in Members(c) : c.sessions[i].peer = p}
           k == CHOOSE j \in at : TRUE
           active == [c EXCEPT !.lastActivity = t]
<1>1. /\ ~joined => signal(c, id, p, t, failing) = reject(c, id, failing)
      /\ joined /\ at = {} => signal(c, id, p, t, failing) = c
      /\ joined /\ at # {} => signal(c, id, p, t, failing) =
            IF SocketOf(c, k) \in failing THEN reject(active, k, failing) ELSE active
  BY DEF signal
<1>2. CASE ~joined
  BY <1>1, <1>2, Rejected
<1>3. CASE joined /\ at = {}
  BY <1>1, <1>3, Nothing
<1>4. CASE joined /\ at # {}
  <2>1. c \in Cores /\ Lasting(c)
    BY DEF Sound
  <2>2. /\ active \in Cores /\ active.lastActivity = t /\ active.sessions = c.sessions /\ active.order = c.order
        /\ active.room = c.room /\ active.nextId = c.nextId /\ active.told = c.told
        /\ active.closing = c.closing
    BY <2>1 DEF Cores
  <2>3. k \in Members(c) /\ Members(c) \subseteq Ids(c)
    BY <1>4, SoundFacts
  <2> HIDE DEF active, k
  <2>4. /\ Sound(active) /\ Ids(active) = Ids(c) /\ Members(active) = Members(c)
        /\ Roster(active) = Roster(c)
        /\ \A i \in Ids(c) : SocketOf(active, i) = SocketOf(c, i)
    <3>1. Lasting(active)
      BY <2>1, <2>2 DEF Lasting
    <3> QED
      BY <2>2, <3>1, SameParts
  <2>5. Outcome(c, active, {})
    BY <2>2, <2>3, <2>4 DEF Outcome, Thinned, SameRoster
  <2>6. Outcome(active, reject(active, k, failing), {})
    BY <2>3, <2>4, Rejected
  <2>7. Outcome(c, reject(active, k, failing), {} \cup {})
    BY <2>5, <2>6, OutcomeTwice
  <2>8. {} \cup {} = {}
    OBVIOUS
  <2> QED
    BY <1>1, <1>4, <2>5, <2>7, <2>8
<1> QED
  BY <1>2, <1>3, <1>4

LEMMA Receives ==
  ASSUME NEW c, Sound(c), NEW id, NEW frame \in Frames, NEW t \in Nat \ {0}, NEW failing
  PROVE  Outcome(c, receive(c, id, frame, t, failing), {})
<1>1. CASE id \notin Ids(c)
  BY <1>1, Nothing DEF receive
<1>2. CASE id \in Ids(c) /\ frame.kind = "join"
  <2>1. frame.peer \in Peers
    BY <1>2 DEF Frames
  <2>2. receive(c, id, frame, t, failing) = join(c, id, frame.peer, t, failing)
    BY <1>2 DEF receive
  <2> QED
    BY <1>2, <2>1, <2>2, Joins
<1>3. CASE id \in Ids(c) /\ frame.kind = "signal"
  <2>1. frame.peer \in Peers
    BY <1>3 DEF Frames
  <2>2. receive(c, id, frame, t, failing) = signal(c, id, frame.peer, t, failing)
    BY <1>3 DEF receive
  <2> QED
    BY <1>3, <2>1, <2>2, Signals
<1>4. CASE id \in Ids(c) /\ frame.kind = "end"
  <2>1. receive(c, id, frame, t, failing) = reject(c, id, failing)
    BY <1>4 DEF receive
  <2> QED
    BY <1>4, <2>1, Rejected
<1>5. frame.kind \in {"join", "signal", "end"}
  BY DEF Frames
<1> QED
  BY <1>1, <1>2, <1>3, <1>4, <1>5

\* The two hosts sweep alike, with idle spans of their own.
Late(c, t) ==
    {id \in Ids(c) : c.sessions[id].peer = None /\ t - c.sessions[id].openedAt >= JOIN_TIMEOUT}

IdleFor(c, t, span) == c.room /\ t - c.lastActivity >= span

Gone(c, t, span) == Late(c, t) \cup IF IdleFor(c, t, span) THEN Members(c) ELSE {}

Swept(c, t, span) ==
    [c EXCEPT !.sessions = [i \in Ids(c) \ Gone(c, t, span) |-> c.sessions[i]],
              !.order = IF IdleFor(c, t, span) THEN <<>> ELSE @,
              !.room = @ /\ ~(IdleFor(c, t, span) /\ Members(c) # {}),
              !.closing = @ \cup {SocketOf(c, id) : id \in Gone(c, t, span)}]

LEMMA SweepIs ==
  ASSUME NEW c, NEW t
  PROVE  sweep(c, t) = Swept(c, t, IDLE)
  BY DEF sweep, Swept, Gone, Late, IdleFor, Restrict

\* The swept core.
SweptFrom(c, t, span, d) ==
    /\ Sound(d) /\ Ids(d) = Ids(c) \ Gone(c, t, span)
    /\ \A i \in Ids(d) : d.sessions[i] = c.sessions[i]
    /\ d.sessions = [i \in Ids(c) \ Gone(c, t, span) |-> c.sessions[i]]
    /\ d.order = IF IdleFor(c, t, span) THEN <<>> ELSE c.order
    /\ d.closing = c.closing \cup {SocketOf(c, id) : id \in Gone(c, t, span)}
    /\ d.lastActivity = c.lastActivity /\ d.nextId = c.nextId /\ d.told = c.told

LEMMA Sweeps ==
  ASSUME NEW c, Sound(c), NEW t, NEW span
  PROVE  LET d == Swept(c, t, span) IN Outcome(c, d, {}) /\ SweptFrom(c, t, span, d)
<1> DEFINE idle == IdleFor(c, t, span)
           gone == Gone(c, t, span)
           own == [i \in Ids(c) \ gone |-> c.sessions[i]]
           o == IF idle THEN <<>> ELSE c.order
           r == c.room /\ ~(idle /\ Members(c) # {})
           x == c.closing \cup {SocketOf(c, id) : id \in gone}
           d == [c EXCEPT !.sessions = own, !.order = o, !.room = r, !.closing = x]
<1>1. Swept(c, t, span) = d
  BY DEF Swept
<1>2. /\ c \in Cores /\ c.sessions \in Sessions /\ c.order \in Seq(Nat) /\ c.room \in BOOLEAN
      /\ c.closing \subseteq Sockets
      /\ Members(c) \subseteq Ids(c) /\ \A i \in Ids(c) : SocketOf(c, i) \in Sockets
      /\ \A i \in Members(c) : c.sessions[i].peer # None
  BY SoundFacts DEF Sound, Cores
<1>3. gone \subseteq Ids(c) /\ (~idle => gone \cap Members(c) = {}) /\ (idle => Members(c) \subseteq gone)
  BY <1>2 DEF Gone, Late
<1> HIDE DEF gone
<1>4. own \in Sessions
  <2>1. DOMAIN c.sessions \subseteq Nat /\ \A i \in DOMAIN c.sessions : c.sessions[i] \in Session
    BY <1>2, SessionsAre
  <2>2. /\ DOMAIN own \subseteq Nat /\ own = [i \in DOMAIN own |-> own[i]]
        /\ \A i \in DOMAIN own : own[i] \in Session
    BY <2>1 DEF Ids
  <2> HIDE DEF own
  <2> QED
    BY <2>2, SessionsAre
<1>5. o \in Seq(Nat) /\ Distinct(o) /\ Len(o) <= MAX_ROOM_PEERS /\ (o # <<>> => o = c.order)
      /\ ToSet(o) = IF idle THEN {} ELSE Members(c)
  <2>1. CASE idle
    <3>1. o = <<>>
      BY <2>1
    <3>2. <<>> \in Seq(Nat) /\ Len(<<>>) = 0 /\ ToSet(<<>>) = {}
      BY EmptySeq DEF ToSet
    <3>3. Distinct(<<>>)
      BY DEF Distinct
    <3> HIDE DEF o, idle
    <3> QED
      BY <2>1, <3>1, <3>2, <3>3, RoomAssumption
  <2>2. CASE ~idle
    BY <1>2, <2>2 DEF Sound, Members
  <2> QED
    BY <2>1, <2>2
<1>6. r \in BOOLEAN /\ (o # <<>> => r) /\ (r => c.lastActivity # 0)
  BY <1>2 DEF Sound, Lasting
<1>7. x \subseteq Sockets
  BY <1>2, <1>3
<1>8. /\ d \in Cores /\ d.sessions = own /\ d.order = o /\ d.room = r /\ d.closing = x
      /\ d.lastActivity = c.lastActivity /\ d.nextId = c.nextId /\ d.told = c.told
  <2>1. c = [sessions |-> c.sessions, order |-> c.order, room |-> c.room,
             lastActivity |-> c.lastActivity, nextId |-> c.nextId, told |-> c.told,
             closing |-> c.closing]
    BY <1>2, CoreIs
  <2>3. d = [c EXCEPT !.sessions = own, !.order = o, !.room = r, !.closing = x]
    OBVIOUS
  <2> HIDE DEF own, o, r, x, d
  <2>2. d = [sessions |-> own, order |-> o, room |-> r, lastActivity |-> c.lastActivity,
             nextId |-> c.nextId, told |-> c.told, closing |-> x]
    BY <2>1, <2>3
  <2> HIDE DEF d
  <2> QED
    BY <1>2, <1>4, <1>5, <1>6, <1>7, <2>2 DEF Cores
<1> HIDE DEF d
<1>9. Ids(d) = Ids(c) \ gone /\ \A i \in Ids(d) : d.sessions[i] = c.sessions[i]
  BY <1>8 DEF Ids
<1>10. ToSet(d.order) = {i \in DOMAIN d.sessions : d.sessions[i].peer # None}
  <2>1. Members(c) = {i \in Ids(c) : c.sessions[i].peer # None}
    BY DEF Sound, Members, Ids
  <2>2. \A i \in Ids(d) : d.sessions[i].peer # None <=> i \in Members(c)
    BY <1>9, <2>1
  <2>3. ToSet(d.order) = IF idle THEN {} ELSE Members(c)
    BY <1>5, <1>8
  <2> HIDE DEF idle
  <2>4. ToSet(d.order) = {i \in Ids(d) : d.sessions[i].peer # None}
    BY <1>2, <1>3, <1>9, <2>2, <2>3
  <2> QED
    BY <2>4 DEF Ids
<1>11. \A i, j \in ToSet(d.order) : d.sessions[i].peer = d.sessions[j].peer => i = j
  <2>1. \A i \in ToSet(d.order) : i \in Members(c) /\ i \in Ids(d)
    BY <1>5, <1>8, <1>10 DEF Ids
  <2> QED
    BY <1>9, <2>1 DEF Sound, Members
<1>12. OwnSockets(d.sessions)
  BY <1>9 DEF Sound, OwnSockets, Ids
<1>13. Sound(d)
  BY <1>5, <1>6, <1>8, <1>10, <1>11, <1>12 DEF Sound, Lasting
<1>14. Thinned(c, d, {})
  BY <1>8, <1>9, <1>13 DEF Thinned, SocketOf
<1>15. AllTold(d) \/ SameRoster(c, d)
  <2>1. CASE idle
    BY <1>5, <1>8, <2>1 DEF AllTold, Members
  <2>2. CASE ~idle
    <3>1. Members(d) = Members(c)
      BY <1>5, <1>8, <2>2 DEF Members
    <3>2. \A i \in Members(d) : i \in Ids(d)
      BY <1>10 DEF Members, Ids
    <3>3. Roster(d) = Roster(c)
      BY <1>9, <3>1, <3>2 DEF Roster
    <3> QED
      BY <1>8, <1>9, <3>1, <3>2, <3>3 DEF SameRoster, SocketOf
  <2> QED
    BY <2>1, <2>2
<1> QED
  BY <1>1, <1>8, <1>9, <1>13, <1>14, <1>15 DEF Outcome, SweptFrom, own, o, x, gone

-----------------------------------------------------------------------------
(***************************************************************************)
(* The end of an operation, and a new session, behind either host.         *)
(***************************************************************************)

\* The core after an operation: what ended sockets were told is forgotten.
LEMMA SettledIs ==
  ASSUME NEW c, Sound(c), NEW st
  PROVE  LET d == Settled(c, st) IN
         /\ Sound(d) /\ d.closing = {} /\ d.nextId = c.nextId /\ d.lastActivity = c.lastActivity
         /\ d.order = c.order
         /\ Ids(d) = Ids(c) /\ Members(d) = Members(c) /\ Roster(d) = Roster(c)
         /\ \A i \in Ids(c) : SocketOf(d, i) = SocketOf(c, i) /\ d.sessions[i] = c.sessions[i]
         /\ \A s \in Sockets : d.told[s] = IF st[s] = "open" THEN c.told[s] ELSE {}
<1> DEFINE t == [s \in Sockets |-> IF st[s] = "open" THEN c.told[s] ELSE {}]
           d == [c EXCEPT !.closing = {}, !.told = t]
<1>1. Settled(c, st) = d
  BY DEF Settled
<1>2. c \in Cores /\ c.told \in [Sockets -> SUBSET (Peers \cup {None})] /\ Lasting(c)
  BY DEF Sound, Cores
<1>3. t \in [Sockets -> SUBSET (Peers \cup {None})]
  BY <1>2
<1>4. \A s \in Sockets : t[s] = IF st[s] = "open" THEN c.told[s] ELSE {}
  OBVIOUS
<1> HIDE DEF t
<1>5. /\ d \in Cores /\ d.sessions = c.sessions /\ d.order = c.order /\ d.room = c.room
      /\ d.lastActivity = c.lastActivity /\ d.nextId = c.nextId /\ d.told = t /\ d.closing = {}
  <2>1. c = [sessions |-> c.sessions, order |-> c.order, room |-> c.room,
             lastActivity |-> c.lastActivity, nextId |-> c.nextId, told |-> c.told,
             closing |-> c.closing]
    BY <1>2, CoreIs
  <2>2. d = [c EXCEPT !.closing = {}, !.told = t]
    OBVIOUS
  <2> HIDE DEF d
  <2>3. d = [sessions |-> c.sessions, order |-> c.order, room |-> c.room,
             lastActivity |-> c.lastActivity, nextId |-> c.nextId, told |-> t,
             closing |-> {}]
    BY <2>1, <2>2
  <2> QED
    BY <1>2, <1>3, <2>3 DEF Cores
<1> HIDE DEF d
<1>6. Lasting(d)
  BY <1>2, <1>5 DEF Lasting
<1>7. /\ Sound(d) /\ Ids(d) = Ids(c) /\ Members(d) = Members(c) /\ Roster(d) = Roster(c)
      /\ \A i \in Ids(c) : SocketOf(d, i) = SocketOf(c, i) /\ d.sessions[i] = c.sessions[i]
  BY <1>5, <1>6, SameParts
<1> QED
  BY <1>1, <1>4, <1>5, <1>7

\* As many peers as places taken in the order.
LEMMA RosterCounts ==
  ASSUME NEW c, Sound(c)
  PROVE  IsFiniteSet(Roster(c)) /\ Cardinality(Roster(c)) = Len(c.order)
<1> DEFINE n == Len(c.order)
           f == [i \in 1..n |-> c.sessions[c.order[i]].peer]
<1>1. /\ n \in Nat /\ DOMAIN c.order = 1..n
      /\ Members(c) = {c.order[i] : i \in 1..n}
  BY SoundFacts DEF Members, ToSet
<1>2. \A i, j \in 1..n : c.order[i] = c.order[j] => i = j
  BY DEF Sound, Distinct
<1>3. \A i, j \in Members(c) : c.sessions[i].peer = c.sessions[j].peer => i = j
  BY DEF Sound, Members
<1> HIDE DEF n
<1>4. \A i, j \in 1..n : f[i] = f[j] => i = j
  BY <1>1, <1>2, <1>3
<1>5. f \in [1..n -> Roster(c)] /\ \A p \in Roster(c) : \E i \in 1..n : f[i] = p
  BY <1>1 DEF Roster
<1> HIDE DEF f
<1>6. f \in Bijection(1..n, Roster(c))
  BY <1>4, <1>5 DEF Bijection, Injection, Surjection, IsInjective
<1>7. ExistsBijection(1..n, Roster(c))
  BY <1>6 DEF ExistsBijection
<1>8. IsFiniteSet(Roster(c))
  BY <1>1, <1>7, FS_NatBijection
<1>9. Cardinality(Roster(c)) = n
  BY <1>1, <1>7, FS_CountingElements
<1> QED
  BY <1>8, <1>9 DEF n

\* d is c with a session more, in the room if it joined.
AddedTo(c, id, x, d) ==
    /\ d = [sessions |-> d.sessions, order |-> d.order, room |-> d.room,
            lastActivity |-> d.lastActivity, nextId |-> d.nextId, told |-> d.told,
            closing |-> d.closing]
    /\ d.sessions = [i \in Ids(c) \cup {id} |-> IF i = id THEN x ELSE c.sessions[i]]
    /\ d.order = IF x.peer = None THEN c.order ELSE Append(c.order, id)
    /\ d.room \in BOOLEAN /\ d.lastActivity \in Nat /\ d.nextId \in Nat /\ Lasting(d)
    /\ d.told = c.told /\ d.closing = c.closing

\* There is room for x in c: a socket of its own, and a key and a place if it
\* joined.
HasPlace(c, x) ==
    /\ x \in Session /\ \A i \in Ids(c) : SocketOf(c, i) # x.socket
    /\ x.peer # None => x.peer \notin Roster(c) /\ Len(c.order) < MAX_ROOM_PEERS

Grown(c, id, x, d) ==
    /\ Sound(d) /\ Ids(d) = Ids(c) \cup {id} /\ d.sessions[id] = x
    /\ \A i \in Ids(c) : d.sessions[i] = c.sessions[i]
    /\ Members(d) = Members(c) \cup (IF x.peer = None THEN {} ELSE {id})
    /\ Len(d.order) = Len(c.order) + (IF x.peer = None THEN 0 ELSE 1)

LEMMA Added ==
  ASSUME NEW c, Sound(c), NEW id \in Nat, id \notin Ids(c), NEW x, HasPlace(c, x),
         NEW d, AddedTo(c, id, x, d)
  PROVE  Grown(c, id, x, d)
<1> DEFINE t == d.sessions
           o == d.order
<1> USE DEF HasPlace
<1>1. /\ c \in Cores /\ c.sessions \in Sessions /\ c.order \in Seq(Nat) /\ Distinct(c.order)
      /\ Len(c.order) <= MAX_ROOM_PEERS /\ Lasting(c)
      /\ ToSet(c.order) = {i \in Ids(c) : c.sessions[i].peer # None}
      /\ \A i, j \in ToSet(c.order) : c.sessions[i].peer = c.sessions[j].peer => i = j
      /\ OwnSockets(c.sessions)
  BY DEF Sound, Cores, Ids
<1>2. /\ DOMAIN c.sessions \subseteq Nat /\ \A i \in DOMAIN c.sessions : c.sessions[i] \in Session
      /\ Len(c.order) \in Nat /\ MAX_ROOM_PEERS \in Nat
  BY <1>1, SessionsAre, LenProperties, RoomAssumption
<1>3. /\ DOMAIN t = Ids(c) \cup {id} /\ t[id] = x /\ t = [i \in DOMAIN t |-> t[i]]
      /\ \A i \in Ids(c) : t[i] = c.sessions[i]
  BY DEF AddedTo
<1>0. /\ o = IF x.peer = None THEN c.order ELSE Append(c.order, id)
      /\ d.room \in BOOLEAN /\ d.lastActivity \in Nat /\ d.nextId \in Nat /\ Lasting(d)
      /\ d.told = c.told /\ d.closing = c.closing
  BY DEF AddedTo
<1> HIDE DEF t, o
<1>4. /\ o \in Seq(Nat) /\ Distinct(o) /\ Len(o) <= MAX_ROOM_PEERS
      /\ ToSet(o) = ToSet(c.order) \cup (IF x.peer = None THEN {} ELSE {id})
      /\ Len(o) = Len(c.order) + (IF x.peer = None THEN 0 ELSE 1)
  <2>1. CASE x.peer = None
    BY <1>0, <1>1, <1>2, <2>1
  <2>2. CASE x.peer # None
    <3>1. id \notin ToSet(c.order)
      BY <1>1
    <3>2. /\ Append(c.order, id) \in Seq(Nat) /\ Distinct(Append(c.order, id))
          /\ ToSet(Append(c.order, id)) = ToSet(c.order) \cup {id}
          /\ Len(Append(c.order, id)) = Len(c.order) + 1
      BY ONLY <1>1, <3>1, id \in Nat, Appended
    <3> QED
      BY <1>0, <1>2, <2>2, <3>2
  <2> QED
    BY <2>1, <2>2
<1>7. t \in Sessions
  <2>1. DOMAIN t \subseteq Nat /\ \A i \in DOMAIN t : t[i] \in Session
    BY <1>2, <1>3 DEF Ids
  <2> QED
    BY <1>3, <2>1, SessionsAre
<1>9. d \in Cores /\ d.sessions = t /\ d.order = o
  <2>1. c.told \in [Sockets -> SUBSET (Peers \cup {None})] /\ c.closing \subseteq Sockets
    BY <1>1 DEF Cores
  <2>2. d = [sessions |-> d.sessions, order |-> d.order, room |-> d.room,
             lastActivity |-> d.lastActivity, nextId |-> d.nextId, told |-> d.told,
             closing |-> d.closing]
    BY DEF AddedTo
  <2>3. d.sessions = t /\ d.order = o
    BY DEF t, o
  <2> QED
    BY <1>0, <1>4, <1>7, <2>1, <2>2, <2>3 DEF Cores
<1>10. ToSet(d.order) = {i \in DOMAIN d.sessions : d.sessions[i].peer # None}
  BY <1>1, <1>3, <1>4, <1>9
<1>11. \A i, j \in ToSet(d.order) : d.sessions[i].peer = d.sessions[j].peer => i = j
  <2>1. \A i \in ToSet(c.order) : /\ i \in Ids(c) /\ t[i] = c.sessions[i]
                                  /\ c.sessions[i].peer \in Roster(c)
    BY <1>1, <1>3 DEF Roster, Members
  <2> SUFFICES ASSUME NEW i \in ToSet(d.order), NEW j \in ToSet(d.order), t[i].peer = t[j].peer
               PROVE  i = j
    BY <1>9
  <2>2. CASE i \in ToSet(c.order) /\ j \in ToSet(c.order)
    BY <1>1, <2>1, <2>2
  <2>3. ASSUME NEW k \in {i, j}, k \notin ToSet(c.order)
        PROVE  k = id /\ x.peer # None
    BY <1>4, <1>9, <2>3
  <2> QED
    BY <1>3, <2>1, <2>2, <2>3
<1>12. OwnSockets(d.sessions)
  BY <1>1, <1>3, <1>9 DEF OwnSockets, Ids, SocketOf
<1>13. Sound(d)
  BY <1>0, <1>4, <1>9, <1>10, <1>11, <1>12 DEF Sound
<1> QED
  BY <1>3, <1>4, <1>9, <1>13 DEF Grown, Ids, Members

\* open: a session that has not joined, unless the challenge cannot be sent.
Opened(c, s, t, failing, d) ==
    LET new == IF failing = {} THEN {c.nextId + 1} ELSE {} IN
    /\ Sound(d) /\ Ids(d) = Ids(c) \cup new
    /\ \A i \in Ids(c) : d.sessions[i] = c.sessions[i]
    /\ \A i \in new : d.sessions[i] = [socket |-> s, openedAt |-> t, peer |-> None]
    /\ Members(d) = Members(c) /\ Roster(d) = Roster(c) /\ d.order = c.order
    /\ d.room = c.room /\ d.lastActivity = c.lastActivity /\ d.nextId = c.nextId + 1
    /\ d.told = c.told /\ d.closing = c.closing

Unused(c, s) == c.nextId + 1 \notin Ids(c) /\ \A i \in Ids(c) : SocketOf(c, i) # s

LEMMA Opens ==
  ASSUME NEW c, Sound(c), NEW s \in Sockets, NEW t \in Nat, Unused(c, s),
         NEW failing \in {{}, {s}}
  PROVE  Opened(c, s, t, failing, open(c, s, t, failing))
<1> DEFINE id == c.nextId + 1
           next == [c EXCEPT !.nextId = id]
           x == [socket |-> s, openedAt |-> t, peer |-> None]
<1>1. /\ c \in Cores /\ c.nextId \in Nat /\ c.lastActivity \in Nat /\ c.room \in BOOLEAN /\ Lasting(c)
      /\ id \in Nat /\ Members(c) \subseteq Ids(c)
  BY SoundFacts DEF Sound
<1>2. open(c, s, t, failing) = IF s \in failing THEN next ELSE AddSession(next, id, x)
  BY DEF open
<1> HIDE DEF id
<1>3. /\ next \in Cores /\ next.sessions = c.sessions /\ next.order = c.order
      /\ next.room = c.room /\ next.nextId = id /\ next.told = c.told
      /\ next.closing = c.closing /\ next.lastActivity = c.lastActivity
  BY <1>1 DEF Cores
<1> HIDE DEF next
<1>4. /\ Sound(next) /\ Ids(next) = Ids(c) /\ Members(next) = Members(c) /\ Roster(next) = Roster(c)
      /\ \A i \in Ids(c) : SocketOf(next, i) = SocketOf(c, i) /\ next.sessions[i] = c.sessions[i]
  <2>1. Lasting(next)
    BY <1>1, <1>3 DEF Lasting
  <2> QED
    BY <1>3, <2>1, SameParts
<1>5. CASE failing = {s}
  BY <1>2, <1>3, <1>4, <1>5 DEF id, Opened
<1>6. CASE failing = {}
  <2> DEFINE u == [i \in Ids(next) \cup {id} |-> IF i = id THEN x ELSE next.sessions[i]]
             d == [next EXCEPT !.sessions = u]
  <2>1. x \in Session /\ x.peer = None /\ x.socket = s
    BY DEF Session
  <2> HIDE DEF x
  <2>2. id \notin Ids(next) /\ \A i \in Ids(next) : SocketOf(next, i) # x.socket
    BY <1>4, <2>1 DEF id, Unused
  <2>3. AddSession(next, id, x) = d
    BY DEF AddSession
  <2> HIDE DEF u
  <2>4. /\ d = [sessions |-> u, order |-> next.order, room |-> next.room,
                lastActivity |-> next.lastActivity, nextId |-> next.nextId, told |-> next.told,
                closing |-> next.closing]
    BY <1>3, CoreIs
  <2> HIDE DEF d
  <2>6. /\ d.sessions = u /\ d.order = next.order /\ d.room = next.room
        /\ d.lastActivity = next.lastActivity /\ d.nextId = next.nextId
        /\ d.told = next.told /\ d.closing = next.closing
    BY <2>4
  <2>7. AddedTo(next, id, x, d)
    <3>1. next.room \in BOOLEAN /\ next.lastActivity \in Nat /\ next.nextId \in Nat /\ Lasting(d)
      BY <1>1, <1>3, <2>6 DEF Lasting
    <3> QED
      BY <2>1, <2>4, <2>6, <3>1 DEF AddedTo, u
  <2>8. /\ Sound(d) /\ Ids(d) = Ids(next) \cup {id} /\ d.sessions[id] = x
        /\ \A i \in Ids(next) : d.sessions[i] = next.sessions[i]
        /\ Members(d) = Members(next) \cup (IF x.peer = None THEN {} ELSE {id})
    <3>1. id \in Nat /\ Sound(next) /\ id \notin Ids(next) /\ HasPlace(next, x)
      BY <1>1, <1>4, <2>1, <2>2 DEF HasPlace
    <3>2. Grown(next, id, x, d)
      BY ONLY <2>7, <3>1, Added
    <3> QED
      BY <3>2 DEF Grown
  <2>9. Members(d) = Members(next)
    BY <2>1, <2>8
  <2>5. Roster(d) = Roster(c)
    BY <1>1, <1>4, <2>8, <2>9 DEF Roster
  <2> QED
    BY <1>2, <1>3, <1>4, <1>6, <2>3, <2>5, <2>6, <2>8, <2>9 DEF id, x, Opened
<1> QED
  BY <1>5, <1>6

-----------------------------------------------------------------------------
(***************************************************************************)
(* The plain server.                                                       *)
(***************************************************************************)

\* The server's instance of RoomCore is RoomCore, but for the idle span.
LEMMA SameFields ==
  ASSUME NEW c
  PROVE  /\ Server!Ids(c) = Ids(c) /\ Server!Members(c) = Members(c)
         /\ Server!Roster(c) = Roster(c)
         /\ \A id : Server!SocketOf(c, id) = SocketOf(c, id)
         /\ \A id : Server!Close(c, id) = Close(c, id)
         /\ \A id, x : Server!AddSession(c, id, x) = AddSession(c, id, x)
  BY DEF Server!Ids, Ids, Server!Members, Members, Server!ToSet, ToSet, Server!Roster, Roster,
         Server!SocketOf, SocketOf, Server!Close, Close, Server!AddSession, AddSession

LEMMA SameLibrary ==
  ASSUME NEW s, NEW e
  PROVE  /\ Server!RemoveFirst(s, e) = RemoveFirst(s, e)
         /\ Server!Min(s) = Min(s)
         /\ Server!Restrict(s, e) = Restrict(s, e)
         /\ Server!Cardinality(s) = Cardinality(s)
<1>1. /\ Server!RemoveFirst(s, e) = RemoveFirst(s, e)
      /\ Server!Min(s) = Min(s)
      /\ Server!Restrict(s, e) = Restrict(s, e)
  BY DEF Server!RemoveFirst, RemoveFirst, Server!SelectInSeq, SelectInSeq,
         Server!RemoveAt, RemoveAt, Server!Min, Min, Server!Restrict, Restrict
<1>2. Server!Cardinality(s) = Cardinality(s)
  BY Zenon DEF Server!Cardinality, Cardinality, Server!IsFiniteSet, IsFiniteSet
<1> QED
  BY <1>1, <1>2

LEMMA SameDrop ==
  ASSUME NEW c, NEW id
  PROVE  Server!Forget(c, id) = Forget(c, id) /\ Server!Drop(c, id) = Drop(c, id)
<1>1. \A i : Server!Forget(c, i) = Forget(c, i)
  BY SameFields, SameLibrary, Zenon DEF Server!Forget, Forget
<1>2. Server!Drop(c, id) = Drop(c, id)
  BY <1>1, SameFields DEF Server!Drop, Drop
<1> QED
  BY <1>1, <1>2

LEMMA SamePass ==
  ASSUME NEW c, NEW f
  PROVE  Server!pass(c, f) = pass(c, f)
<1> DEFINE bad(s(_, _)) == {i \in DOMAIN c.order : s(c, c.order[i]) \in f}
           before(b, m) == IF b = {} THEN Len(c.order) ELSE m - 1
           reached(s(_, _), n) == {s(c, c.order[i]) : i \in 1..n}
           sent(t, roster) == [c EXCEPT !.told = [s \in Sockets |-> IF s \in t THEN roster ELSE @[s]]]
           b1 == bad(SocketOf)
           n1 == before(b1, Min(b1))
           d1 == sent(reached(SocketOf, n1), Roster(c))
           b2 == bad(Server!SocketOf)
           n2 == before(b2, Server!Min(b2))
           d2 == sent(reached(Server!SocketOf, n2), Server!Roster(c))
<1>1. b2 = b1
  BY SameFields
<1>2. n2 = n1
  BY <1>1, SameLibrary
<1>3. d2 = d1
  BY <1>2, SameFields
<1>4. pass(c, f) = IF b1 = {} THEN d1
                   ELSE Close(Drop(d1, c.order[n1 + 1]), SocketOf(c, c.order[n1 + 1]))
  BY DEF pass
<1>5. Server!pass(c, f) =
         IF b2 = {} THEN d2
         ELSE Server!Close(Server!Drop(d2, c.order[n2 + 1]), Server!SocketOf(c, c.order[n2 + 1]))
  BY DEF Server!pass
<1> HIDE DEF b1, b2, n1, n2, d1, d2
<1> QED
  BY <1>1, <1>2, <1>3, <1>4, <1>5, SameFields, SameDrop

LEMMA SameRemovals ==
  ASSUME NEW c, NEW id, NEW f
  PROVE  /\ Server!announce(c, f) = announce(c, f)
         /\ Server!disconnect(c, id, f) = disconnect(c, id, f)
         /\ Server!reject(c, id, f) = reject(c, id, f)
<1>1. \A d : Server!announce(d, f) = announce(d, f)
  BY SamePass DEF Server!announce, announce
<1>2. Server!disconnect(c, id, f) = disconnect(c, id, f)
  BY <1>1, SameFields, SameDrop DEF Server!disconnect, disconnect
<1>3. Server!reject(c, id, f) = reject(c, id, f)
  BY <1>2, SameFields DEF Server!reject, reject
<1> QED
  BY <1>1, <1>2, <1>3

LEMMA SameReceive ==
  ASSUME NEW c, NEW id, NEW t, NEW f
  PROVE  \A frame \in Frames : Server!receive(c, id, frame, t, f) = receive(c, id, frame, t, f)
<1>1. ASSUME NEW p
      PROVE  Server!join(c, id, p, t, f) = join(c, id, p, t, f)
  <2>1. Server!takeOver(c, p) = takeOver(c, p)
    BY SameFields, SameDrop, Zenon DEF Server!takeOver, takeOver
  <2> QED
    BY <2>1, SameRemovals DEF Server!join, join
<1>2. ASSUME NEW p
      PROVE  Server!signal(c, id, p, t, f) = signal(c, id, p, t, f)
  <2> DEFINE joined == c.sessions[id].peer # None
             active == [c EXCEPT !.lastActivity = t]
             at1 == {i \in Members(c) : c.sessions[i].peer = p}
             k1 == CHOOSE j \in at1 : TRUE
             at2 == {i \in Server!Members(c) : c.sessions[i].peer = p}
             k2 == CHOOSE j \in at2 : TRUE
  <2>1. at2 = at1 /\ k2 = k1
    BY SameFields
  <2>2. /\ ~joined => signal(c, id, p, t, f) = reject(c, id, f)
        /\ joined /\ at1 = {} => signal(c, id, p, t, f) = c
        /\ joined /\ at1 # {} => signal(c, id, p, t, f) =
              IF SocketOf(c, k1) \in f THEN reject(active, k1, f) ELSE active
    BY DEF signal
  <2>3. /\ ~joined => Server!signal(c, id, p, t, f) = Server!reject(c, id, f)
        /\ joined /\ at2 = {} => Server!signal(c, id, p, t, f) = c
        /\ joined /\ at2 # {} => Server!signal(c, id, p, t, f) =
              IF Server!SocketOf(c, k2) \in f THEN Server!reject(active, k2, f) ELSE active
    BY DEF Server!signal
  <2> HIDE DEF joined, active, at1, at2, k1, k2
  <2> QED
    BY <2>1, <2>2, <2>3, SameFields, SameRemovals
<1>3. ASSUME NEW frame \in Frames
      PROVE  Server!receive(c, id, frame, t, f) = receive(c, id, frame, t, f)
  <2>1. frame.kind \in {"join", "signal", "end"}
    BY DEF Frames
  <2> QED
    BY <1>1, <1>2, <2>1, SameFields, SameRemovals DEF Server!receive, receive
<1> QED
  BY <1>3

LEMMA SameRest ==
  /\ Server!Frames = Frames
  /\ \A c, s, t, f : Server!open(c, s, t, f) = open(c, s, t, f)
  /\ \A c, t : Server!sweep(c, t) = Swept(c, t, JOIN_TIMEOUT)
  /\ \A c : Server!RosterIsSound(c) <=> RosterIsSound(c)
<1>1. Server!Frames = Frames
  BY DEF Server!Frames, Frames
<1>2. ASSUME NEW c, NEW s, NEW t, NEW f
      PROVE  Server!open(c, s, t, f) = open(c, s, t, f)
  BY SameFields DEF Server!open, open
<1>3. ASSUME NEW c, NEW t
      PROVE  Server!sweep(c, t) = Swept(c, t, JOIN_TIMEOUT)
  BY DEF Server!sweep, Swept, Gone, Late, IdleFor, Server!Restrict, Server!Ids, Ids,
         Server!Members, Members, Server!ToSet, ToSet, Server!SocketOf, SocketOf
<1>4. ASSUME NEW c
      PROVE  Server!RosterIsSound(c) <=> RosterIsSound(c)
  <2>1. Server!RosterIsSound(c) <=>
         /\ Members(c) = {id \in Ids(c) : c.sessions[id].peer # None}
         /\ Cardinality(Roster(c)) = Len(c.order) /\ Len(c.order) <= MAX_ROOM_PEERS
         /\ \A i, j \in Ids(c) : i # j => Server!SocketOf(c, i) # Server!SocketOf(c, j)
         /\ (c.order # <<>> => c.room)
    BY SameFields, SameLibrary DEF Server!RosterIsSound
  <2> QED
    BY <2>1, SameFields, Zenon DEF RosterIsSound
<1> QED
  BY <1>1, <1>2, <1>3, <1>4

States == {"new", "open", "dead", "ending", "closed"}

\* Members of an open socket were told the roster.
ToldOpen(c, st) ==
    \A id \in Members(c) : st[SocketOf(c, id)] = "open" => c.told[SocketOf(c, id)] = Roster(c)

\* A connection opened the session of its own number, has one while it is up,
\* and none from its close event on.
Held(c, st) ==
    /\ \A id \in Ids(c) : SocketOf(c, id) = id
    /\ \A id \in Ids(c) : st[id] \in {"open", "dead", "ending"}
    /\ \A s \in Sockets : st[s] \in {"open", "dead"} => s \in Ids(c)

RoomInv ==
    /\ Sound(core) /\ core.closing = {}
    /\ sock \in [Sockets -> States] /\ now \in Nat \ {0}
    /\ \A s \in Sockets : sock[s] = "new" <=> s > core.nextId
    /\ Held(core, sock)
    /\ ToldOpen(core, sock)

\* The end of an operation.
LEMMA Settles ==
  ASSUME NEW c, Sound(c), NEW st \in [Sockets -> States], Server!Apply(c, st)
  PROVE  /\ Sound(core') /\ core'.closing = {} /\ core'.nextId = c.nextId
         /\ Ids(core') = Ids(c) /\ Members(core') = Members(c) /\ Roster(core') = Roster(c)
         /\ \A i \in Ids(c) : SocketOf(core', i) = SocketOf(c, i)
         /\ sock' \in [Sockets -> States]
         /\ \A s \in Sockets :
               sock'[s] = IF s \in c.closing /\ st[s] \in {"open", "dead"} THEN "ending" ELSE st[s]
         /\ \A s \in Sockets : sock'[s] = "open" => core'.told[s] = c.told[s]
<1>1. /\ sock' \in [Sockets -> States]
      /\ \A s \in Sockets :
            sock'[s] = IF s \in c.closing /\ st[s] \in {"open", "dead"} THEN "ending" ELSE st[s]
  BY DEF Server!Apply, States
<1>2. core' = Settled(c, sock')
  BY DEF Server!Apply, Settled
<1> DEFINE d == Settled(c, sock')
<1>3. /\ Sound(d) /\ d.closing = {} /\ d.nextId = c.nextId
      /\ Ids(d) = Ids(c) /\ Members(d) = Members(c) /\ Roster(d) = Roster(c)
      /\ \A i \in Ids(c) : SocketOf(d, i) = SocketOf(c, i)
      /\ \A s \in Sockets : d.told[s] = IF sock'[s] = "open" THEN c.told[s] ELSE {}
  BY SettledIs
<1> HIDE DEF d
<1> QED
  BY <1>1, <1>2, <1>3 DEF d

\* An operation on the core keeps the invariant.  The sockets in quiet have
\* just started to end, or were closed, whatever the core thinks of them.
LEMMA OperationKeeps ==
  ASSUME RoomInv, NEW c, NEW quiet, Outcome(core, c, quiet),
         NEW st \in [Sockets -> States], Server!Apply(c, st), now' \in Nat \ {0},
         \A s \in Sockets : s \notin quiet => st[s] = sock[s],
         \A s \in quiet : st[s] \in {"ending", "closed"} /\ sock[s] # "new",
         \A s \in quiet : s \in Ids(c) => st[s] = "ending"
  PROVE  RoomInv'
<1>1. /\ Sound(core) /\ core.closing = {} /\ sock \in [Sockets -> States]
      /\ \A s \in Sockets : sock[s] = "new" <=> s > core.nextId
      /\ \A id \in Ids(core) : SocketOf(core, id) = id
      /\ \A id \in Ids(core) : sock[id] \in {"open", "dead", "ending"}
      /\ \A s \in Sockets : sock[s] \in {"open", "dead"} => s \in Ids(core)
  BY DEF RoomInv, Held
<1>2. Sound(c)
  BY DEF Outcome, Thinned
<1>3. /\ Sound(core') /\ core'.closing = {} /\ core'.nextId = c.nextId
      /\ Ids(core') = Ids(c) /\ Members(core') = Members(c) /\ Roster(core') = Roster(c)
      /\ \A i \in Ids(c) : SocketOf(core', i) = SocketOf(c, i)
      /\ sock' \in [Sockets -> States]
      /\ \A s \in Sockets :
            sock'[s] = IF s \in c.closing /\ st[s] \in {"open", "dead"} THEN "ending" ELSE st[s]
      /\ \A s \in Sockets : sock'[s] = "open" => core'.told[s] = c.told[s]
  BY <1>2, Settles
<1>4. /\ c.nextId = core.nextId /\ Ids(c) \subseteq Ids(core)
      /\ \A id \in Ids(c) : SocketOf(c, id) = id /\ id \in Sockets
      /\ \A id \in Ids(core) \ Ids(c) : id \in c.closing \cup quiet
  BY <1>1, <1>2, SoundFacts DEF Outcome, Thinned
<1>5. \A s \in Sockets : sock'[s] = "new" <=> s > core'.nextId
  <2>1. \A s \in Sockets : st[s] = "new" <=> sock[s] = "new"
    OBVIOUS
  <2>2. \A s \in Sockets : sock'[s] = "new" <=> st[s] = "new"
    BY <1>3
  <2> QED
    BY <1>1, <1>3, <1>4, <2>1, <2>2
<1>6. Held(core', sock')
  <2>1. \A id \in Ids(core') : SocketOf(core', id) = id
    BY <1>3, <1>4
  <2>2. ASSUME NEW id \in Ids(core')
        PROVE  sock'[id] \in {"open", "dead", "ending"}
    <3>1. id \in Ids(c) /\ id \in Ids(core) /\ id \in Sockets
      BY <1>3, <1>4
    <3>2. st[id] \in {"open", "dead", "ending"}
      BY <1>1, <3>1
    <3> QED
      BY <1>3, <3>1, <3>2
  <2>3. ASSUME NEW s \in Sockets, sock'[s] \in {"open", "dead"}
        PROVE  s \in Ids(core')
    <3>1. st[s] \in {"open", "dead"} /\ s \notin c.closing
      BY <1>3, <2>3
    <3>2. s \notin quiet
      BY <3>1
    <3>3. s \in Ids(core)
      BY <1>1, <3>1, <3>2
    <3> QED
      BY <1>3, <1>4, <3>1, <3>2, <3>3
  <2> QED
    BY <2>1, <2>2, <2>3 DEF Held
<1>7. ToldOpen(core', sock')
  <2> SUFFICES ASSUME NEW id \in Members(core'), sock'[SocketOf(core', id)] = "open"
               PROVE  core'.told[SocketOf(core', id)] = Roster(core')
    BY DEF ToldOpen
  <2>1. /\ id \in Members(c) /\ id \in Ids(c) /\ SocketOf(core', id) = id /\ SocketOf(c, id) = id
        /\ id \in Sockets /\ sock'[id] = "open"
    <3>1. Members(c) \subseteq Ids(c)
      BY <1>2, SoundFacts
    <3> QED
      BY <1>3, <1>4, <3>1
  <2>2. core'.told[id] = c.told[id]
    BY <1>3, <2>1
  <2>3. sock[id] = "open"
    <3>1. st[id] = "open"
      BY <1>3, <2>1
    <3> QED
      BY <2>1, <3>1
  <2>4. c.told[id] = Roster(c)
    <3>1. CASE AllTold(c)
      BY <2>1, <3>1 DEF AllTold
    <3>2. CASE SameRoster(core, c)
      <4>1. id \in Members(core) /\ SocketOf(core, id) = id
        BY <1>1, <1>4, <2>1, <3>2 DEF SameRoster
      <4>2. core.told[id] = Roster(core)
        BY <2>3, <4>1 DEF RoomInv, ToldOpen
      <4> QED
        BY <3>2, <4>2 DEF SameRoster
    <3> QED
      BY <3>1, <3>2 DEF Outcome
  <2> QED
    BY <1>3, <2>1, <2>2, <2>4
<1> QED
  BY <1>3, <1>5, <1>6, <1>7 DEF RoomInv

LEMMA ConnectKeeps ==
  ASSUME RoomInv, NEW s \in Sockets, Server!Connect(s)
  PROVE  RoomInv'
<1>1. /\ Sound(core) /\ core.closing = {} /\ sock \in [Sockets -> States] /\ now \in Nat \ {0}
      /\ \A u \in Sockets : sock[u] = "new" <=> u > core.nextId
      /\ \A i \in Ids(core) : SocketOf(core, i) = i
      /\ \A i \in Ids(core) : sock[i] \in {"open", "dead", "ending"}
      /\ \A u \in Sockets : sock[u] \in {"open", "dead"} => u \in Ids(core)
      /\ ToldOpen(core, sock)
  BY DEF RoomInv, Held
<1>2. /\ core.nextId \in Nat /\ Members(core) \subseteq Ids(core)
      /\ \A i \in Ids(core) : SocketOf(core, i) \in Sockets
  BY <1>1, SoundFacts
<1>3. core.nextId + 1 = s /\ s \in Nat /\ sock[s] = "new"
  <2>1. s \in Nat \ {0} /\ 1..s \subseteq Sockets
    BY RoomAssumption
  <2>2. sock[s] = "new" /\ \A u \in Sockets : u < s => sock[u] # "new"
    BY DEF Server!Connect
  <2>3. s > core.nextId
    BY <1>1, <2>2
  <2> DEFINE id == core.nextId + 1
  <2>4. ASSUME id < s
        PROVE  FALSE
    <3>1. id \in 1..s /\ id > core.nextId
      BY <1>2, <2>1, <2>4
    <3>2. id \in Sockets
      BY <2>1, <3>1
    <3> QED
      BY <1>1, <2>2, <2>4, <3>1, <3>2
  <2> QED
    BY <1>2, <2>1, <2>2, <2>3, <2>4
<1>4. s \notin Ids(core)
  BY <1>1, <1>3
<1>5. PICK failing \in {{}, {s}} :
         Server!Apply(Server!open(core, s, now, failing),
                      [sock EXCEPT ![s] = IF failing = {} THEN "open" ELSE "ending"])
  BY DEF Server!Connect
<1> DEFINE st == [sock EXCEPT ![s] = IF failing = {} THEN "open" ELSE "ending"]
           c == open(core, s, now, failing)
           new == IF failing = {} THEN {core.nextId + 1} ELSE {}
<1>6. Server!Apply(c, st)
  BY <1>5, SameRest
<1>7. /\ Sound(c) /\ Ids(c) = Ids(core) \cup new
      /\ \A i \in Ids(core) : c.sessions[i] = core.sessions[i]
      /\ \A i \in new : c.sessions[i] = [socket |-> s, openedAt |-> now, peer |-> None]
      /\ Members(c) = Members(core) /\ Roster(c) = Roster(core)
      /\ c.nextId = core.nextId + 1 /\ c.told = core.told /\ c.closing = core.closing
  <2>1. /\ core.nextId + 1 \notin Ids(core) /\ now \in Nat
        /\ \A i \in Ids(core) : SocketOf(core, i) # s
    BY <1>1, <1>3, <1>4
  <2>3. Sound(core) /\ failing \in {{}, {s}} /\ s \in Sockets
    BY <1>1, <1>5
  <2>4. now \in Nat /\ Unused(core, s)
    BY <2>1 DEF Unused
  <2>2. Opened(core, s, now, failing, c)
    BY ONLY <2>3, <2>4, Opens
  <2> HIDE DEF c
  <2> QED
    BY <2>2 DEF Opened
<1> HIDE DEF c
<1>8. /\ c.nextId = s /\ c.closing = {}
      /\ Ids(c) = Ids(core) \cup (IF failing = {} THEN {s} ELSE {})
      /\ \A i \in Ids(c) : SocketOf(c, i) = i
  <2>1. new = IF failing = {} THEN {s} ELSE {}
    BY <1>3
  <2>2. \A i \in Ids(core) : SocketOf(c, i) = SocketOf(core, i)
    BY <1>7 DEF SocketOf
  <2>3. \A i \in new : SocketOf(c, i) = s
    BY <1>7 DEF SocketOf
  <2> HIDE DEF new
  <2> QED
    BY <1>1, <1>3, <1>7, <2>1, <2>2, <2>3
<1>19. /\ st \in [Sockets -> States] /\ st[s] = (IF failing = {} THEN "open" ELSE "ending")
       /\ \A u \in Sockets : u # s => st[u] = sock[u]
  BY <1>1 DEF States
<1> HIDE DEF st, new
<1>21. /\ Sound(core') /\ core'.closing = {} /\ core'.nextId = s
       /\ Ids(core') = Ids(c) /\ Members(core') = Members(core) /\ Roster(core') = Roster(core)
       /\ \A i \in Ids(c) : SocketOf(core', i) = SocketOf(c, i)
       /\ sock' \in [Sockets -> States]
       /\ \A u \in Sockets : sock'[u] = st[u]
       /\ \A u \in Sockets : sock'[u] = "open" => core'.told[u] = core.told[u]
  BY <1>6, <1>7, <1>8, <1>19, Settles
<1>22. \A u \in Sockets : sock'[u] = "new" <=> u > core'.nextId
  <2>1. \A u \in Sockets : u \in Nat
    BY RoomAssumption
  <2>2. ASSUME NEW u \in Sockets, u # s
        PROVE  sock'[u] = "new" <=> u > s
    <3>1. sock'[u] = "new" <=> u > core.nextId
      BY <1>1, <1>19, <1>21, <2>2
    <3>2. core.nextId + 1 = s /\ u \in Nat
      BY <1>3, <2>1
    <3> QED
      BY <1>2, <2>2, <3>1, <3>2
  <2>3. sock'[s] # "new"
    BY <1>19, <1>21
  <2> QED
    BY <1>21, <2>1, <2>2, <2>3
<1>23. Held(core', sock')
  <2>1. \A i \in Ids(core') : SocketOf(core', i) = i
    BY <1>8, <1>21
  <2>2. ASSUME NEW i \in Ids(core')
        PROVE  sock'[i] \in {"open", "dead", "ending"}
    <3>1. CASE i = s
      BY <1>19, <1>21, <3>1
    <3>2. CASE i # s
      <4>1. i \in Ids(core) /\ i \in Sockets
        BY <1>1, <1>2, <1>8, <1>21, <3>2
      <4> QED
        BY <1>1, <1>19, <1>21, <3>2, <4>1
    <3> QED
      BY <3>1, <3>2
  <2>3. ASSUME NEW u \in Sockets, sock'[u] \in {"open", "dead"}
        PROVE  u \in Ids(core')
    <3>1. CASE u = s
      BY <1>8, <1>19, <1>21, <2>3, <3>1
    <3>2. CASE u # s
      BY <1>1, <1>8, <1>19, <1>21, <2>3, <3>2
    <3> QED
      BY <3>1, <3>2
  <2> QED
    BY <2>1, <2>2, <2>3 DEF Held
<1>24. ToldOpen(core', sock')
  <2> SUFFICES ASSUME NEW i \in Members(core'), sock'[SocketOf(core', i)] = "open"
               PROVE  core'.told[SocketOf(core', i)] = Roster(core')
    BY DEF ToldOpen
  <2>1. i \in Members(core) /\ i \in Ids(core) /\ i \in Sockets /\ i # s /\ i \in Ids(c)
    BY <1>1, <1>2, <1>4, <1>8, <1>21
  <2>2. SocketOf(core', i) = i /\ SocketOf(core, i) = i /\ sock[i] = "open"
    BY <1>1, <1>8, <1>19, <1>21, <2>1
  <2>3. core.told[i] = Roster(core)
    BY <1>1, <2>1, <2>2 DEF ToldOpen
  <2> QED
    BY <1>21, <2>1, <2>2, <2>3
<1>25. now' \in Nat \ {0}
  BY <1>1 DEF Server!Connect
<1> QED
  BY <1>21, <1>22, <1>23, <1>24, <1>25 DEF RoomInv

\* The core forgets a session whose socket ended, or is about to.
LEMMA EndKeeps ==
  ASSUME RoomInv, NEW s \in Sockets, sock[s] # "new", NEW state \in {"ending", "closed"}, NEW failing,
         Server!Apply(Server!disconnect(core, s, failing), [sock EXCEPT ![s] = state]),
         now' = now
  PROVE  RoomInv'
<1> DEFINE c == disconnect(core, s, failing)
           st == [sock EXCEPT ![s] = state]
<1>1. /\ Sound(core) /\ sock \in [Sockets -> States] /\ now \in Nat \ {0}
      /\ \A id \in Ids(core) : SocketOf(core, id) = id
  BY DEF RoomInv, Held
<1>2. Outcome(core, c, {s}) /\ s \notin Ids(c)
  BY <1>1, Disconnected
<1>3. /\ st \in [Sockets -> States] /\ st[s] \in {"ending", "closed"}
      /\ \A u \in Sockets : u \notin {s} => st[u] = sock[u]
  BY <1>1 DEF States
<1>4. Server!Apply(c, st)
  BY SameRemovals
<1> HIDE DEF c, st
<1> QED
  BY <1>1, <1>2, <1>3, <1>4, OperationKeeps

LEMMA MessageKeeps ==
  ASSUME RoomInv, NEW s \in Sockets, Server!Message(s)
  PROVE  RoomInv'
<1>1. PICK frame \in Frames, failing \in Server!Failures :
         Server!Apply(Server!receive(core, s, frame, now, failing), sock)
  BY SameRest DEF Server!Message
<1>2. Sound(core) /\ sock \in [Sockets -> States] /\ now \in Nat \ {0} /\ now' = now
  BY DEF RoomInv, Server!Message
<1> DEFINE c == receive(core, s, frame, now, failing)
<1>3. Outcome(core, c, {}) /\ Server!Apply(c, sock)
  BY <1>1, <1>2, Receives, SameReceive
<1> HIDE DEF c
<1> QED
  BY <1>2, <1>3, OperationKeeps

LEMMA SweepKeeps ==
  ASSUME RoomInv, Server!Sweep
  PROVE  RoomInv'
<1>1. /\ Sound(core) /\ sock \in [Sockets -> States] /\ now \in Nat \ {0} /\ now' = now
      /\ Server!Apply(Server!sweep(core, now), sock)
  BY DEF RoomInv, Server!Sweep
<1> DEFINE c == Swept(core, now, JOIN_TIMEOUT)
<1>2. Outcome(core, c, {}) /\ Server!Apply(c, sock)
  BY <1>1, Sweeps, SameRest
<1> HIDE DEF c
<1> QED
  BY <1>1, <1>2, OperationKeeps

\* A socket is lost, or starts to end, and the core does not know yet.
LEMMA SocketsChange ==
  ASSUME RoomInv, UNCHANGED <<core, now>>, sock' \in [Sockets -> States],
         \A s \in Sockets : \/ sock'[s] = sock[s]
                            \/ sock[s] \in {"open", "dead"} /\ sock'[s] \in {"dead", "ending"}
  PROVE  RoomInv'
<1>1. /\ Sound(core) /\ core.closing = {} /\ sock \in [Sockets -> States] /\ now \in Nat \ {0}
      /\ \A s \in Sockets : sock[s] = "new" <=> s > core.nextId
      /\ \A id \in Ids(core) : SocketOf(core, id) = id
      /\ \A id \in Ids(core) : sock[id] \in {"open", "dead", "ending"}
      /\ \A s \in Sockets : sock[s] \in {"open", "dead"} => s \in Ids(core)
      /\ ToldOpen(core, sock)
  BY DEF RoomInv, Held
<1>2. \A id \in Ids(core) : id \in Sockets
  BY <1>1, SoundFacts
<1>3. \A s \in Sockets : sock'[s] = "new" <=> s > core'.nextId
  <2>1. \A s \in Sockets : sock'[s] = "new" <=> sock[s] = "new"
    OBVIOUS
  <2> QED
    BY <1>1, <2>1
<1>4. Held(core', sock')
  <2>1. \A id \in Ids(core) : sock'[id] \in {"open", "dead", "ending"}
    BY <1>1, <1>2
  <2>2. \A s \in Sockets : sock'[s] \in {"open", "dead"} => s \in Ids(core)
    BY <1>1
  <2> QED
    BY <1>1, <2>1, <2>2 DEF Held
<1>5. ToldOpen(core', sock')
  <2>1. \A id \in Members(core) : SocketOf(core, id) \in Sockets
    BY <1>1, SoundFacts
  <2>2. \A s \in Sockets : sock'[s] = "open" => sock[s] = "open"
    OBVIOUS
  <2>3. ToldOpen(core, sock')
    BY <1>1, <2>1, <2>2 DEF ToldOpen
  <2> QED
    BY <2>3
<1> QED
  BY <1>1, <1>3, <1>4, <1>5 DEF RoomInv

\* The core of an empty room.
LEMMA EmptyIsSound ==
  ASSUME NEW told \in [Sockets -> SUBSET (Peers \cup {None})]
  PROVE  LET c == [EmptyCore EXCEPT !.told = told] IN
         /\ Sound(c) /\ Ids(c) = {} /\ Members(c) = {} /\ c.order = <<>> /\ c.closing = {}
         /\ c.nextId = 0 /\ c.lastActivity = 0 /\ c.told = told /\ c.room = FALSE
<1> DEFINE c == [EmptyCore EXCEPT !.told = told]
<1>1. c = [sessions |-> <<>>, order |-> <<>>, room |-> FALSE, lastActivity |-> 0,
           nextId |-> 0, told |-> told, closing |-> {}]
  <2> DEFINE none == [s \in Sockets |-> {}]
             nil == <<>>
  <2>1. EmptyCore = [sessions |-> nil, order |-> nil, room |-> FALSE, lastActivity |-> 0,
                     nextId |-> 0, told |-> none, closing |-> {}]
    BY DEF EmptyCore
  <2>2. c = [EmptyCore EXCEPT !.told = told]
    OBVIOUS
  <2> HIDE DEF none, nil, c
  <2>3. c = [sessions |-> nil, order |-> nil, room |-> FALSE, lastActivity |-> 0,
             nextId |-> 0, told |-> told, closing |-> {}]
    BY ONLY <2>1, <2>2
  <2> QED
    BY <2>3 DEF nil
<1> HIDE DEF c
<1>2. DOMAIN <<>> = {} /\ <<>> \in Seq(Nat) /\ Len(<<>>) = 0
  BY EmptySeq
<1>3. <<>> \in Sessions
  <2>1. <<>> = [i \in {} |-> <<>>[i]]
    OBVIOUS
  <2> QED
    BY <1>2, <2>1, SessionsAre
<1>4. Ids(c) = {} /\ Members(c) = {} /\ ToSet(c.order) = {}
  BY <1>1, <1>2 DEF Ids, Members, ToSet
<1>5. c \in Cores
  BY <1>1, <1>2, <1>3 DEF Cores
<1>6. Distinct(c.order) /\ Len(c.order) <= MAX_ROOM_PEERS /\ c.order = <<>>
  BY <1>1, <1>2, RoomAssumption DEF Distinct
<1>7. OwnSockets(c.sessions) /\ DOMAIN c.sessions = {}
  BY <1>1, <1>2 DEF OwnSockets
<1>8. Lasting(c)
  BY <1>1 DEF Lasting
<1>9. Sound(c)
  BY <1>4, <1>5, <1>6, <1>7, <1>8 DEF Sound
<1> QED
  BY <1>1, <1>4, <1>9 DEF c

LEMMA EmptyCoreIs ==
  EmptyCore = [EmptyCore EXCEPT !.told = [s \in Sockets |-> {}]]
<1> DEFINE told == [s \in Sockets |-> {}]
           nil == <<>>
           e == [EmptyCore EXCEPT !.told = told]
<1>1. EmptyCore = [sessions |-> nil, order |-> nil, room |-> FALSE, lastActivity |-> 0,
                   nextId |-> 0, told |-> told, closing |-> {}]
  BY DEF EmptyCore
<1>2. e = [EmptyCore EXCEPT !.told = told]
  OBVIOUS
<1> HIDE DEF told, nil, e
<1>3. e = [sessions |-> nil, order |-> nil, room |-> FALSE, lastActivity |-> 0,
           nextId |-> 0, told |-> told, closing |-> {}]
  BY ONLY <1>1, <1>2
<1>4. EmptyCore = e
  BY ONLY <1>1, <1>3
<1> QED
  BY <1>4 DEF e, told

LEMMA RoomInvInitial ==
  ASSUME Init
  PROVE  RoomInv
<1> DEFINE told == [s \in Sockets |-> {}]
<1>1. core = EmptyCore /\ sock = [s \in Sockets |-> "new"] /\ now = 1
  BY DEF Init
<1>2. told \in [Sockets -> SUBSET (Peers \cup {None})]
  OBVIOUS
<1>7. core = [EmptyCore EXCEPT !.told = told]
  BY <1>1, EmptyCoreIs
<1> HIDE DEF told
<1>3. Sound(core) /\ Ids(core) = {} /\ Members(core) = {} /\ core.closing = {} /\ core.nextId = 0
  BY <1>2, <1>7, EmptyIsSound
<1>4. Held(core, sock) /\ ToldOpen(core, sock)
  BY <1>1, <1>3 DEF Held, ToldOpen
<1>5. \A s \in Sockets : sock[s] = "new" <=> s > core.nextId
  BY <1>1, <1>3, RoomAssumption
<1> QED
  BY <1>1, <1>3, <1>4, <1>5 DEF RoomInv, States

LEMMA RoomInvStep ==
  ASSUME RoomInv, [Server!Next]_(Server!vars)
  PROVE  RoomInv'
<1>0. sock \in [Sockets -> States] /\ now \in Nat \ {0}
  BY DEF RoomInv
<1>1. ASSUME NEW s \in Sockets, Server!Connect(s) PROVE RoomInv'
  BY <1>1, ConnectKeeps
<1>2. ASSUME NEW s \in Sockets, Server!Message(s) PROVE RoomInv'
  BY <1>2, MessageKeeps
<1>3. ASSUME NEW s \in Sockets, Server!Binary(s) PROVE RoomInv'
  <2>1. /\ sock[s] # "new" /\ now' = now
        /\ \E failing \in Server!Failures :
              Server!Apply(Server!disconnect(core, s, failing \cup {s}), [sock EXCEPT ![s] = "ending"])
    BY <1>3 DEF Server!Binary
  <2> QED
    BY <2>1, EndKeeps
<1>4. ASSUME NEW s \in Sockets, Server!CloseEvent(s) PROVE RoomInv'
  <2>1. /\ sock[s] # "new" /\ now' = now
        /\ \E failing \in Server!Failures :
              Server!Apply(Server!disconnect(core, s, failing), [sock EXCEPT ![s] = "closed"])
    BY <1>4 DEF Server!CloseEvent
  <2> QED
    BY <2>1, EndKeeps
<1>5. ASSUME NEW s \in Sockets, Server!SendFailed(s) PROVE RoomInv'
  <2>1. /\ sock[s] # "new" /\ now' = now
        /\ \E failing \in Server!Failures :
              Server!Apply(Server!disconnect(core, s, failing), [sock EXCEPT ![s] = "ending"])
    BY <1>5 DEF Server!SendFailed
  <2> QED
    BY <2>1, EndKeeps
<1>6. ASSUME NEW s \in Sockets, Server!Pong(s) PROVE RoomInv'
  <2>1. UNCHANGED <<core, now>> /\ sock' = sock
    BY <1>6 DEF Server!Pong
  <2> QED
    BY <1>0, <2>1, SocketsChange
<1>7. ASSUME NEW s \in Sockets, Server!Leave(s) PROVE RoomInv'
  <2>1. UNCHANGED <<core, now>> /\ sock[s] = "open"
    BY <1>7 DEF Server!Leave
  <2>2. PICK state \in {"ending", "dead"} : sock' = [sock EXCEPT ![s] = state]
    BY <1>7 DEF Server!Leave
  <2>3. /\ sock' \in [Sockets -> States]
        /\ \A u \in Sockets : \/ sock'[u] = sock[u]
                              \/ sock[u] \in {"open", "dead"} /\ sock'[u] \in {"dead", "ending"}
    BY <1>0, <2>1, <2>2 DEF States
  <2> QED
    BY <2>1, <2>3, SocketsChange
<1>8. ASSUME Server!Sweep PROVE RoomInv'
  BY <1>8, SweepKeeps
<1>9. ASSUME Server!Heartbeat PROVE RoomInv'
  <2>1. UNCHANGED <<core, now>>
    BY <1>9 DEF Server!Heartbeat
  <2>2. PICK broken : Server!pingOrTerminate(broken)
    BY <1>9 DEF Server!Heartbeat
  <2>3. /\ sock' \in [Sockets -> States]
        /\ \A u \in Sockets : \/ sock'[u] = sock[u]
                              \/ sock[u] \in {"open", "dead"} /\ sock'[u] \in {"dead", "ending"}
    BY <1>0, <2>2 DEF States, Server!pingOrTerminate
  <2> QED
    BY <2>1, <2>3, SocketsChange
<1>10. ASSUME Server!Tick PROVE RoomInv'
  <2>1. UNCHANGED <<core, sock>> /\ now' \in Nat \ {0}
    BY <1>0, <1>10 DEF Server!Tick
  <2> QED
    BY <2>1 DEF RoomInv
<1>11. ASSUME UNCHANGED Server!vars PROVE RoomInv'
  BY <1>11 DEF RoomInv, Server!vars
<1>12. ASSUME Server!Next PROVE RoomInv'
  BY <1>1, <1>2, <1>3, <1>4, <1>5, <1>6, <1>7, <1>8, <1>9, <1>10, <1>12, Zenon DEF Server!Next
<1> QED
  BY <1>11, <1>12

-----------------------------------------------------------------------------
(***************************************************************************)
(* The Durable Object.  What it attached to the sockets is enough: it fits *)
(* the core in memory, but for sessions that a sweep ended and that were   *)
(* not saved since, because fetch refused a connection.  Their sockets are *)
(* ending, and the sweep of a rebuilt core ends them again.                *)
(***************************************************************************)

ObjectStates == {"new", "open", "ending", "closed"}

Attachment == [id : Nat \ {0}, openedAt : Nat, peer : Peers \cup {None}, activity : Nat]

Attached(att) == {s \in Sockets : att[s].id # 0}
Joined(att) == {s \in Attached(att) : att[s].peer # None}
Kept(att) == {att[s].peer : s \in Joined(att)}

\* The attachments could be restored: one session each, with places for all
\* that joined, and the activity of the room.
Restorable(att, st, activity) ==
    /\ att \in [Sockets -> Attachment \cup {NoAttachment}]
    /\ st \in [Sockets -> ObjectStates] /\ activity \in Nat
    /\ \A s \in Attached(att) : st[s] \in {"open", "ending"} /\ att[s].activity = activity
    /\ \A s \in Sockets : st[s] = "open" => s \in Attached(att)
    /\ \A s, u \in Attached(att) : att[s].id = att[u].id => s = u
    /\ \A s, u \in Joined(att) : att[s].peer = att[u].peer => s = u
    /\ IsFiniteSet(Kept(att)) /\ Cardinality(Kept(att)) <= MAX_ROOM_PEERS
    /\ Joined(att) # {} => activity # 0

\* The session of an attachment that b lost and the next sweep would end.
Expired(b, a, activity, t) ==
    IF a.peer = None THEN t - a.openedAt >= JOIN_TIMEOUT
    ELSE t - activity >= IDLE /\ b.order = <<>>

SavedAs(a, x) == a.openedAt = x.openedAt /\ a.peer = x.peer

Fits(b, att, st, activity, t) ==
    /\ Sound(b)
    /\ \A id \in Ids(b) : /\ SocketOf(b, id) \in Attached(att)
                          /\ att[SocketOf(b, id)].id = id
                          /\ SavedAs(att[SocketOf(b, id)], b.sessions[id])
    /\ \A s \in Attached(att) : att[s].id <= b.nextId
    /\ \A s \in Attached(att) :
          att[s].id \notin Ids(b) => st[s] = "ending" /\ Expired(b, att[s], activity, t)
    /\ b.order # <<>> => b.lastActivity = activity

\* Connections are accepted in the order of their numbers.
Accepted(st) == \E k \in Nat : \A s \in Sockets : st[s] = "new" <=> s > k

Informed(told, att, st) == \A s \in Joined(att) : st[s] = "open" => told[s] = Kept(att)

ObjectInv ==
    /\ now \in Nat \ {0} /\ Accepted(sock) /\ Restorable(attached, sock, stored)
    /\ core.told \in [Sockets -> SUBSET (Peers \cup {None})]
    /\ Informed(core.told, attached, sock)
    /\ awake => Fits(core, attached, sock, stored, now)
    /\ ~awake => core = [EmptyCore EXCEPT !.told = core.told]

\* An attached socket is the socket of its session.
LEMMA OwnSession ==
  ASSUME NEW b, NEW att, NEW st, NEW activity, NEW t, Fits(b, att, st, activity, t),
         Restorable(att, st, activity),
         NEW s \in Attached(att), att[s].id \in Ids(b)
  PROVE  SocketOf(b, att[s].id) = s /\ SavedAs(att[s], b.sessions[att[s].id])
<1> DEFINE u == SocketOf(b, att[s].id)
<1>1. u \in Attached(att) /\ att[u].id = att[s].id /\ SavedAs(att[u], b.sessions[att[s].id])
  BY DEF Fits
<1>2. u = s
  BY <1>1 DEF Restorable
<1> QED
  BY <1>1, <1>2

\* While anybody is in the room, the attachments keep the roster.
LEMMA KeptIsRoster ==
  ASSUME NEW b, NEW att, NEW st, NEW activity, NEW t, Fits(b, att, st, activity, t),
         Restorable(att, st, activity), Members(b) # {}
  PROVE  Kept(att) = Roster(b)
<1>1. /\ Members(b) = {i \in Ids(b) : b.sessions[i].peer # None}
      /\ b.order # <<>>
  BY DEF Fits, Sound, Members, Ids, ToSet
<1>2. ASSUME NEW s \in Joined(att)
      PROVE  att[s].peer \in Roster(b)
  <2>1. s \in Attached(att) /\ att[s].peer # None
    BY DEF Joined
  <2>2. att[s].id \in Ids(b)
    BY <1>1, <2>1 DEF Fits, Expired
  <2>3. SavedAs(att[s], b.sessions[att[s].id])
    BY <2>1, <2>2, OwnSession
  <2>4. att[s].id \in Members(b) /\ b.sessions[att[s].id].peer = att[s].peer
    BY <1>1, <2>1, <2>2, <2>3 DEF SavedAs
  <2> QED
    BY <2>4 DEF Roster
<1>3. ASSUME NEW i \in Members(b)
      PROVE  b.sessions[i].peer \in Kept(att)
  <2>1. i \in Ids(b) /\ b.sessions[i].peer # None
    BY <1>1
  <2>2. /\ SocketOf(b, i) \in Attached(att)
        /\ att[SocketOf(b, i)].peer = b.sessions[i].peer
    BY <2>1 DEF Fits, SavedAs
  <2> QED
    BY <2>1, <2>2 DEF Kept, Joined
<1> QED
  BY <1>2, <1>3 DEF Kept, Roster

LEMMA MaxIs ==
  ASSUME NEW S, S \subseteq Int, NEW m \in S, \A y \in S : m >= y
  PROVE  Max(S) = m
<1>1. \E x \in S : \A y \in S : x >= y
  OBVIOUS
<1>2. Max(S) \in S /\ \A y \in S : Max(S) >= y
  BY <1>1 DEF Max
<1> DEFINE x == Max(S)
<1>3. x \in Int /\ m \in Int /\ x >= m /\ m >= x
  BY <1>2
<1> HIDE DEF x
<1>4. x = m
  BY <1>3
<1> QED
  BY <1>4 DEF x

\* What an operation leaves to #persistAndSchedule: every session has its
\* attached socket, an open socket that has no session is being closed, and
\* the members that stay connected were told the roster.
Ready(c, att, st) ==
    /\ Sound(c) /\ Accepted(st)
    /\ st \in [Sockets -> ObjectStates] /\ att \in [Sockets -> Attachment \cup {NoAttachment}]
    /\ \A s \in Attached(att) : st[s] \in {"open", "ending"}
    /\ \A s, u \in Attached(att) : att[s].id = att[u].id => s = u
    /\ \A id \in Ids(c) : /\ SocketOf(c, id) \in Attached(att)
                          /\ att[SocketOf(c, id)].id = id /\ id <= c.nextId
    /\ \A s \in Sockets :
          st[s] = "open" => s \in c.closing \/ (s \in Attached(att) /\ att[s].id \in Ids(c))
    /\ \A id \in Members(c) :
          st[SocketOf(c, id)] = "open" /\ SocketOf(c, id) \notin c.closing
             => c.told[SocketOf(c, id)] = Roster(c)

\* The sockets after an operation.
LEMMA ClosedIs ==
  ASSUME NEW c, NEW st \in [Sockets -> ObjectStates]
  PROVE  /\ Closed(c, st) \in [Sockets -> ObjectStates]
         /\ \A s \in Sockets : /\ Closed(c, st)[s] = "open" <=> st[s] = "open" /\ s \notin c.closing
                               /\ st[s] # "open" => Closed(c, st)[s] = st[s]
                               /\ Closed(c, st)[s] = "new" <=> st[s] = "new"
                               /\ st[s] \in {"open", "ending"} => Closed(c, st)[s] \in {"open", "ending"}
  BY DEF Closed, ObjectStates

LEMMA AcceptedStill ==
  ASSUME NEW st, NEW new, Accepted(st), \A s \in Sockets : new[s] = "new" <=> st[s] = "new"
  PROVE  Accepted(new)
  BY DEF Accepted

LEMMA PersistKeeps ==
  ASSUME NEW c, NEW att, NEW st, Ready(c, att, st), Persist(c, att, st),
         now \in Nat \ {0}, now' = now, awake'
  PROVE  ObjectInv'
<1> DEFINE listed == {s \in Sockets : st[s] \in {"open", "ending"}}
           saved == Snapshots(c, att, listed)
           held == {s \in listed : saved[s].id # 0}
           A == IF c.room THEN c.lastActivity ELSE 0
           new == Closed(c, st)
<1>1. /\ Sound(c) /\ Accepted(st)
      /\ st \in [Sockets -> ObjectStates] /\ att \in [Sockets -> Attachment \cup {NoAttachment}]
      /\ \A s \in Attached(att) : st[s] \in {"open", "ending"}
      /\ \A s, u \in Attached(att) : att[s].id = att[u].id => s = u
      /\ \A id \in Ids(c) : /\ SocketOf(c, id) \in Attached(att)
                            /\ att[SocketOf(c, id)].id = id /\ id <= c.nextId
  BY DEF Ready
<1>2. /\ Ids(c) \subseteq Nat /\ Members(c) \subseteq Ids(c) /\ A \in Nat
      /\ \A i \in Ids(c) : /\ SocketOf(c, i) \in Sockets /\ c.sessions[i].openedAt \in Nat
                           /\ c.sessions[i].peer \in Peers \cup {None}
      /\ Members(c) = {i \in Ids(c) : c.sessions[i].peer # None}
      /\ c.order # <<>> => c.room
      /\ c.room => c.lastActivity # 0
      /\ c.told \in [Sockets -> SUBSET (Peers \cup {None})]
  <2>1. Members(c) = {i \in Ids(c) : c.sessions[i].peer # None}
    BY <1>1 DEF Sound, Members, Ids
  <2> QED
    BY <1>1, <2>1, SoundFacts DEF Sound, Lasting
<1>3. /\ sock' = new /\ core' = Settled(c, new) /\ attached' = saved
      /\ stored' = Max({0} \cup {saved[s].activity : s \in held})
  BY DEF Persist
<1> HIDE DEF A
<1>4. \A s \in Attached(att) : s \in Sockets /\ att[s].id # 0 /\ s \in listed
  BY <1>1 DEF Attached
<1>5. 0 \notin Ids(c)
  BY <1>1, <1>4
<1>6. ASSUME NEW s \in Sockets
      PROVE  saved[s] = IF s \in Attached(att) /\ att[s].id \in Ids(c)
                        THEN Snapshot(c, att[s].id) ELSE NoAttachment
  <2>1. CASE s \notin listed
    <3>1. s \notin Attached(att)
      BY <1>4, <2>1
    <3>2. att[s] = NoAttachment
      BY <1>1, <3>1 DEF Attached, Attachment
    <3> HIDE DEF listed
    <3> QED
      BY <2>1, <3>1, <3>2 DEF Snapshots
  <2>2. CASE s \in listed /\ att[s].id \in Ids(c)
    <3>1. s \in Attached(att)
      BY <1>5, <2>2 DEF Attached
    <3> HIDE DEF listed
    <3> QED
      BY <2>2, <3>1 DEF Snapshots
  <2>3. CASE s \in listed /\ att[s].id \notin Ids(c)
    <3> HIDE DEF listed
    <3> QED
      BY <2>3 DEF Snapshots
  <2> QED
    BY <2>1, <2>2, <2>3
<1> HIDE DEF saved, listed, held
<1>7. \A id : /\ Snapshot(c, id).id = id /\ Snapshot(c, id).openedAt = c.sessions[id].openedAt
              /\ Snapshot(c, id).peer = c.sessions[id].peer /\ Snapshot(c, id).activity = A
  BY DEF Snapshot, A
<1>8. ASSUME NEW s \in Attached(saved)
      PROVE  /\ s \in Sockets /\ s \in Attached(att) /\ att[s].id \in Ids(c)
             /\ saved[s] = Snapshot(c, att[s].id) /\ saved[s].id = att[s].id
             /\ SocketOf(c, saved[s].id) = s /\ saved[s].activity = A
  <2>1. s \in Sockets /\ saved[s].id # 0
    BY DEF Attached
  <2>2. s \in Attached(att) /\ att[s].id \in Ids(c) /\ saved[s] = Snapshot(c, att[s].id)
    BY <1>6, <2>1 DEF NoAttachment
  <2>3. SocketOf(c, att[s].id) = s
    BY <1>1, <2>2
  <2> QED
    BY <1>7, <2>1, <2>2, <2>3
<1>9. ASSUME NEW id \in Ids(c)
      PROVE  SocketOf(c, id) \in Attached(saved) /\ saved[SocketOf(c, id)] = Snapshot(c, id)
  <2>1. saved[SocketOf(c, id)] = Snapshot(c, id)
    BY <1>1, <1>2, <1>6
  <2> QED
    BY <1>2, <1>5, <1>7, <2>1 DEF Attached
<1>10. stored' = IF Attached(saved) = {} THEN 0 ELSE A
  <2>1. held = Attached(saved)
    BY <1>4, <1>8 DEF held, Attached, listed
  <2> DEFINE S == {0} \cup {saved[s].activity : s \in Attached(saved)}
  <2>2. CASE Attached(saved) = {}
    <3>1. S = {0}
      BY <2>2
    <3> DEFINE Z == {0}
    <3>2. Z \subseteq Int /\ 0 \in Z /\ \A y \in Z : 0 >= y
      OBVIOUS
    <3>3. S = Z
      BY <3>1
    <3> HIDE DEF Z
    <3>4. Max(Z) = 0
      BY ONLY <3>2, MaxIs
    <3> QED
      BY <1>3, <2>1, <2>2, <3>3, <3>4
  <2>3. CASE Attached(saved) # {}
    <3>1. S = {0, A}
      BY <1>8, <2>3
    <3> DEFINE Z == {0, A}
    <3>2. Z \subseteq Int /\ A \in Z /\ \A y \in Z : A >= y
      BY <1>2
    <3>3. S = Z
      BY <3>1
    <3> HIDE DEF Z
    <3>4. Max(Z) = A
      BY ONLY <3>2, MaxIs
    <3> QED
      BY <1>3, <2>1, <2>3, <3>3, <3>4
  <2> QED
    BY <2>2, <2>3
<1>11. stored' \in Nat /\ \A s \in Attached(saved) : saved[s].activity = stored'
  BY <1>2, <1>8, <1>10
<1>12. Joined(saved) = {SocketOf(c, id) : id \in Members(c)} /\ Kept(saved) = Roster(c)
  <2>1. ASSUME NEW s \in Joined(saved)
        PROVE  saved[s].id \in Members(c) /\ SocketOf(c, saved[s].id) = s
               /\ saved[s].peer = c.sessions[saved[s].id].peer
    <3>1. s \in Attached(saved) /\ saved[s].peer # None
      BY DEF Joined
    <3> QED
      BY <1>2, <1>7, <1>8, <3>1
  <2>2. ASSUME NEW id \in Members(c)
        PROVE  SocketOf(c, id) \in Joined(saved) /\ saved[SocketOf(c, id)].peer = c.sessions[id].peer
    BY <1>2, <1>7, <1>9 DEF Joined
  <2> QED
    BY <2>1, <2>2 DEF Kept, Roster
<1>13. /\ new \in [Sockets -> ObjectStates]
       /\ \A s \in Sockets : /\ new[s] = "open" <=> st[s] = "open" /\ s \notin c.closing
                             /\ new[s] = "new" <=> st[s] = "new"
                             /\ st[s] \in {"open", "ending"} => new[s] \in {"open", "ending"}
  BY <1>1, ClosedIs
<1> HIDE DEF new
<1>14. Restorable(saved, new, stored')
  <2>1. saved \in [Sockets -> Attachment \cup {NoAttachment}]
    <3>1. saved = [s \in Sockets |-> saved[s]]
      BY DEF saved, Snapshots
    <3>2. \A s \in Sockets : saved[s] \in Attachment \cup {NoAttachment}
      <4> SUFFICES ASSUME NEW s \in Sockets PROVE saved[s] \in Attachment \cup {NoAttachment}
        OBVIOUS
      <4>1. ASSUME NEW id \in Ids(c)
            PROVE  Snapshot(c, id) \in Attachment
        <5>1. id \in Nat \ {0} /\ c.sessions[id].openedAt \in Nat
              /\ c.sessions[id].peer \in Peers \cup {None}
          BY <1>2, <1>5
        <5> QED
          BY <1>2, <5>1 DEF Snapshot, Attachment, A
      <4> QED
        BY <1>6, <4>1
    <3> QED
      BY <3>1, <3>2
  <2>2. \A s \in Attached(saved) : new[s] \in {"open", "ending"}
    BY <1>1, <1>8, <1>13
  <2>3. \A s \in Sockets : new[s] = "open" => s \in Attached(saved)
    <3> SUFFICES ASSUME NEW s \in Sockets, new[s] = "open" PROVE s \in Attached(saved)
      OBVIOUS
    <3>1. s \in Attached(att) /\ att[s].id \in Ids(c)
      BY <1>13 DEF Ready
    <3>2. SocketOf(c, att[s].id) = s
      BY <1>1, <3>1
    <3> QED
      BY <1>9, <3>1, <3>2
  <2>4. \A s, u \in Attached(saved) : saved[s].id = saved[u].id => s = u
    BY <1>8
  <2>5. \A s, u \in Joined(saved) : saved[s].peer = saved[u].peer => s = u
    <3>1. \A i, j \in Members(c) : c.sessions[i].peer = c.sessions[j].peer => i = j
      BY <1>1 DEF Sound, Members
    <3>2. \A id \in Members(c) : saved[SocketOf(c, id)].peer = c.sessions[id].peer
      BY <1>2, <1>7, <1>9
    <3> QED
      BY <1>12, <3>1, <3>2
  <2>6. IsFiniteSet(Kept(saved)) /\ Cardinality(Kept(saved)) <= MAX_ROOM_PEERS
    BY <1>1, <1>12, RosterCounts DEF Sound
  <2>7. Joined(saved) # {} => stored' # 0
    <3> SUFFICES ASSUME Joined(saved) # {} PROVE stored' # 0
      OBVIOUS
    <3>1. c.order # <<>>
      BY <1>12 DEF Members, ToSet
    <3>2. Attached(saved) # {}
      BY DEF Joined
    <3> QED
      BY <1>2, <1>10, <3>1, <3>2 DEF A
  <2> QED
    BY <1>11, <1>13, <2>1, <2>2, <2>3, <2>4, <2>5, <2>6, <2>7 DEF Restorable
<1> DEFINE d == Settled(c, new)
<1>15. /\ Sound(d) /\ d.nextId = c.nextId /\ d.lastActivity = c.lastActivity
       /\ d.order = c.order
       /\ Ids(d) = Ids(c) /\ Members(d) = Members(c) /\ Roster(d) = Roster(c)
       /\ \A i \in Ids(c) : SocketOf(d, i) = SocketOf(c, i) /\ d.sessions[i] = c.sessions[i]
       /\ \A s \in Sockets : d.told[s] = IF new[s] = "open" THEN c.told[s] ELSE {}
  BY <1>1, SettledIs
<1> HIDE DEF d
<1>16. Fits(d, saved, new, stored', now)
  <2>1. ASSUME NEW id \in Ids(d)
        PROVE  /\ SocketOf(d, id) \in Attached(saved) /\ saved[SocketOf(d, id)].id = id
               /\ SavedAs(saved[SocketOf(d, id)], d.sessions[id])
    BY <1>7, <1>9, <1>15 DEF SavedAs
  <2>2. \A s \in Attached(saved) : saved[s].id <= d.nextId /\ saved[s].id \in Ids(d)
    BY <1>1, <1>8, <1>15
  <2>3. d.order # <<>> => d.lastActivity = stored'
    <3> SUFFICES ASSUME d.order # <<>> PROVE d.lastActivity = stored'
      OBVIOUS
    <3>1. c.order # <<>> /\ c.room
      BY <1>2, <1>15
    <3>2. Members(c) # {}
      <4>1. c.order \in Seq(Nat)
        BY <1>1, SoundFacts
      <4> DEFINE o == c.order
      <4>2. o \in Seq(Nat) /\ o # <<>>
        BY <3>1, <4>1
      <4> HIDE DEF o
      <4>3. Len(o) # 0 /\ Len(o) \in Nat /\ DOMAIN o = 1..Len(o)
        BY ONLY <4>2, EmptySeq, LenProperties
      <4>4. 1 \in DOMAIN o
        BY <4>3
      <4> QED
        BY <4>4 DEF Members, ToSet, o
    <3>3. Attached(saved) # {}
      BY <1>2, <1>9, <3>2
    <3> QED
      BY <1>10, <1>15, <3>1, <3>3 DEF A
  <2> QED
    BY <1>15, <2>1, <2>2, <2>3 DEF Fits
<1>17. /\ d.told \in [Sockets -> SUBSET (Peers \cup {None})] /\ Informed(d.told, saved, new)
  <2>1. d.told \in [Sockets -> SUBSET (Peers \cup {None})]
    BY <1>15, SoundFacts
  <2> SUFFICES ASSUME NEW s \in Joined(saved), new[s] = "open" PROVE d.told[s] = Kept(saved)
    BY <2>1 DEF Informed
  <2>2. PICK id \in Members(c) : s = SocketOf(c, id)
    BY <1>12
  <2>3. s \in Sockets /\ st[s] = "open" /\ s \notin c.closing
    BY <1>2, <1>13, <2>2
  <2>4. c.told[s] = Roster(c)
    BY <2>2, <2>3 DEF Ready
  <2> QED
    BY <1>12, <1>15, <2>3, <2>4
<1>18. Accepted(new)
  BY <1>1, <1>13, AcceptedStill
<1> QED
  BY <1>3, <1>14, <1>16, <1>17, <1>18 DEF ObjectInv, d

\* A core that has an order has a member.
LEMMA SomeMember ==
  ASSUME NEW c, Sound(c)
  PROVE  c.order # <<>> <=> Members(c) # {}
<1> DEFINE o == c.order
<1>1. o \in Seq(Nat)
  BY SoundFacts
<1>2. Members(c) = ToSet(o)
  BY DEF Members
<1> HIDE DEF o
<1>3. ASSUME o # <<>> PROVE ToSet(o) # {}
  <2>1. Len(o) # 0 /\ Len(o) \in Nat /\ DOMAIN o = 1..Len(o)
    BY ONLY <1>1, <1>3, EmptySeq, LenProperties
  <2>2. 1 \in DOMAIN o
    BY <2>1
  <2> QED
    BY <2>2 DEF ToSet
<1>4. ASSUME o = <<>> PROVE ToSet(o) = {}
  <2>1. DOMAIN o = {}
    BY <1>4, EmptySeq
  <2> QED
    BY <2>1 DEF ToSet
<1> QED
  BY <1>2, <1>3, <1>4 DEF o

\* The core before an operation, what is attached and who was told.
Before(b) ==
    /\ Fits(b, attached, sock, stored, now) /\ Restorable(attached, sock, stored)
    /\ Accepted(sock) /\ Informed(b.told, attached, sock)

\* The sockets in quiet are done with, the others as before the operation.
Quieted(att, st, quiet) ==
    /\ att = [s \in Sockets |-> IF s \in quiet THEN NoAttachment ELSE attached[s]]
    /\ st = [s \in Sockets |-> IF s \in quiet THEN "closed" ELSE sock[s]]
    /\ \A s \in quiet : s \in Sockets /\ sock[s] = "ending"

\* Every operation on a core that fits the attachments can be persisted.
LEMMA ReadyNow ==
  ASSUME NEW b, Before(b), NEW c, NEW quiet, Outcome(b, c, quiet),
         \A id \in Ids(c) : SocketOf(c, id) \notin quiet,
         NEW att, NEW st, Quieted(att, st, quiet)
  PROVE  Ready(c, att, st)
<1>1. /\ Fits(b, attached, sock, stored, now) /\ Restorable(attached, sock, stored)
      /\ Accepted(sock) /\ Informed(b.told, attached, sock)
  BY DEF Before
<1>2. /\ Sound(b) /\ Sound(c) /\ c.nextId = b.nextId
      /\ Ids(c) \subseteq Ids(b) /\ Members(c) \subseteq Ids(c)
      /\ \A id \in Ids(c) : SocketOf(c, id) = SocketOf(b, id) /\ SocketOf(c, id) \notin quiet
      /\ \A id \in Ids(b) \ Ids(c) : SocketOf(b, id) \in c.closing \cup quiet
  <2>1. Thinned(b, c, quiet)
    BY DEF Outcome
  <2>2. Sound(b) /\ Sound(c)
    BY <1>1, <2>1 DEF Fits, Thinned
  <2> QED
    BY <2>1, <2>2, SoundFacts DEF Thinned
<1>3. /\ attached \in [Sockets -> Attachment \cup {NoAttachment}]
      /\ sock \in [Sockets -> ObjectStates]
      /\ \A s \in Attached(attached) : sock[s] \in {"open", "ending"}
      /\ \A s \in Sockets : sock[s] = "open" => s \in Attached(attached)
      /\ \A s, u \in Attached(attached) : attached[s].id = attached[u].id => s = u
  BY <1>1 DEF Restorable
<1>4. \A id \in Ids(b) : /\ SocketOf(b, id) \in Attached(attached)
                         /\ attached[SocketOf(b, id)].id = id /\ id <= b.nextId
                         /\ SavedAs(attached[SocketOf(b, id)], b.sessions[id])
  BY <1>1 DEF Fits
<1>5. \A s \in Sockets : /\ s \in quiet => att[s] = NoAttachment /\ st[s] = "closed"
                         /\ s \notin quiet => att[s] = attached[s] /\ st[s] = sock[s]
  BY DEF Quieted
<1>6. att \in [Sockets -> Attachment \cup {NoAttachment}] /\ st \in [Sockets -> ObjectStates]
  BY <1>3 DEF Quieted, ObjectStates
<1>7. Attached(att) = Attached(attached) \ quiet
  BY <1>5 DEF Attached, NoAttachment
<1>8. \A s \in Attached(att) : s \in Sockets /\ s \in Attached(attached) /\ att[s] = attached[s]
                               /\ st[s] = sock[s]
  BY <1>5, <1>7 DEF Attached
<1>9. Accepted(st)
  <2>1. \A s \in Sockets : st[s] = "new" <=> sock[s] = "new"
    BY <1>5 DEF Quieted
  <2> QED
    BY <1>1, <2>1, AcceptedStill
<1>10. ASSUME NEW id \in Ids(c)
       PROVE  SocketOf(c, id) \in Attached(att) /\ att[SocketOf(c, id)].id = id /\ id <= c.nextId
  BY <1>2, <1>4, <1>7, <1>8
<1>11. ASSUME NEW s \in Sockets, st[s] = "open"
       PROVE  s \in c.closing \/ (s \in Attached(att) /\ att[s].id \in Ids(c))
  <2>1. s \notin quiet /\ sock[s] = "open" /\ att[s] = attached[s]
    BY <1>5, <1>11
  <2>2. s \in Attached(attached) /\ s \in Attached(att)
    BY <1>3, <1>7, <2>1
  <2>3. attached[s].id \in Ids(b)
    BY <1>1, <2>1, <2>2 DEF Fits
  <2>4. SocketOf(b, attached[s].id) = s
    BY <1>1, <2>2, <2>3, OwnSession
  <2> QED
    BY <1>2, <2>1, <2>2, <2>3, <2>4
<1>12. ASSUME NEW id \in Members(c), st[SocketOf(c, id)] = "open"
       PROVE  c.told[SocketOf(c, id)] = Roster(c)
  <2> DEFINE s == SocketOf(c, id)
  <2>1. CASE AllTold(c)
    BY <2>1 DEF AllTold
  <2>2. CASE SameRoster(b, c)
    <3>1. Members(b) = Members(c) /\ Roster(c) = Roster(b) /\ c.told = b.told
      BY <2>2 DEF SameRoster
    <3>2. Kept(attached) = Roster(b)
      BY <1>1, <3>1, KeptIsRoster
    <3>3. id \in Ids(c) /\ id \in Ids(b) /\ SocketOf(b, id) = s
      BY <1>2
    <3>4. s \in Attached(attached) /\ s \in Sockets /\ sock[s] = "open"
      BY <1>8, <1>10, <1>12, <3>3
    <3>5. attached[s].peer # None
      <4>1. b.sessions[id].peer # None
        BY <1>2, <3>1, SoundFacts
      <4> QED
        BY <1>4, <3>3, <4>1 DEF SavedAs
    <3>6. b.told[s] = Kept(attached)
      BY <1>1, <3>4, <3>5 DEF Informed, Joined
    <3> QED
      BY <3>1, <3>2, <3>6
  <2> QED
    BY <2>1, <2>2 DEF Outcome
<1> QED
  BY <1>2, <1>3, <1>6, <1>8, <1>9, <1>10, <1>11, <1>12 DEF Ready

LEMMA OperationPersists ==
  ASSUME NEW b, Before(b), now \in Nat \ {0}, NEW c, NEW quiet, Outcome(b, c, quiet),
         \A id \in Ids(c) : SocketOf(c, id) \notin quiet,
         NEW att, NEW st, Quieted(att, st, quiet), Persist(c, att, st), now' = now, awake'
  PROVE  ObjectInv'
<1>1. Ready(c, att, st)
  BY ONLY Before(b), Outcome(b, c, quiet), \A id \in Ids(c) : SocketOf(c, id) \notin quiet,
          Quieted(att, st, quiet), ReadyNow
<1> QED
  BY ONLY <1>1, Persist(c, att, st), now \in Nat \ {0}, now' = now, awake', PersistKeeps

\* What an awake object knows.
LEMMA AwakeFacts ==
  ASSUME ObjectInv, awake
  PROVE  /\ Before(core) /\ Sound(core) /\ now \in Nat \ {0}
         /\ Quieted(attached, sock, {})
         /\ \A s \in Sockets : attached[s] # NoAttachment => s \in Attached(attached)
         /\ \A s \in Sockets : attached[s].id \in Ids(core) =>
               s \in Attached(attached) /\ SocketOf(core, attached[s].id) = s
<1>1. Before(core) /\ Sound(core) /\ now \in Nat \ {0}
  BY DEF ObjectInv, Before, Fits
<1>2. attached \in [Sockets -> Attachment \cup {NoAttachment}] /\ sock \in [Sockets -> ObjectStates]
  BY <1>1 DEF Before, Restorable
<1>3. Quieted(attached, sock, {})
  BY <1>2 DEF Quieted
<1>4. \A s \in Sockets : attached[s] # NoAttachment => s \in Attached(attached)
  BY <1>2 DEF Attached, Attachment
<1>5. ASSUME NEW s \in Sockets, attached[s].id \in Ids(core)
      PROVE  s \in Attached(attached) /\ SocketOf(core, attached[s].id) = s
  <2> DEFINE id == attached[s].id
  <2>1. SocketOf(core, id) \in Attached(attached) /\ attached[SocketOf(core, id)].id = id
    BY <1>1, <1>5 DEF Before, Fits
  <2>2. s \in Attached(attached)
    BY <2>1 DEF Attached
  <2> QED
    BY <1>1, <1>5, <2>2, OwnSession DEF Before
<1> QED
  BY <1>1, <1>3, <1>4, <1>5

LEMMA CloudMessage ==
  ASSUME ObjectInv, NEW s \in Sockets, Message(s)
  PROVE  ObjectInv'
<1>1. awake /\ awake' /\ now' = now /\ s \in Listed
  BY DEF Message
<1>2. Before(core) /\ Sound(core) /\ now \in Nat \ {0} /\ Quieted(attached, sock, {})
  BY <1>1, AwakeFacts
<1>3. ASSUME NEW c, Outcome(core, c, {}), Persist(c, attached, sock)
      PROVE  ObjectInv'
  <2>1. \A id \in Ids(c) : SocketOf(c, id) \notin {}
    OBVIOUS
  <2> QED
    BY ONLY <1>1, <1>2, <1>3, <2>1, OperationPersists
<1>4. CASE attached[s] = NoAttachment
  <2>1. Outcome(core, Close(core, s), {})
    <3>1. Outcome(core, core, {s})
      BY <1>2, Nothing
    <3> QED
      BY <3>1, ClosedOutcome
  <2>2. Persist(Close(core, s), attached, sock)
    BY <1>4 DEF Message
  <2> QED
    BY ONLY <1>3, <2>1, <2>2
<1>5. CASE attached[s] # NoAttachment
  <2>1. PICK frame \in Frames, failing \in SUBSET Listed :
           Persist(receive(sweep(core, now), attached[s].id, frame, now, failing), attached, sock)
    BY <1>5 DEF Message
  <2> DEFINE d == sweep(core, now)
             c == receive(d, attached[s].id, frame, now, failing)
  <2>2. Outcome(core, d, {})
    BY <1>2, Sweeps, SweepIs
  <2>3. Sound(d)
    BY <2>2 DEF Outcome, Thinned
  <2> HIDE DEF d
  <2>4. Outcome(d, c, {})
    BY <1>2, <2>3, Receives
  <2> HIDE DEF c
  <2>5. Outcome(core, c, {} \cup {})
    BY ONLY <2>2, <2>4, OutcomeTwice
  <2>6. Outcome(core, c, {})
    <3>1. {} \cup {} = {}
      OBVIOUS
    <3> QED
      BY ONLY <2>5, <3>1
  <2>7. Persist(c, attached, sock)
    BY <2>1 DEF c, d
  <2> QED
    BY ONLY <1>3, <2>6, <2>7
<1> QED
  BY <1>4, <1>5

LEMMA CloudAlarm ==
  ASSUME ObjectInv, Alarm
  PROVE  ObjectInv'
<1>1. awake /\ awake' /\ now' = now /\ Persist(sweep(core, now), attached, sock)
  BY DEF Alarm
<1>2. Before(core) /\ Sound(core) /\ now \in Nat \ {0} /\ Quieted(attached, sock, {})
  BY <1>1, AwakeFacts
<1> DEFINE d == sweep(core, now)
<1>3. Outcome(core, d, {})
  BY <1>2, Sweeps, SweepIs
<1>4. Persist(d, attached, sock)
  BY <1>1
<1> HIDE DEF d
<1>5. \A id \in Ids(d) : SocketOf(d, id) \notin {}
  OBVIOUS
<1> QED
  BY ONLY <1>1, <1>2, <1>3, <1>4, <1>5, OperationPersists

LEMMA CloudBinary ==
  ASSUME ObjectInv, NEW s \in Sockets, Binary(s)
  PROVE  ObjectInv'
<1>1. awake /\ awake' /\ now' = now /\ s \in Listed
  BY DEF Binary
<1>2. Before(core) /\ Sound(core) /\ now \in Nat \ {0} /\ Quieted(attached, sock, {})
  BY <1>1, AwakeFacts
<1>3. PICK failing \in SUBSET Listed :
         Persist(Close(disconnect(core, attached[s].id, failing), s), attached, sock)
  BY DEF Binary
<1> DEFINE id == attached[s].id
           d == disconnect(core, id, failing)
           c == Close(d, s)
<1>4. Outcome(core, d, {s})
  <2>1. id \in Ids(core) => SocketOf(core, id) \in {s}
    BY <1>1, AwakeFacts
  <2> HIDE DEF id
  <2> QED
    BY <1>2, <2>1, Disconnected
<1>5. Persist(c, attached, sock)
  BY <1>3
<1> HIDE DEF d
<1>6. Outcome(core, c, {})
  BY <1>4, ClosedOutcome
<1> HIDE DEF c
<1>7. \A i \in Ids(c) : SocketOf(c, i) \notin {}
  OBVIOUS
<1> QED
  BY ONLY <1>1, <1>2, <1>5, <1>6, <1>7, OperationPersists

LEMMA CloudCloseEvent ==
  ASSUME ObjectInv, NEW s \in Sockets, CloseEvent(s)
  PROVE  ObjectInv'
<1> DEFINE id == attached[s].id
           att == [attached EXCEPT ![s] = NoAttachment]
           st == [sock EXCEPT ![s] = "closed"]
<1>1. awake /\ awake' /\ now' = now /\ sock[s] = "ending"
  BY DEF CloseEvent
<1>2. Before(core) /\ Sound(core) /\ now \in Nat \ {0}
  BY <1>1, AwakeFacts
<1>3. PICK failing \in SUBSET Listed : Persist(disconnect(core, id, failing), att, st)
  BY DEF CloseEvent
<1> DEFINE c == disconnect(core, id, failing)
<1>4. id \in Ids(core) => SocketOf(core, id) \in {s}
  BY <1>1, AwakeFacts
<1>5. Persist(c, att, st)
  BY <1>3
<1>6. Quieted(att, st, {s})
  <2>1. attached \in [Sockets -> Attachment \cup {NoAttachment}] /\ sock \in [Sockets -> ObjectStates]
    BY <1>2 DEF Before, Restorable
  <2>2. att = [u \in Sockets |-> IF u \in {s} THEN NoAttachment ELSE attached[u]]
    BY <2>1
  <2>3. st = [u \in Sockets |-> IF u \in {s} THEN "closed" ELSE sock[u]]
    BY <2>1
  <2> HIDE DEF att, st
  <2> QED
    BY <1>1, <2>2, <2>3 DEF Quieted
<1> HIDE DEF att, st, id
<1>7. Outcome(core, c, {s}) /\ id \notin Ids(c)
  BY <1>2, <1>4, Disconnected
<1> HIDE DEF c
<1>8. ASSUME NEW i \in Ids(c)
      PROVE  SocketOf(c, i) \notin {s}
  <2>1. i \in Ids(core) /\ SocketOf(c, i) = SocketOf(core, i) /\ i # id
    BY <1>7 DEF Outcome, Thinned
  <2>2. attached[SocketOf(core, i)].id = i
    BY <1>2, <2>1 DEF Before, Fits
  <2> QED
    BY <2>1, <2>2 DEF id
<1> QED
  BY ONLY <1>1, <1>2, <1>5, <1>6, <1>7, <1>8, OperationPersists

\* The next connection is accepted.
LEMMA NextAccepted ==
  ASSUME Accepted(sock), sock \in [Sockets -> ObjectStates], NEW s \in Sockets, sock[s] = "new",
         \A t \in Sockets : t < s => sock[t] # "new"
  PROVE  Accepted([sock EXCEPT ![s] = "open"])
<1> DEFINE st == [sock EXCEPT ![s] = "open"]
<1>1. st[s] = "open" /\ \A u \in Sockets : u # s => st[u] = sock[u]
  OBVIOUS
<1> HIDE DEF st
<1>2. PICK k \in Nat : \A u \in Sockets : sock[u] = "new" <=> u > k
  BY DEF Accepted
<1>3. s \in Nat /\ s > k /\ 1..s \subseteq Sockets
  BY <1>2, RoomAssumption
<1>4. k + 1 \in Sockets /\ sock[k + 1] = "new"
  BY <1>2, <1>3
<1>5. ~(k + 1 < s)
  BY <1>4
<1>6. s = k + 1
  BY <1>2, <1>3, <1>5
<1>7. \A u \in Sockets : st[u] = "new" <=> u > s
  <2> SUFFICES ASSUME NEW u \in Sockets PROVE st[u] = "new" <=> u > s
    OBVIOUS
  <2>1. u \in Nat
    BY RoomAssumption
  <2>2. CASE u = s
    BY <1>1, <1>3, <2>2
  <2>3. CASE u # s
    <3>1. st[u] = "new" <=> u > k
      BY <1>1, <1>2, <2>3
    <3> QED
      BY <1>2, <1>6, <2>1, <2>3, <3>1
  <2> QED
    BY <2>2, <2>3
<1> QED
  BY <1>3, <1>7 DEF Accepted, st

\* fetch attaches the next socket to the session that open made.
LEMMA FetchReady ==
  ASSUME NEW d, Ready(d, attached, sock), NEW s \in Sockets, sock[s] = "new",
         \A t \in Sockets : t < s => sock[t] # "new",
         \A u \in Attached(attached) : attached[u].id <= d.nextId,
         now \in Nat \ {0}, NEW c, Opened(d, s, now, {}, c)
  PROVE  Ready(c, [attached EXCEPT ![s] = Snapshot(c, c.nextId)], [sock EXCEPT ![s] = "open"])
<1> DEFINE id == d.nextId + 1
           x == Snapshot(c, id)
           att == [attached EXCEPT ![s] = x]
           st == [sock EXCEPT ![s] = "open"]
<1>1. /\ Sound(d) /\ Accepted(sock)
      /\ sock \in [Sockets -> ObjectStates] /\ attached \in [Sockets -> Attachment \cup {NoAttachment}]
      /\ \A u \in Attached(attached) : sock[u] \in {"open", "ending"}
      /\ \A t, u \in Attached(attached) : attached[t].id = attached[u].id => t = u
      /\ \A i \in Ids(d) : /\ SocketOf(d, i) \in Attached(attached)
                           /\ attached[SocketOf(d, i)].id = i /\ i <= d.nextId
      /\ \A u \in Sockets : sock[u] = "open" =>
             u \in d.closing \/ (u \in Attached(attached) /\ attached[u].id \in Ids(d))
      /\ \A i \in Members(d) : sock[SocketOf(d, i)] = "open" /\ SocketOf(d, i) \notin d.closing
                                  => d.told[SocketOf(d, i)] = Roster(d)
  BY DEF Ready
<1>2. /\ Sound(c) /\ Ids(c) = Ids(d) \cup {id} /\ \A i \in Ids(d) : c.sessions[i] = d.sessions[i]
      /\ c.sessions[id] = [socket |-> s, openedAt |-> now, peer |-> None]
      /\ Members(c) = Members(d) /\ Roster(c) = Roster(d)
      /\ c.nextId = id /\ c.told = d.told /\ c.closing = d.closing
  BY DEF Opened
<1>3. /\ d.nextId \in Nat /\ Members(d) \subseteq Ids(d) /\ c.lastActivity \in Nat
      /\ \A i \in Ids(d) : SocketOf(d, i) \in Sockets
  BY <1>1, <1>2, SoundFacts
<1>4. x \in Attachment /\ x.id = id /\ id # 0 /\ id \notin Ids(d)
      /\ \A u \in Attached(attached) : attached[u].id # id
  <2>1. id \in Nat \ {0} /\ c.sessions[id].openedAt = now /\ c.sessions[id].peer = None
    BY <1>2, <1>3
  <2>2. id \notin Ids(d)
    BY <1>1, <1>3
  <2>3. \A u \in Attached(attached) : attached[u].id # id
    <3> SUFFICES ASSUME NEW u \in Attached(attached) PROVE attached[u].id # id
      OBVIOUS
    <3>1. attached[u].id \in Nat
      BY <1>1 DEF Attached, Attachment, NoAttachment
    <3> QED
      BY <1>3, <3>1
  <2> HIDE DEF id
  <2> DEFINE A == IF c.room THEN c.lastActivity ELSE 0
  <2>4. A \in Nat
    BY <1>3
  <2>5. x = [id |-> id, openedAt |-> now, peer |-> None, activity |-> A]
    BY <2>1 DEF Snapshot
  <2> HIDE DEF A, x
  <2>6. x \in Attachment /\ x.id = id
    BY <2>1, <2>4, <2>5 DEF Attachment
  <2> QED
    BY <2>1, <2>2, <2>3, <2>6
<1> HIDE DEF x
<1>5. /\ att \in [Sockets -> Attachment \cup {NoAttachment}] /\ att[s] = x
      /\ \A u \in Sockets : u # s => att[u] = attached[u]
  BY <1>1, <1>4
<1>6. /\ st \in [Sockets -> ObjectStates] /\ st[s] = "open"
      /\ \A u \in Sockets : u # s => st[u] = sock[u]
  BY <1>1 DEF ObjectStates
<1> HIDE DEF att, st, id
<1>7. s \notin Attached(attached) /\ Attached(att) = Attached(attached) \cup {s}
  <2>1. s \notin Attached(attached)
    BY <1>1
  <2> QED
    BY <1>4, <1>5, <2>1 DEF Attached
<1>8. \A u \in Attached(attached) : u \in Sockets /\ u # s /\ att[u] = attached[u] /\ st[u] = sock[u]
  BY <1>5, <1>6, <1>7 DEF Attached
<1>9. SocketOf(c, id) = s /\ \A i \in Ids(d) : SocketOf(c, i) = SocketOf(d, i)
  BY <1>2 DEF SocketOf
<1>10. Accepted(st)
  BY <1>1, NextAccepted DEF st
<1>11. \A u \in Attached(att) : st[u] \in {"open", "ending"}
  BY <1>1, <1>6, <1>7, <1>8
<1>12. \A t, u \in Attached(att) : att[t].id = att[u].id => t = u
  BY <1>1, <1>4, <1>5, <1>7, <1>8
<1>13. ASSUME NEW i \in Ids(c)
       PROVE  SocketOf(c, i) \in Attached(att) /\ att[SocketOf(c, i)].id = i /\ i <= c.nextId
  <2>1. CASE i = id
    BY <1>2, <1>3, <1>4, <1>5, <1>7, <1>9, <2>1 DEF id
  <2>2. CASE i \in Ids(d)
    <3>1. i <= d.nextId /\ i \in Nat
      BY <1>1, <2>2, SoundFacts
    <3>2. i <= c.nextId
      BY <1>2, <1>3, <3>1 DEF id
    <3> QED
      BY <1>1, <1>7, <1>8, <1>9, <2>2, <3>2
  <2> QED
    BY <1>2, <2>1, <2>2
<1>14. ASSUME NEW u \in Sockets, st[u] = "open"
       PROVE  u \in c.closing \/ (u \in Attached(att) /\ att[u].id \in Ids(c))
  <2>1. CASE u = s
    BY <1>2, <1>4, <1>5, <1>7, <2>1
  <2>2. CASE u # s
    BY <1>1, <1>2, <1>6, <1>7, <1>8, <1>14, <2>2
  <2> QED
    BY <2>1, <2>2
<1>15. ASSUME NEW i \in Members(c), st[SocketOf(c, i)] = "open", SocketOf(c, i) \notin c.closing
       PROVE  c.told[SocketOf(c, i)] = Roster(c)
  <2>1. i \in Members(d) /\ i \in Ids(d) /\ SocketOf(c, i) = SocketOf(d, i)
    BY <1>2, <1>3, <1>9
  <2>2. sock[SocketOf(d, i)] = "open"
    BY <1>1, <1>8, <1>15, <2>1
  <2> QED
    BY <1>1, <1>2, <1>15, <2>1, <2>2
<1>16. Ready(c, att, st)
  BY <1>2, <1>5, <1>6, <1>10, <1>11, <1>12, <1>13, <1>14, <1>15 DEF Ready
<1> QED
  BY <1>2, <1>16 DEF att, st, x

\* What a sweep leaves, in core and in the sockets, when the operation returns
\* before #persistAndSchedule.
Cut(c, st) ==
    LET d == Swept(core, now, IDLE) IN
    /\ Sound(c) /\ c.nextId >= core.nextId /\ Ids(c) = Ids(d)
    /\ \A i \in Ids(d) : c.sessions[i] = d.sessions[i]
    /\ c.order = d.order /\ c.lastActivity = core.lastActivity /\ c.told = core.told
    /\ d.closing \subseteq c.closing
    /\ st \in [Sockets -> ObjectStates] /\ Accepted(st)
    /\ \A s \in Sockets : st[s] = "open" => s \in c.closing \/ sock[s] = "open"
    /\ \A s \in Attached(attached) : st[s] = sock[s]

LEMMA UnsavedKeeps ==
  ASSUME ObjectInv, awake, NEW c, NEW st, Cut(c, st), Unsaved(c, st), awake' = awake, now' = now
  PROVE  ObjectInv'
<1> DEFINE d == Swept(core, now, IDLE)
           new == Closed(c, st)
           e == Settled(c, new)
<1>1. /\ now \in Nat \ {0} /\ Restorable(attached, sock, stored)
      /\ Informed(core.told, attached, sock) /\ Fits(core, attached, sock, stored, now)
      /\ Sound(core)
  BY DEF ObjectInv, Fits
<1>2. /\ sock' = new /\ core' = e /\ attached' = attached /\ stored' = stored
  BY DEF Unsaved
<1>3. /\ Sound(c) /\ c.nextId >= core.nextId /\ Ids(c) = Ids(d)
      /\ \A i \in Ids(d) : c.sessions[i] = d.sessions[i]
      /\ c.order = d.order /\ c.lastActivity = core.lastActivity /\ c.told = core.told
      /\ d.closing \subseteq c.closing
      /\ st \in [Sockets -> ObjectStates] /\ Accepted(st)
      /\ \A s \in Sockets : st[s] = "open" => s \in c.closing \/ sock[s] = "open"
      /\ \A s \in Attached(attached) : st[s] = sock[s]
  BY DEF Cut
<1>4. /\ Ids(d) = Ids(core) \ Gone(core, now, IDLE)
      /\ \A i \in Ids(d) : d.sessions[i] = core.sessions[i]
      /\ d.order = (IF IdleFor(core, now, IDLE) THEN <<>> ELSE core.order)
      /\ d.closing = core.closing \cup {SocketOf(core, id) : id \in Gone(core, now, IDLE)}
  <2>1. SweptFrom(core, now, IDLE, d)
    BY <1>1, Sweeps
  <2> QED
    BY <2>1 DEF SweptFrom
<1> HIDE DEF d
<1>5. /\ new \in [Sockets -> ObjectStates]
      /\ \A s \in Sockets : /\ new[s] = "open" <=> st[s] = "open" /\ s \notin c.closing
                            /\ st[s] # "open" => new[s] = st[s]
                            /\ new[s] = "new" <=> st[s] = "new"
                            /\ st[s] \in {"open", "ending"} => new[s] \in {"open", "ending"}
  BY <1>3, ClosedIs
<1> HIDE DEF new
<1>6. Accepted(new)
  BY <1>3, <1>5, AcceptedStill
<1>7. /\ attached \in [Sockets -> Attachment \cup {NoAttachment}] /\ stored \in Nat
      /\ \A s \in Attached(attached) : s \in Sockets /\ sock[s] \in {"open", "ending"}
      /\ \A s \in Sockets : sock[s] = "open" => s \in Attached(attached)
  BY <1>1 DEF Restorable, Attached
<1>8. Restorable(attached, new, stored)
  <2>1. \A s \in Attached(attached) : new[s] \in {"open", "ending"}
    BY <1>3, <1>5, <1>7
  <2>2. \A s \in Sockets : new[s] = "open" => s \in Attached(attached)
    BY <1>3, <1>5, <1>7
  <2> QED
    BY <1>1, <1>5, <2>1, <2>2 DEF Restorable
<1>9. /\ Sound(e) /\ e.nextId = c.nextId /\ e.lastActivity = c.lastActivity
      /\ e.order = c.order /\ Ids(e) = Ids(c)
      /\ \A i \in Ids(c) : SocketOf(e, i) = SocketOf(c, i) /\ e.sessions[i] = c.sessions[i]
      /\ \A s \in Sockets : e.told[s] = IF new[s] = "open" THEN c.told[s] ELSE {}
  BY <1>3, SettledIs
<1> HIDE DEF e
<1>10. ASSUME NEW i \in Ids(e)
       PROVE  i \in Ids(core) /\ e.sessions[i] = core.sessions[i] /\ SocketOf(e, i) = SocketOf(core, i)
  BY <1>3, <1>4, <1>9 DEF SocketOf
<1>11. Fits(e, attached, new, stored, now)
  <2>1. \A i \in Ids(e) : /\ SocketOf(e, i) \in Attached(attached)
                          /\ attached[SocketOf(e, i)].id = i
                          /\ SavedAs(attached[SocketOf(e, i)], e.sessions[i])
    BY <1>1, <1>10 DEF Fits
  <2>2. ASSUME NEW s \in Attached(attached)
        PROVE  attached[s].id <= e.nextId
    <3>1. attached[s].id <= core.nextId
      BY <1>1 DEF Fits
    <3>2. attached[s].id \in Nat /\ core.nextId \in Nat /\ c.nextId \in Nat
      BY <1>1, <1>3, <1>7, SoundFacts DEF Attached, Attachment, NoAttachment
    <3> QED
      BY <1>3, <1>9, <3>1, <3>2
  <2>3. ASSUME NEW s \in Attached(attached), attached[s].id \notin Ids(e)
        PROVE  new[s] = "ending" /\ Expired(e, attached[s], stored, now)
    <3> DEFINE id == attached[s].id
    <3>1. CASE id \notin Ids(core)
      <4>1. sock[s] = "ending" /\ Expired(core, attached[s], stored, now)
        BY <1>1, <3>1 DEF Fits
      <4>2. new[s] = "ending"
        BY <1>3, <1>5, <1>7, <4>1
      <4>3. core.order = <<>> => e.order = <<>>
        BY <1>3, <1>4, <1>9
      <4> QED
        BY <4>1, <4>2, <4>3 DEF Expired
    <3>2. CASE id \in Ids(core)
      <4>1. id \in Gone(core, now, IDLE)
        BY <1>3, <1>4, <1>9, <2>3, <3>2
      <4>2. SocketOf(core, id) = s /\ SavedAs(attached[s], core.sessions[id])
        BY <1>1, <3>2, OwnSession
      <4>3. s \in c.closing
        BY <1>3, <1>4, <4>1, <4>2
      <4>4. new[s] = "ending"
        BY <1>3, <1>5, <1>7, <4>3
      <4>5. CASE id \in Late(core, now)
        BY <4>2, <4>4, <4>5 DEF Late, Expired, SavedAs
      <4>6. CASE IdleFor(core, now, IDLE) /\ id \in Members(core)
        <5>1. core.sessions[id].peer # None /\ core.order # <<>>
          BY <1>1, <4>6, SomeMember, SoundFacts
        <5>2. core.lastActivity = stored /\ e.order = <<>>
          BY <1>1, <1>3, <1>4, <1>9, <4>6, <5>1 DEF Fits
        <5> QED
          BY <4>2, <4>4, <4>6, <5>1, <5>2 DEF IdleFor, Expired, SavedAs
      <4> QED
        BY <4>1, <4>5, <4>6 DEF Gone
    <3> QED
      BY <3>1, <3>2
  <2>4. e.order # <<>> => e.lastActivity = stored
    BY <1>1, <1>3, <1>4, <1>9 DEF Fits
  <2> QED
    BY <1>9, <2>1, <2>2, <2>3, <2>4 DEF Fits
<1>12. e.told \in [Sockets -> SUBSET (Peers \cup {None})]
  BY <1>9, SoundFacts
<1>13. Informed(e.told, attached, new)
  <2> SUFFICES ASSUME NEW s \in Joined(attached), new[s] = "open"
               PROVE  e.told[s] = Kept(attached)
    BY DEF Informed
  <2>1. s \in Sockets /\ sock[s] = "open"
    BY <1>3, <1>5, <1>7 DEF Joined
  <2> QED
    BY <1>1, <1>3, <1>9, <2>1 DEF Informed
<1> QED
  BY <1>1, <1>2, <1>6, <1>8, <1>11, <1>12, <1>13 DEF ObjectInv

\* A nonempty set of natural numbers up to a bound has its maximum.
LEMMA LargestExists ==
  ASSUME NEW n \in Nat, NEW S, S \subseteq 0..n, S # {}
  PROVE  Max(S) \in S /\ \A k \in S : Max(S) >= k
<1> DEFINE T == {x \in 0..n : n - x \in S}
<1>1. \A k \in S : n - k \in T /\ k \in Int
  OBVIOUS
<1>2. T \subseteq Nat /\ \A x \in T : n - x \in S
  OBVIOUS
<1>3. T # {}
  BY <1>1
<1> HIDE DEF T
<1>4. PICK x \in T : \A y \in T : x <= y
  BY ONLY <1>2, <1>3, LeastExists
<1>5. x \in Nat /\ n - x \in S
  BY <1>2
<1>6. \A k \in S : n - x >= k
  <2> TAKE k \in S
  <2>1. x <= n - k /\ k \in Int
    BY <1>1, <1>4
  <2> QED
    BY <2>1, <1>5
<1> QED
  BY <1>5, <1>6 DEF Max

\* One turn of the loop of restore.
RestoreStep(c, s) ==
    CASE s \notin Listed -> c
      [] s \in Listed /\ attached[s] = NoAttachment -> Close(c, s)
      [] s \in Listed /\ attached[s] # NoAttachment ->
            restoreSession(c, s, [attached[s] EXCEPT !.activity = Max({@, stored})])

LEMMA RestoreLoop ==
  ASSUME NEW last, last = Max({0} \cup Listed), last \in Nat
  PROVE  \E f : /\ restore = f[last] /\ f[0] = [EmptyCore EXCEPT !.told = core.told]
                /\ \A i \in 1..last : f[i] = RestoreStep(f[i - 1], i)
<1> DEFINE first == [EmptyCore EXCEPT !.told = core.told]
           A(x, i) == RestoreStep(x, i)
           Nested(f, n) == f = [i \in 0..n |-> IF i = 0 THEN first ELSE A(f[i - 1], i)]
           upTo == CHOOSE f : Nested(f, last)
<1>1. restore = upTo[last]
  BY DEF restore, RestoreStep
<1> HIDE DEF A, Nested, first
<1>3. \E f : Nested(f, last)
  <2> DEFINE T == {k \in Nat : ~ \E f : Nested(f, k)}
  <2>1. SUFFICES ASSUME T # {} PROVE FALSE
    OBVIOUS
  <2>2. T \subseteq Nat
    OBVIOUS
  <2> HIDE DEF T
  <2>3. PICK k \in T : \A j \in T : k <= j
    BY ONLY <2>1, <2>2, LeastExists
  <2>4. k \in Nat
    BY <2>2, <2>3
  <2>5. CASE k = 0
    <3> DEFINE f == [i \in 0..0 |-> first]
    <3>1. 0..0 = {0}
      OBVIOUS
    <3>2. Nested(f, 0)
      BY <3>1 DEF Nested
    <3> QED
      BY <2>3, <2>5, <3>2 DEF T
  <2>6. CASE k > 0
    <3>1. k - 1 \in Nat /\ k - 1 \notin T
      BY <2>3, <2>4, <2>6
    <3>2. PICK f : Nested(f, k - 1)
      BY <3>1 DEF T
    <3> DEFINE g == [i \in 0..k |-> IF i < k THEN f[i] ELSE A(f[k - 1], k)]
    <3>3. ASSUME NEW i \in 0..k
          PROVE  g[i] = IF i = 0 THEN first ELSE A(g[i - 1], i)
      <4>1. CASE i < k
        <5>1. i \in 0..(k - 1) /\ g[i] = f[i]
          BY <2>4, <3>1, <4>1
        <5>2. f[i] = IF i = 0 THEN first ELSE A(f[i - 1], i)
          BY <3>2, <5>1 DEF Nested
        <5>3. i # 0 => g[i - 1] = f[i - 1]
          BY <2>4, <4>1
        <5> QED
          BY <5>1, <5>2, <5>3
      <4>2. CASE ~(i < k)
        <5>1. i = k /\ i # 0 /\ k - 1 \in 0..k /\ k - 1 < k
          BY <2>4, <2>6, <3>1, <4>2
        <5> QED
          BY <5>1
      <4> QED
        BY <4>1, <4>2
    <3>4. Nested(g, k)
      <4> DEFINE t == [i \in 0..k |-> IF i = 0 THEN first ELSE A(g[i - 1], i)]
      <4>1. \A i \in 0..k : g[i] = t[i]
        BY <3>3
      <4> QED
        BY <4>1 DEF Nested
    <3> HIDE DEF g
    <3> QED
      BY <2>3, <2>4, <3>4 DEF T
  <2> QED
    BY <2>4, <2>5, <2>6
<1>4. Nested(upTo, last)
  BY <1>3
<1> HIDE DEF upTo
<1>5. \A i \in 0..last : upTo[i] = IF i = 0 THEN first ELSE A(upTo[i - 1], i)
  BY <1>4 DEF Nested
<1>6. upTo[0] = first /\ \A i \in 1..last : upTo[i] = A(upTo[i - 1], i)
  BY <1>5
<1> QED
  BY <1>1, <1>6 DEF A, first

LEMMA MaxOfTwo ==
  ASSUME NEW a \in Nat, NEW b \in Nat
  PROVE  Max({a, b}) \in {a, b} /\ Max({a, b}) >= a /\ Max({a, b}) >= b
<1> DEFINE S == {a, b}
           m == IF a >= b THEN a ELSE b
<1>1. m \in S /\ S \subseteq Int /\ \A y \in S : m >= y
  OBVIOUS
<1>2. m \in {a, b} /\ m >= a /\ m >= b
  OBVIOUS
<1> HIDE DEF S, m
<1>3. Max(S) = m
  BY ONLY <1>1, MaxIs
<1> QED
  BY <1>2, <1>3 DEF S

\* The session that an attachment stands for.
SessionOf(s) == [socket |-> s, openedAt |-> attached[s].openedAt, peer |-> attached[s].peer]

UpTo(n) == {s \in Attached(attached) : s <= n}

\* The core after the first n sockets.
RestoredUpTo(c, n) ==
    /\ Sound(c)
    /\ Ids(c) = {attached[s].id : s \in UpTo(n)}
    /\ \A s \in UpTo(n) : c.sessions[attached[s].id] = SessionOf(s) /\ attached[s].id <= c.nextId
    /\ c.told = core.told
    /\ c.lastActivity \in {0, stored} /\ (UpTo(n) # {} => c.lastActivity = stored)

\* Nothing that is attached conflicts.
LEMMA NoConflict ==
  ASSUME Restorable(attached, sock, stored), NEW n \in Nat, NEW c, RestoredUpTo(c, n),
         NEW s \in Attached(attached), s > n
  PROVE  attached[s].id \in Nat /\ attached[s].id \notin Ids(c) /\ HasPlace(c, SessionOf(s))
<1> DEFINE x == SessionOf(s)
           p == attached[s].peer
<1>1. /\ attached \in [Sockets -> Attachment \cup {NoAttachment}]
      /\ \A u, v \in Attached(attached) : attached[u].id = attached[v].id => u = v
      /\ \A u, v \in Joined(attached) : attached[u].peer = attached[v].peer => u = v
      /\ IsFiniteSet(Kept(attached)) /\ Cardinality(Kept(attached)) <= MAX_ROOM_PEERS
  BY DEF Restorable
<1>2. Sound(c) /\ Ids(c) = {attached[u].id : u \in UpTo(n)}
      /\ \A u \in UpTo(n) : c.sessions[attached[u].id] = SessionOf(u)
  BY DEF RestoredUpTo
<1>3. \A u \in UpTo(n) : u \in Attached(attached) /\ u \in Sockets /\ u # s
  <2> SUFFICES ASSUME NEW u \in UpTo(n)
               PROVE  u \in Attached(attached) /\ u \in Sockets /\ u # s
    OBVIOUS
  <2>1. u \in Attached(attached) /\ u \in Sockets /\ s \in Sockets
    BY DEF UpTo, Attached
  <2>2. u \in Nat /\ s \in Nat
    BY <2>1, RoomAssumption
  <2>3. u <= n
    BY DEF UpTo
  <2>4. u # s
    BY <2>2, <2>3
  <2> QED
    BY <2>1, <2>4
<1>4. s \in Sockets /\ attached[s] \in Attachment
  BY <1>1 DEF Attached, NoAttachment
<1>5. attached[s].id \in Nat /\ attached[s].openedAt \in Nat /\ p \in Peers \cup {None}
  BY <1>4 DEF Attachment
<1>6. attached[s].id \notin Ids(c)
  BY <1>1, <1>2, <1>3
<1>7. \A u : /\ SessionOf(u).socket = u /\ SessionOf(u).peer = attached[u].peer
  BY DEF SessionOf
<1>8. x \in Session
  BY <1>4, <1>5 DEF Session, SessionOf
<1>9. \A i \in Ids(c) : SocketOf(c, i) # s
  BY <1>2, <1>3, <1>7 DEF SocketOf
<1>10. ASSUME p # None
       PROVE  p \notin Roster(c) /\ Len(c.order) < MAX_ROOM_PEERS
  <2>1. s \in Joined(attached) /\ p \in Kept(attached)
    BY <1>10 DEF Joined, Kept
  <2>2. ASSUME NEW i \in Members(c)
        PROVE  c.sessions[i].peer \in Kept(attached) /\ c.sessions[i].peer # p
    <3>1. i \in Ids(c) /\ c.sessions[i].peer # None
      BY <1>2, SoundFacts
    <3>2. PICK u \in UpTo(n) : i = attached[u].id
      BY <1>2, <3>1
    <3>3. c.sessions[i].peer = attached[u].peer
      BY <1>2, <1>7, <3>2
    <3>4. u \in Joined(attached) /\ u # s
      BY <1>3, <3>1, <3>2, <3>3 DEF Joined
    <3> QED
      BY <1>1, <2>1, <3>3, <3>4 DEF Kept
  <2>3. p \notin Roster(c) /\ Roster(c) \cup {p} \subseteq Kept(attached)
    BY <2>1, <2>2 DEF Roster
  <2> DEFINE R == Roster(c)
             K == Kept(attached)
  <2>4. IsFiniteSet(R) /\ Cardinality(R) = Len(c.order) /\ Len(c.order) \in Nat
    BY <1>2, RosterCounts, SoundFacts
  <2>5. p \notin R /\ R \cup {p} \subseteq K /\ IsFiniteSet(K)
    BY <1>1, <2>3
  <2> HIDE DEF R, K
  <2>6. Cardinality(R \cup {p}) = Cardinality(R) + 1
    BY ONLY <2>4, <2>5, FS_AddElement
  <2>7. Cardinality(R \cup {p}) <= Cardinality(K) /\ Cardinality(K) \in Nat
    BY ONLY <2>5, FS_Subset, FS_CardinalityType
  <2>8. Len(c.order) < MAX_ROOM_PEERS
    BY <1>1, <2>4, <2>6, <2>7, RoomAssumption DEF K
  <2> QED
    BY <2>3, <2>8
<1>11. HasPlace(c, x)
  BY <1>7, <1>8, <1>9, <1>10 DEF HasPlace
<1> QED
  BY <1>5, <1>6, <1>11

\* A restored session takes its place.
LEMMA SessionRestored ==
  ASSUME Restorable(attached, sock, stored), NEW n \in Nat, NEW c, RestoredUpTo(c, n),
         NEW s \in Attached(attached), s = n + 1
  PROVE  RestoredUpTo(restoreSession(c, s, [attached[s] EXCEPT !.activity = Max({@, stored})]), s)
<1> DEFINE id == attached[s].id
           p == attached[s].peer
           a == [attached[s] EXCEPT !.activity = Max({@, stored})]
           x == SessionOf(s)
<1>1. /\ attached[s] \in Attachment /\ attached[s].activity = stored /\ stored \in Nat
      /\ p # None => stored # 0
  <2>1. attached \in [Sockets -> Attachment \cup {NoAttachment}] /\ s \in Sockets
    BY DEF Restorable, Attached
  <2>2. attached[s] \in Attachment
    BY <2>1 DEF Attached, NoAttachment
  <2> QED
    BY <2>2 DEF Restorable, Joined
<1>2. a.id = id /\ a.openedAt = attached[s].openedAt /\ a.peer = p /\ a.activity = stored
  <2>1. Max({stored, stored}) = stored
    BY <1>1, MaxOfTwo
  <2> QED
    BY <1>1, <2>1 DEF Attachment
<1> HIDE DEF a
<1>3. s > n
  OBVIOUS
<1>4. id \in Nat /\ id \notin Ids(c) /\ HasPlace(c, x)
  BY <1>3, NoConflict
<1>5. /\ Sound(c) /\ c.told = core.told
      /\ Ids(c) = {attached[u].id : u \in UpTo(n)}
      /\ \A u \in UpTo(n) : c.sessions[attached[u].id] = SessionOf(u) /\ attached[u].id <= c.nextId
      /\ c.lastActivity \in {0, stored}
  BY DEF RestoredUpTo
<1>6. /\ c \in Cores /\ Lasting(c) /\ c.nextId \in Nat /\ c.lastActivity \in Nat
      /\ c.room \in BOOLEAN
  BY <1>5, SoundFacts DEF Sound
<1> DEFINE t == [i \in Ids(c) \cup {id} |-> IF i = id THEN x ELSE c.sessions[i]]
           o == IF p = None THEN c.order ELSE Append(c.order, id)
           r == c.room \/ stored # 0
           m == Max({c.lastActivity, stored})
           k == Max({c.nextId, id})
           e == [c EXCEPT !.sessions = t]
           d == [e EXCEPT !.order = IF p = None THEN @ ELSE Append(@, id),
                          !.room = @ \/ stored # 0,
                          !.lastActivity = Max({@, stored}),
                          !.nextId = Max({@, id})]
<1>7. restoreSession(c, s, a) = d
  <2>1. ~ (\/ a.id \in Ids(c)
           \/ a.peer # None /\ (a.peer \in Roster(c) \/ Len(c.order) >= MAX_ROOM_PEERS))
    <3>1. p # None => p \notin Roster(c) /\ Len(c.order) < MAX_ROOM_PEERS
      BY <1>4 DEF HasPlace, SessionOf
    <3>2. Len(c.order) \in Nat /\ MAX_ROOM_PEERS \in Nat
      BY <1>5, RoomAssumption, SoundFacts
    <3> QED
      BY <1>2, <1>4, <3>1, <3>2
  <2>2. e = AddSession(c, a.id, [socket |-> s, openedAt |-> a.openedAt, peer |-> a.peer])
    BY <1>2 DEF AddSession, SessionOf
  <2> HIDE DEF e
  <2>3. restoreSession(c, s, a) =
          [e EXCEPT !.order = IF a.peer = None THEN @ ELSE Append(@, a.id),
                    !.room = @ \/ a.activity # 0,
                    !.lastActivity = Max({@, a.activity}),
                    !.nextId = Max({@, a.id})]
    BY <2>1, <2>2 DEF restoreSession
  <2> QED
    BY <1>2, <2>3
<1>8. m = stored /\ k \in Nat /\ k >= c.nextId /\ k >= id
  <2>1. m \in {c.lastActivity, stored} /\ m >= stored /\ m >= c.lastActivity
    BY <1>1, <1>6, MaxOfTwo
  <2>2. k \in {c.nextId, id} /\ k >= c.nextId /\ k >= id
    BY <1>4, <1>6, MaxOfTwo
  <2> HIDE DEF m, k
  <2>3. m = stored
    BY <1>1, <1>5, <2>1
  <2> QED
    BY <1>4, <1>6, <2>2, <2>3
<1>9. r \in BOOLEAN /\ (r => stored # 0) /\ (o # <<>> => r)
  <2>1. c.room => stored # 0
    BY <1>5, <1>6 DEF Lasting
  <2>2. o # <<>> => c.room \/ p # None
    BY <1>6 DEF Lasting
  <2> QED
    BY <1>1, <2>1, <2>2
<1> HIDE DEF t, o, r, m, k
<1>10. /\ d = [sessions |-> t, order |-> o, room |-> r, lastActivity |-> m, nextId |-> k,
               told |-> c.told, closing |-> c.closing]
  <2>1. c = [sessions |-> c.sessions, order |-> c.order, room |-> c.room,
             lastActivity |-> c.lastActivity, nextId |-> c.nextId, told |-> c.told,
             closing |-> c.closing]
    BY <1>6, CoreIs
  <2>2. e = [sessions |-> t, order |-> c.order, room |-> c.room,
             lastActivity |-> c.lastActivity, nextId |-> c.nextId, told |-> c.told,
             closing |-> c.closing]
    <3> DEFINE f == [c EXCEPT !.sessions = t]
    <3>1. f = [c EXCEPT !.sessions = t]
      OBVIOUS
    <3> HIDE DEF f
    <3>2. f = [sessions |-> t, order |-> c.order, room |-> c.room,
               lastActivity |-> c.lastActivity, nextId |-> c.nextId, told |-> c.told,
               closing |-> c.closing]
      BY ONLY <2>1, <3>1
    <3> QED
      BY <3>2 DEF f
  <2> HIDE DEF e
  <2>3. d = [e EXCEPT !.order = o, !.room = r, !.lastActivity = m, !.nextId = k]
    BY <2>2 DEF o, r, m, k
  <2> HIDE DEF d
  <2> QED
    BY ONLY <2>2, <2>3
<1> HIDE DEF d
<1>11. /\ d.sessions = t /\ d.order = o /\ d.room = r /\ d.lastActivity = m /\ d.nextId = k
       /\ d.told = c.told /\ d.closing = c.closing
  BY <1>10
<1>12. AddedTo(c, id, x, d)
  <2>1. x.peer = p
    BY DEF SessionOf
  <2>2. Lasting(d)
    BY <1>8, <1>9, <1>11 DEF Lasting
  <2>3. m \in Nat
    BY <1>1, <1>8
  <2> HIDE DEF x
  <2> QED
    BY <1>8, <1>9, <1>10, <1>11, <2>1, <2>2, <2>3 DEF AddedTo, t, o
<1> HIDE DEF id, x
<1>13. Grown(c, id, x, d)
  <2>1. Sound(c)
    BY <1>5
  <2> QED
    BY ONLY <1>4, <1>12, <2>1, Added
<1>14. UpTo(s) = UpTo(n) \cup {s}
  <2>1. Attached(attached) \subseteq Nat
    BY RoomAssumption DEF Attached
  <2> QED
    BY <2>1 DEF UpTo
<1>15. Ids(d) = {attached[u].id : u \in UpTo(s)}
  BY <1>5, <1>13, <1>14 DEF Grown, id
<1>16. ASSUME NEW u \in UpTo(s)
       PROVE  d.sessions[attached[u].id] = SessionOf(u) /\ attached[u].id <= d.nextId
  <2>1. CASE u = s
    BY <1>4, <1>8, <1>11, <1>13, <2>1 DEF Grown, id, x
  <2>2. CASE u \in UpTo(n)
    <3>1. attached[u].id \in Ids(c) /\ attached[u].id \in Nat
      BY <1>5, <2>2, SoundFacts
    <3> QED
      BY <1>5, <1>6, <1>8, <1>11, <1>13, <2>2, <3>1 DEF Grown
  <2> QED
    BY <1>14, <2>1, <2>2
<1>17. RestoredUpTo(d, s)
  BY <1>5, <1>8, <1>11, <1>13, <1>15, <1>16 DEF RestoredUpTo, Grown
<1> QED
  BY <1>7, <1>17 DEF a

\* One turn of the loop.
LEMMA RestoreTurn ==
  ASSUME Restorable(attached, sock, stored), NEW n \in Nat, NEW c, RestoredUpTo(c, n)
  PROVE  RestoredUpTo(RestoreStep(c, n + 1), n + 1)
<1> DEFINE s == n + 1
<1>1. /\ Sound(c) /\ c.told = core.told
      /\ attached \in [Sockets -> Attachment \cup {NoAttachment}]
      /\ \A u \in Attached(attached) : u \in Sockets /\ sock[u] \in {"open", "ending"}
  BY DEF RestoredUpTo, Restorable, Attached
<1>2. ASSUME s \notin Attached(attached)
      PROVE  UpTo(s) = UpTo(n)
  <2>1. Attached(attached) \subseteq Nat
    BY <1>1, RoomAssumption
  <2> QED
    BY <1>2, <2>1 DEF UpTo
<1>3. CASE s \in Attached(attached)
  <2> DEFINE d == restoreSession(c, s, [attached[s] EXCEPT !.activity = Max({@, stored})])
  <2>1. s \in Listed /\ attached[s] # NoAttachment
    BY <1>1, <1>3 DEF Listed, Attached, NoAttachment
  <2>2. RestoreStep(c, s) = d
    BY <2>1 DEF RestoreStep
  <2>3. RestoredUpTo(d, s)
    BY <1>3, SessionRestored
  <2> QED
    BY <2>2, <2>3
<1>4. CASE s \notin Attached(attached) /\ s \in Listed
  <2>1. attached[s] = NoAttachment /\ s \in Sockets
    BY <1>1, <1>4 DEF Attached, Attachment, Listed
  <2> DEFINE d == Close(c, s)
  <2>2. RestoreStep(c, s) = d
    BY <1>4, <2>1 DEF RestoreStep
  <2>3. /\ Sound(d) /\ Ids(d) = Ids(c) /\ \A i \in Ids(c) : d.sessions[i] = c.sessions[i]
        /\ d.lastActivity = c.lastActivity /\ d.nextId = c.nextId /\ d.told = c.told
    BY <1>1, <2>1, Closes
  <2> HIDE DEF d, s
  <2>4. RestoredUpTo(d, s)
    BY <1>2, <1>4, <2>3 DEF RestoredUpTo
  <2> QED
    BY <2>2, <2>4 DEF s
<1>5. CASE s \notin Attached(attached) /\ s \notin Listed
  <2>1. RestoreStep(c, s) = c
    BY <1>5 DEF RestoreStep
  <2> HIDE DEF s
  <2>2. RestoredUpTo(c, s)
    BY <1>2, <1>5 DEF RestoredUpTo
  <2> QED
    BY <2>1, <2>2 DEF s
<1> QED
  BY <1>3, <1>4, <1>5

\* Nothing that is attached is lost.
Rebuilt(c) ==
    /\ Sound(c) /\ c.told = core.told
    /\ Ids(c) = {attached[s].id : s \in Attached(attached)}
    /\ \A s \in Attached(attached) :
          c.sessions[attached[s].id] = SessionOf(s) /\ attached[s].id <= c.nextId
    /\ Attached(attached) # {} => c.lastActivity = stored

LEMMA Restored ==
  ASSUME Restorable(attached, sock, stored), Accepted(sock),
         core.told \in [Sockets -> SUBSET (Peers \cup {None})]
  PROVE  Rebuilt(restore)
<1> DEFINE last == Max({0} \cup Listed)
<1>1. PICK k \in Nat : \A s \in Sockets : sock[s] = "new" <=> s > k
  BY DEF Accepted
<1>2. \A s \in Listed : s \in 0..k
  <2> SUFFICES ASSUME NEW s \in Listed PROVE s \in 0..k
    OBVIOUS
  <2>1. s \in Sockets /\ sock[s] # "new"
    BY DEF Listed
  <2>2. s \in Nat /\ ~(s > k)
    BY <1>1, <2>1, RoomAssumption
  <2> QED
    BY <2>2
<1>3. last \in Nat /\ \A s \in Listed : s <= last
  <2> DEFINE S == {0} \cup Listed
  <2>1. S \subseteq 0..k /\ S # {} /\ Listed \subseteq S
    BY <1>2
  <2> HIDE DEF S
  <2>2. Max(S) \in S /\ \A u \in S : Max(S) >= u
    BY ONLY <2>1, k \in Nat, LargestExists
  <2>3. S \subseteq Nat
    BY <2>1
  <2>4. Max(S) \in Nat /\ \A s \in Listed : s <= Max(S)
    BY <2>1, <2>2, <2>3
  <2> QED
    BY <2>4 DEF S
<1>4. PICK f : /\ restore = f[last] /\ f[0] = [EmptyCore EXCEPT !.told = core.told]
               /\ \A i \in 1..last : f[i] = RestoreStep(f[i - 1], i)
  BY <1>3, RestoreLoop
<1>5. \A s \in Attached(attached) : s \in Listed /\ s \in Sockets
  BY DEF Restorable, Attached, Listed
<1> HIDE DEF last
<1>6. RestoredUpTo(f[0], 0)
  <2> DEFINE c == [EmptyCore EXCEPT !.told = core.told]
  <2>1. /\ Sound(c) /\ Ids(c) = {} /\ c.lastActivity = 0 /\ c.told = core.told
    BY EmptyIsSound
  <2> HIDE DEF c
  <2>2. UpTo(0) = {}
    <3>1. \A s \in Attached(attached) : s \in Nat \ {0}
      BY <1>5, RoomAssumption
    <3> QED
      BY <3>1 DEF UpTo
  <2>3. RestoredUpTo(c, 0)
    BY <2>1, <2>2 DEF RestoredUpTo
  <2> QED
    BY <1>4, <2>3 DEF c
<1>7. \A i \in 0..last : RestoredUpTo(f[i], i)
  <2> DEFINE T == {i \in 0..last : ~RestoredUpTo(f[i], i)}
  <2>1. SUFFICES ASSUME T # {} PROVE FALSE
    OBVIOUS
  <2>2. T \subseteq Nat
    OBVIOUS
  <2> HIDE DEF T
  <2>3. PICK i \in T : \A j \in T : i <= j
    BY ONLY <2>1, <2>2, LeastExists
  <2>4. i \in 0..last /\ ~RestoredUpTo(f[i], i)
    BY <2>3 DEF T
  <2>5. i # 0
    BY <1>6, <2>4
  <2>6. i - 1 \in Nat /\ i - 1 \in 0..last /\ i \in 1..last /\ ~(i <= i - 1) /\ (i - 1) + 1 = i
    BY <1>3, <2>4, <2>5
  <2>7. i - 1 \notin T
    BY <2>3, <2>6
  <2>8. RestoredUpTo(f[i - 1], i - 1)
    BY <2>6, <2>7 DEF T
  <2> DEFINE c == f[i - 1]
             n == i - 1
  <2>9. n \in Nat /\ RestoredUpTo(c, n) /\ n + 1 = i
    BY <2>6, <2>8
  <2>10. f[i] = RestoreStep(c, i)
    BY <1>4, <2>6
  <2> HIDE DEF c, n
  <2>11. RestoredUpTo(RestoreStep(c, n + 1), n + 1)
    BY <2>9, RestoreTurn
  <2> QED
    BY <2>4, <2>9, <2>10, <2>11
<1>8. RestoredUpTo(restore, last)
  BY <1>3, <1>4, <1>7
<1>9. UpTo(last) = Attached(attached)
  BY <1>3, <1>5 DEF UpTo
<1> QED
  BY <1>8, <1>9 DEF RestoredUpTo, Rebuilt

\* So it fits again.
LEMMA RebuiltFits ==
  ASSUME Restorable(attached, sock, stored), NEW c, Rebuilt(c)
  PROVE  Fits(c, attached, sock, stored, now)
<1>1. ASSUME NEW i \in Ids(c)
      PROVE  /\ SocketOf(c, i) \in Attached(attached) /\ attached[SocketOf(c, i)].id = i
             /\ SavedAs(attached[SocketOf(c, i)], c.sessions[i])
  <2>1. PICK s \in Attached(attached) : i = attached[s].id
    BY DEF Rebuilt
  <2>2. c.sessions[i] = SessionOf(s)
    BY <2>1 DEF Rebuilt
  <2>3. /\ SocketOf(c, i) = s /\ c.sessions[i].openedAt = attached[s].openedAt
        /\ c.sessions[i].peer = attached[s].peer
    BY <2>2 DEF SessionOf, SocketOf
  <2> QED
    BY <2>1, <2>3 DEF SavedAs
<1>2. \A s \in Attached(attached) : attached[s].id <= c.nextId /\ attached[s].id \in Ids(c)
  BY DEF Rebuilt
<1>3. c.order # <<>> => c.lastActivity = stored
  <2> SUFFICES ASSUME c.order # <<>> PROVE c.lastActivity = stored
    OBVIOUS
  <2>1. Members(c) # {}
    BY SomeMember DEF Rebuilt
  <2>2. Members(c) \subseteq Ids(c)
    BY SoundFacts DEF Rebuilt
  <2>3. Attached(attached) # {}
    BY <1>1, <2>1, <2>2
  <2> QED
    BY <2>3 DEF Rebuilt
<1> QED
  BY <1>1, <1>2, <1>3 DEF Fits, Rebuilt

LEMMA CloudFetch ==
  ASSUME ObjectInv, NEW s \in Sockets, Fetch(s)
  PROVE  ObjectInv'
<1> DEFINE d == sweep(core, now)
           st == [sock EXCEPT ![s] = "open"]
<1>1. /\ awake /\ awake' = awake /\ now' = now /\ sock[s] = "new"
      /\ \A t \in Sockets : t < s => sock[t] # "new"
  BY DEF Fetch
<1>2. Before(core) /\ Sound(core) /\ now \in Nat \ {0} /\ Quieted(attached, sock, {})
  BY <1>1, AwakeFacts
<1>3. PICK failing \in {{}, {s}} :
         LET c == open(d, s, now, failing) IN
         IF failing = {} THEN Persist(c, [attached EXCEPT ![s] = Snapshot(c, c.nextId)], st)
                         ELSE Unsaved(Close(c, s), st)
  BY DEF Fetch
<1> DEFINE c == open(d, s, now, failing)
           att == [attached EXCEPT ![s] = Snapshot(c, c.nextId)]
<1>4. /\ failing = {} => Persist(c, att, st)
      /\ failing # {} => Unsaved(Close(c, s), st)
  BY <1>3
<1>5. Outcome(core, d, {}) /\ SweptFrom(core, now, IDLE, d) /\ d = Swept(core, now, IDLE)
  BY <1>2, Sweeps, SweepIs
<1> HIDE DEF d
<1>6. Ready(d, attached, sock)
  <2>1. \A id \in Ids(d) : SocketOf(d, id) \notin {}
    OBVIOUS
  <2> QED
    BY ONLY <1>2, <1>5, <2>1, ReadyNow
<1>7. /\ Sound(d) /\ d.nextId = core.nextId /\ d.nextId \in Nat /\ Ids(d) \subseteq Nat
      /\ Ids(d) \subseteq Ids(core)
  <2>1. Sound(d)
    BY <1>5 DEF SweptFrom
  <2> QED
    BY <1>5, <2>1, SoundFacts DEF SweptFrom
<1>8. /\ Accepted(sock) /\ sock \in [Sockets -> ObjectStates]
      /\ \A u \in Attached(attached) : sock[u] \in {"open", "ending"}
      /\ \A i \in Ids(d) : SocketOf(d, i) \in Attached(attached) /\ i <= d.nextId
  BY <1>6 DEF Ready
<1>9. Unused(d, s)
  <2>1. d.nextId + 1 \notin Ids(d)
    BY <1>7, <1>8
  <2>2. \A i \in Ids(d) : SocketOf(d, i) # s
    BY <1>1, <1>8
  <2> QED
    BY <2>1, <2>2 DEF Unused
<1>10. Opened(d, s, now, failing, c)
  <2>1. now \in Nat
    BY <1>2
  <2> QED
    BY ONLY <1>7, <1>9, <2>1, s \in Sockets, failing \in {{}, {s}}, Opens
<1> HIDE DEF c
<1>11. CASE failing = {}
  <2>1. Opened(d, s, now, {}, c) /\ Persist(c, att, st)
    BY <1>4, <1>10, <1>11
  <2>2. \A u \in Attached(attached) : attached[u].id <= d.nextId
    BY <1>2, <1>7 DEF Before, Fits
  <2>3. Ready(c, att, st)
    BY ONLY <1>1, <1>2, <1>6, <2>1, <2>2, s \in Sockets, FetchReady
  <2> HIDE DEF att, st
  <2>4. awake'
    BY <1>1
  <2> QED
    BY ONLY <1>1, <1>2, <2>1, <2>3, <2>4, PersistKeeps
<1>12. CASE failing # {}
  <2> DEFINE e == Close(c, s)
  <2>1. Unsaved(e, st)
    BY <1>4, <1>12
  <2>2. /\ Sound(c) /\ Ids(c) = Ids(d) /\ \A i \in Ids(d) : c.sessions[i] = d.sessions[i]
        /\ c.order = d.order /\ c.lastActivity = d.lastActivity /\ c.nextId = d.nextId + 1
        /\ c.told = d.told /\ c.closing = d.closing
    BY <1>10, <1>12 DEF Opened
  <2>3. /\ Sound(e) /\ Ids(e) = Ids(c) /\ \A i \in Ids(c) : e.sessions[i] = c.sessions[i]
        /\ e.order = c.order /\ e.lastActivity = c.lastActivity /\ e.nextId = c.nextId
        /\ e.told = c.told /\ e.closing = c.closing \cup {s}
    BY <2>2, Closes
  <2>4. /\ st \in [Sockets -> ObjectStates] /\ Accepted(st) /\ st[s] = "open"
        /\ \A u \in Sockets : u # s => st[u] = sock[u]
    BY <1>1, <1>8, NextAccepted DEF ObjectStates
  <2> HIDE DEF e, st
  <2>5. \A u \in Attached(attached) : u \in Sockets /\ u # s
    BY <1>1, <1>8 DEF Attached
  <2>6. e.nextId >= core.nextId
    BY <1>7, <2>2, <2>3
  <2>7. d.lastActivity = core.lastActivity /\ d.told = core.told
    BY <1>5 DEF SweptFrom
  <2>8. Cut(e, st)
    <3>1. Ids(e) = Ids(d) /\ \A i \in Ids(d) : e.sessions[i] = d.sessions[i]
      BY <2>2, <2>3
    <3>2. e.order = d.order /\ e.lastActivity = core.lastActivity /\ e.told = core.told
          /\ d.closing \subseteq e.closing /\ s \in e.closing
      BY <2>2, <2>3, <2>7
    <3> QED
      BY <1>5, <2>3, <2>4, <2>5, <2>6, <3>1, <3>2 DEF Cut
  <2> QED
    BY ONLY <1>1, <2>1, <2>8, ObjectInv, UnsavedKeeps
<1> QED
  BY <1>11, <1>12

LEMMA CloudRefused ==
  ASSUME ObjectInv, FetchRefused
  PROVE  ObjectInv'
<1> DEFINE d == sweep(core, now)
<1>1. awake /\ awake' = awake /\ now' = now /\ Unsaved(d, sock)
  BY DEF FetchRefused
<1>2. Before(core) /\ Sound(core) /\ now \in Nat \ {0}
  BY <1>1, AwakeFacts
<1>3. SweptFrom(core, now, IDLE, d) /\ d = Swept(core, now, IDLE)
  BY <1>2, Sweeps, SweepIs
<1> HIDE DEF d
<1>4. sock \in [Sockets -> ObjectStates] /\ Accepted(sock)
  BY <1>2 DEF Before, Restorable
<1>5. d.nextId >= core.nextId
  <2>1. d.nextId = core.nextId /\ core.nextId \in Nat
    BY <1>2, <1>3, SoundFacts DEF SweptFrom
  <2> QED
    BY <2>1
<1>6. Cut(d, sock)
  BY <1>3, <1>4, <1>5 DEF Cut, SweptFrom
<1> QED
  BY ONLY <1>1, <1>6, ObjectInv, UnsavedKeeps

LEMMA CloudWake ==
  ASSUME ObjectInv, Wake
  PROVE  ObjectInv'
<1> DEFINE b == restore
           d == sweep(b, now)
<1>1. awake' /\ now' = now /\ Persist(d, attached, sock)
  BY DEF Wake
<1>2. /\ now \in Nat \ {0} /\ Accepted(sock) /\ Restorable(attached, sock, stored)
      /\ core.told \in [Sockets -> SUBSET (Peers \cup {None})]
      /\ Informed(core.told, attached, sock)
  BY DEF ObjectInv
<1>3. Rebuilt(b)
  BY <1>2, Restored
<1> HIDE DEF b
<1>4. Fits(b, attached, sock, stored, now) /\ Sound(b) /\ b.told = core.told
  BY <1>2, <1>3, RebuiltFits DEF Rebuilt
<1>5. Before(b)
  BY <1>2, <1>4 DEF Before
<1>6. Outcome(b, d, {})
  BY <1>4, Sweeps, SweepIs
<1>7. Quieted(attached, sock, {})
  BY <1>2 DEF Quieted, Restorable
<1> HIDE DEF d
<1>8. \A id \in Ids(d) : SocketOf(d, id) \notin {}
  OBVIOUS
<1> QED
  BY ONLY <1>1, <1>2, <1>5, <1>6, <1>7, <1>8, OperationPersists

LEMMA CloudRest ==
  ASSUME ObjectInv, Hibernate \/ Tick \/ (\E s \in Sockets : Vanish(s)) \/ UNCHANGED vars
  PROVE  ObjectInv'
<1>1. CASE Hibernate
  <2> DEFINE e == [EmptyCore EXCEPT !.told = core.told]
  <2>1. e.told = core.told
    BY EmptyIsSound DEF ObjectInv
  <2>2. core' = e /\ ~awake' /\ UNCHANGED <<sock, attached, stored, now>>
    BY <1>1 DEF Hibernate
  <2>3. core'.told = core.told /\ core' = [EmptyCore EXCEPT !.told = core'.told]
    BY <2>1, <2>2
  <2> HIDE DEF e
  <2> QED
    BY <2>2, <2>3 DEF ObjectInv
<1>2. CASE Tick
  <2>1. now' = now + 1 /\ UNCHANGED <<core, awake, sock, attached, stored>>
    BY <1>2 DEF Tick
  <2>2. now \in Nat \ {0} /\ now' \in Nat \ {0}
    BY <2>1 DEF ObjectInv
  <2>3. ASSUME awake PROVE Fits(core, attached, sock, stored, now')
    <3>1. Fits(core, attached, sock, stored, now) /\ Restorable(attached, sock, stored)
      BY <2>3 DEF ObjectInv
    <3>2. ASSUME NEW s \in Attached(attached), Expired(core, attached[s], stored, now)
          PROVE  Expired(core, attached[s], stored, now')
      <4>1. attached[s].openedAt \in Nat /\ stored \in Nat
        BY <3>1 DEF Restorable, Attached, Attachment, NoAttachment
      <4>2. JOIN_TIMEOUT \in Nat /\ IDLE \in Nat
        BY RoomAssumption
      <4> QED
        BY <2>1, <2>2, <3>2, <4>1, <4>2 DEF Expired
    <3> QED
      BY <3>1, <3>2 DEF Fits
  <2> QED
    BY <2>1, <2>2, <2>3 DEF ObjectInv
<1>3. ASSUME NEW s \in Sockets, Vanish(s) PROVE ObjectInv'
  <2>1. sock[s] = "open" /\ sock' = [sock EXCEPT ![s] = "ending"]
        /\ UNCHANGED <<core, awake, attached, stored, now>>
    BY <1>3 DEF Vanish
  <2>2. sock \in [Sockets -> ObjectStates] /\ Accepted(sock) /\ Restorable(attached, sock, stored)
    BY DEF ObjectInv, Restorable
  <2>3. /\ sock' \in [Sockets -> ObjectStates] /\ sock'[s] = "ending"
        /\ \A u \in Sockets : u # s => sock'[u] = sock[u]
    BY <2>1, <2>2 DEF ObjectStates
  <2>4. Accepted(sock')
    <3>1. \A u \in Sockets : sock'[u] = "new" <=> sock[u] = "new"
      BY <2>1, <2>3
    <3> QED
      BY <2>2, <3>1, AcceptedStill
  <2>5. \A u \in Attached(attached) : u \in Sockets
    BY DEF Attached
  <2>6. Restorable(attached, sock', stored)
    BY <2>2, <2>3, <2>5 DEF Restorable
  <2>7. Informed(core.told, attached, sock')
    BY <2>3, <2>5 DEF ObjectInv, Informed, Joined
  <2>8. awake => Fits(core, attached, sock', stored, now)
    BY <2>1, <2>3, <2>5 DEF ObjectInv, Fits
  <2> QED
    BY <2>1, <2>4, <2>6, <2>7, <2>8 DEF ObjectInv
<1>4. CASE UNCHANGED vars
  BY <1>4 DEF vars, ObjectInv
<1> QED
  BY <1>1, <1>2, <1>3, <1>4

LEMMA ObjectInvStep ==
  ASSUME ObjectInv, [Next]_vars
  PROVE  ObjectInv'
<1>1. ASSUME NEW s \in Sockets, Fetch(s) \/ Message(s) \/ Binary(s) \/ CloseEvent(s) PROVE ObjectInv'
  BY <1>1, CloudFetch, CloudMessage, CloudBinary, CloudCloseEvent
<1>2. ASSUME FetchRefused \/ Alarm \/ Wake PROVE ObjectInv'
  BY <1>2, CloudRefused, CloudAlarm, CloudWake
<1>3. ASSUME Hibernate \/ Tick \/ (\E s \in Sockets : Vanish(s)) \/ UNCHANGED vars PROVE ObjectInv'
  BY <1>3, CloudRest
<1> QED
  BY <1>1, <1>2, <1>3, Zenon DEF Next, Activity, Housekeeping

LEMMA ObjectInvInitial ==
  ASSUME Init
  PROVE  ObjectInv
<1> DEFINE told == [s \in Sockets |-> {}]
<1>1. /\ core = EmptyCore /\ awake = TRUE /\ sock = [s \in Sockets |-> "new"] /\ now = 1
      /\ attached = [s \in Sockets |-> NoAttachment] /\ stored = 0
  BY DEF Init
<1>2. told \in [Sockets -> SUBSET (Peers \cup {None})]
  OBVIOUS
<1>3. core = [EmptyCore EXCEPT !.told = told]
  BY <1>1, EmptyCoreIs
<1> HIDE DEF told
<1>4. Sound(core) /\ Ids(core) = {} /\ core.order = <<>> /\ core.told = told
  BY <1>2, <1>3, EmptyIsSound
<1>5. Attached(attached) = {} /\ Joined(attached) = {} /\ Kept(attached) = {}
  <2>1. Attached(attached) = {}
    BY <1>1 DEF Attached, NoAttachment
  <2> QED
    BY <2>1 DEF Joined, Kept
<1>6. Accepted(sock)
  <2>1. \A s \in Sockets : sock[s] = "new" <=> s > 0
    BY <1>1, RoomAssumption
  <2> QED
    BY <2>1 DEF Accepted
<1>7. Restorable(attached, sock, stored)
  <2>1. IsFiniteSet(Kept(attached)) /\ Cardinality(Kept(attached)) <= MAX_ROOM_PEERS
    BY <1>5, FS_EmptySet, RoomAssumption
  <2>2. /\ attached \in [Sockets -> Attachment \cup {NoAttachment}]
        /\ sock \in [Sockets -> ObjectStates] /\ \A s \in Sockets : sock[s] # "open"
    BY <1>1 DEF ObjectStates
  <2> QED
    BY <1>1, <1>5, <2>1, <2>2 DEF Restorable
<1>8. Informed(core.told, attached, sock)
  BY <1>5 DEF Informed
<1>9. Fits(core, attached, sock, stored, now)
  BY <1>4, <1>5 DEF Fits
<1> QED
  BY <1>1, <1>2, <1>4, <1>6, <1>7, <1>8, <1>9 DEF ObjectInv

\* The core that an event would find.
LEMMA CurrentFits ==
  ASSUME ObjectInv
  PROVE  Before(Current) /\ Sound(Current)
<1>1. CASE awake
  <2>1. Current = core
    BY <1>1 DEF Current
  <2> QED
    BY <1>1, <2>1, AwakeFacts
<1>2. CASE ~awake
  <2> DEFINE b == restore
  <2>1. Current = b
    BY <1>2 DEF Current
  <2>2. /\ Accepted(sock) /\ Restorable(attached, sock, stored)
        /\ core.told \in [Sockets -> SUBSET (Peers \cup {None})]
        /\ Informed(core.told, attached, sock)
    BY DEF ObjectInv
  <2>3. Rebuilt(b)
    BY <2>2, Restored
  <2> HIDE DEF b
  <2>4. Fits(b, attached, sock, stored, now) /\ Sound(b) /\ b.told = core.told
    BY <2>2, <2>3, RebuiltFits DEF Rebuilt
  <2> QED
    BY <2>1, <2>2, <2>4 DEF Before
<1> QED
  BY <1>1, <1>2

LEMMA SoundRoster ==
  ASSUME NEW c, Sound(c)
  PROVE  RosterIsSound(c)
<1>1. Members(c) = {id \in Ids(c) : c.sessions[id].peer # None}
  BY DEF Sound, Members, Ids
<1>2. \A i, j \in Ids(c) : i # j => SocketOf(c, i) # SocketOf(c, j)
  BY DEF Sound, OwnSockets, Ids, SocketOf
<1> QED
  BY <1>1, <1>2, RosterCounts DEF RosterIsSound, Sound, Lasting

LEMMA ConsistentFromObject ==
  ASSUME ObjectInv
  PROVE  ObjectIsConsistent /\ ObjectOwnsSessions
<1> DEFINE b == Current
<1>1. Before(b) /\ Sound(b) /\ RosterIsSound(b)
  BY CurrentFits, SoundRoster
<1> HIDE DEF b
<1>2. /\ Fits(b, attached, sock, stored, now) /\ Restorable(attached, sock, stored)
      /\ Informed(b.told, attached, sock)
  BY <1>1 DEF Before
<1>3. /\ Members(b) \subseteq Ids(b) /\ \A i \in Members(b) : b.sessions[i].peer # None
  BY <1>1, SoundFacts
<1>4. \A i \in Ids(b) : /\ SocketOf(b, i) \in Attached(attached)
                        /\ SavedAs(attached[SocketOf(b, i)], b.sessions[i])
  BY <1>2 DEF Fits
<1>5. ASSUME NEW id \in Members(b), sock[SocketOf(b, id)] = "open"
      PROVE  b.told[SocketOf(b, id)] = Roster(b)
  <2>1. SocketOf(b, id) \in Joined(attached)
    BY <1>3, <1>4 DEF Joined, SavedAs
  <2>2. b.told[SocketOf(b, id)] = Kept(attached)
    BY <1>2, <1>5, <2>1 DEF Informed
  <2>3. Kept(attached) = Roster(b)
    BY <1>2, <1>5, KeptIsRoster
  <2> QED
    BY <2>2, <2>3
<1>6. \A i \in Ids(b) : SocketOf(b, i) \in Listed
  BY <1>2, <1>4 DEF Restorable, Listed, Attached
<1>7. ASSUME NEW s \in Sockets, sock[s] = "open"
      PROVE  \E i \in Ids(b) : s = SocketOf(b, i)
  <2>1. s \in Attached(attached)
    BY <1>2, <1>7 DEF Restorable
  <2>2. attached[s].id \in Ids(b)
    BY <1>2, <1>7, <2>1 DEF Fits
  <2>3. SocketOf(b, attached[s].id) = s
    BY <1>2, <2>1, <2>2, OwnSession
  <2> QED
    BY <2>2, <2>3
<1>8. ObjectIsConsistent
  BY <1>1, <1>5 DEF ObjectIsConsistent, b
<1>9. ObjectOwnsSessions
  BY <1>6, <1>7 DEF ObjectOwnsSessions, b
<1> QED
  BY <1>8, <1>9

\* Sleeping loses nothing: the sessions that were lost from memory, and come
\* back from an attachment that nobody updated, end in the next sweep.
LEMMA SleepFromObject ==
  ASSUME ObjectInv
  PROVE  ObjectSleepsExactly
<1> SUFFICES ASSUME awake PROVE ObjectSleepsExactly
  BY DEF ObjectSleepsExactly
<1> DEFINE r == restore
           woken == sweep(r, now)
           swept == sweep(core, now)
<1>1. /\ Before(core) /\ Sound(core) /\ now \in Nat \ {0}
      /\ core.told \in [Sockets -> SUBSET (Peers \cup {None})]
  BY AwakeFacts DEF ObjectInv
<1>2. /\ Fits(core, attached, sock, stored, now) /\ Restorable(attached, sock, stored)
      /\ Accepted(sock)
  BY <1>1 DEF Before
<1>3. Rebuilt(r)
  BY <1>1, <1>2, Restored
<1> HIDE DEF r
<1>4. /\ Sound(r) /\ Ids(r) = {attached[s].id : s \in Attached(attached)}
      /\ \A s \in Attached(attached) : r.sessions[attached[s].id] = SessionOf(s)
      /\ Attached(attached) # {} => r.lastActivity = stored
  BY <1>3 DEF Rebuilt
<1>5. SweptFrom(core, now, IDLE, swept) /\ SweptFrom(r, now, IDLE, woken)
  BY <1>1, <1>4, Sweeps, SweepIs
<1> HIDE DEF woken, swept
<1>6. /\ Members(core) = {i \in Ids(core) : core.sessions[i].peer # None}
      /\ Members(r) = {i \in Ids(r) : r.sessions[i].peer # None}
      /\ Members(woken) = {i \in Ids(woken) : woken.sessions[i].peer # None}
      /\ Members(swept) = {i \in Ids(swept) : swept.sessions[i].peer # None}
  BY <1>1, <1>4, <1>5 DEF Sound, Members, Ids, SweptFrom
<1>7. ASSUME NEW i \in Ids(core)
      PROVE  i \in Ids(r) /\ r.sessions[i] = core.sessions[i]
  <2> DEFINE s == SocketOf(core, i)
  <2>1. s \in Attached(attached) /\ attached[s].id = i /\ SavedAs(attached[s], core.sessions[i])
    BY <1>2 DEF Fits
  <2>2. i \in Ids(r) /\ r.sessions[i] = SessionOf(s)
    BY <1>4, <2>1
  <2>3. core.sessions[i] \in Session
    BY <1>1, SessionsAre DEF Sound, Cores, Ids
  <2>4. core.sessions[i] = [socket |-> core.sessions[i].socket,
                            openedAt |-> core.sessions[i].openedAt, peer |-> core.sessions[i].peer]
    BY <2>3 DEF Session
  <2> QED
    BY <2>1, <2>2, <2>4 DEF SessionOf, SavedAs, SocketOf
<1>8. ASSUME NEW i \in Ids(r), i \notin Ids(core)
      PROVE  \/ i \in Late(r, now)
             \/ core.order = <<>> /\ i \in Members(r) /\ now - stored >= IDLE
  <2>1. PICK s \in Attached(attached) : i = attached[s].id
    BY <1>4
  <2>2. Expired(core, attached[s], stored, now)
    BY <1>2, <1>8, <2>1 DEF Fits
  <2>3. r.sessions[i].peer = attached[s].peer /\ r.sessions[i].openedAt = attached[s].openedAt
    <3>1. r.sessions[i] = SessionOf(s)
      BY <1>4, <2>1
    <3> QED
      BY <3>1 DEF SessionOf
  <2> QED
    BY <1>6, <2>2, <2>3 DEF Expired, Late
\* The members of the one are idle if those of the other are.
<1>9. ASSUME Members(r) # {}
      PROVE  r.room /\ r.lastActivity = stored
  <2>1. r.order # <<>> /\ Members(r) \subseteq Ids(r)
    BY <1>4, <1>9, SomeMember, SoundFacts
  <2>2. r.room /\ Attached(attached) # {}
    BY <1>4, <1>9, <2>1 DEF Sound, Lasting
  <2> QED
    BY <1>4, <2>2
<1>10. ASSUME Members(core) # {}
       PROVE  core.room /\ core.lastActivity = stored /\ core.order # <<>> /\ Members(r) # {}
  <2>1. core.order # <<>>
    BY <1>1, <1>10, SomeMember
  <2>2. Members(r) # {}
    BY <1>6, <1>7, <1>10
  <2> QED
    BY <1>1, <1>2, <2>1, <2>2 DEF Sound, Lasting, Fits
<1>11. ASSUME NEW i \in Ids(core)
       PROVE  i \in Gone(core, now, IDLE) <=> i \in Gone(r, now, IDLE)
  <2>1. i \in Ids(r) /\ r.sessions[i] = core.sessions[i]
    BY <1>7
  <2>2. i \in Late(core, now) <=> i \in Late(r, now)
    BY <2>1 DEF Late
  <2>3. i \in Members(core) <=> i \in Members(r)
    BY <1>6, <2>1
  <2>4. i \in Members(core) => (IdleFor(core, now, IDLE) <=> IdleFor(r, now, IDLE))
    BY <1>9, <1>10 DEF IdleFor
  <2> QED
    BY <2>2, <2>3, <2>4 DEF Gone
<1>12. ASSUME NEW i \in Ids(r), i \notin Ids(core)
       PROVE  i \in Gone(r, now, IDLE)
  BY <1>8, <1>9, <1>12 DEF Gone, IdleFor
<1>13. Ids(r) \ Gone(r, now, IDLE) = Ids(core) \ Gone(core, now, IDLE)
  BY <1>7, <1>11, <1>12
<1>14. woken.sessions = swept.sessions
  <2> DEFINE I == Ids(core) \ Gone(core, now, IDLE)
  <2>1. woken.sessions = [i \in I |-> r.sessions[i]] /\ swept.sessions = [i \in I |-> core.sessions[i]]
    BY <1>5, <1>13 DEF SweptFrom
  <2>2. \A i \in I : r.sessions[i] = core.sessions[i]
    BY <1>7
  <2> HIDE DEF I
  <2> QED
    BY <2>1, <2>2
<1>15. Members(woken) = Members(swept)
  BY <1>6, <1>14 DEF Ids
<1>16. ASSUME swept.order # <<>>
       PROVE  woken.lastActivity = swept.lastActivity
  <2>1. swept.order = core.order /\ swept.lastActivity = core.lastActivity
        /\ woken.lastActivity = r.lastActivity
    BY <1>5, <1>16 DEF SweptFrom
  <2>2. Members(core) # {}
    BY <1>1, <1>16, <2>1, SomeMember
  <2> QED
    BY <1>9, <1>10, <2>1, <2>2
<1> QED
  BY <1>14, <1>15, <1>16 DEF ObjectSleepsExactly, woken, swept, r

-----------------------------------------------------------------------------
(***************************************************************************)
(* The results.                                                            *)
(***************************************************************************)

LEMMA ConsistentFromInv ==
  ASSUME RoomInv
  PROVE  Server!RoomIsConsistent /\ Server!SocketsAreSessions
<1>1. Sound(core) /\ sock \in [Sockets -> States] /\ Held(core, sock) /\ ToldOpen(core, sock)
  BY DEF RoomInv
<1>2. Server!RosterIsSound(core)
  <2>1. Members(core) = {id \in Ids(core) : core.sessions[id].peer # None}
    BY <1>1 DEF Sound, Members, Ids
  <2>2. \A i, j \in Ids(core) : i # j => SocketOf(core, i) # SocketOf(core, j)
    BY <1>1 DEF Held
  <2> QED
    BY <1>1, <2>1, <2>2, RosterCounts, SameRest DEF RosterIsSound, Sound, Lasting
<1>3. Server!RoomIsConsistent
  BY <1>1, <1>2, SameFields DEF Server!RoomIsConsistent, ToldOpen
<1>4. \A id \in Ids(core) : SocketOf(core, id) = id /\ id \in Sockets
  BY <1>1, SoundFacts DEF Held
<1>5. Server!SocketsAreSessions
  BY <1>1, <1>4, SameFields DEF Server!SocketsAreSessions, Held, Server!Clients
<1> QED
  BY <1>3, <1>5

\* The invariant, behind either host.
HostInv ==
    /\ host \in {"cloud", "server"}
    /\ host = "cloud" => ObjectInv
    /\ host = "server" => RoomInv

LEMMA HostInvStep ==
  ASSUME HostInv, [HostNext]_hostVars
  PROVE  HostInv'
<1>1. CASE CloudStep
  <2>1. host = "cloud" /\ host' = host /\ LiveNext
    BY <1>1 DEF CloudStep
  <2>2. Next
    BY <2>1 DEF LiveNext, Next
  <2>3. ObjectInv
    BY <2>1 DEF HostInv
  <2>4. ObjectInv'
    BY <2>2, <2>3, ObjectInvStep
  <2> QED
    BY <2>1, <2>4 DEF HostInv
<1>2. CASE ServerStep
  <2>1. host = "server" /\ host' = host /\ Server!Next
    BY <1>2 DEF ServerStep
  <2>2. RoomInv
    BY <2>1 DEF HostInv
  <2>3. RoomInv'
    BY <2>1, <2>2, RoomInvStep
  <2> QED
    BY <2>1, <2>3 DEF HostInv
<1>3. CASE UNCHANGED hostVars
  <2>1. host' = host /\ UNCHANGED vars /\ UNCHANGED Server!vars
    BY <1>3 DEF hostVars, vars, Server!vars
  <2>2. ObjectInv => ObjectInv'
    BY <2>1, ObjectInvStep
  <2>3. RoomInv => RoomInv'
    BY <2>1, RoomInvStep
  <2> QED
    BY <2>1, <2>2, <2>3 DEF HostInv
<1> QED
  BY <1>1, <1>2, <1>3 DEF HostNext

LEMMA HostInvAlways == HostSpec => []HostInv
<1>1. HostInit => HostInv
  BY ObjectInvInitial, RoomInvInitial DEF HostInit, HostInv
<1>2. HostInv /\ [HostNext]_hostVars => HostInv'
  BY HostInvStep
<1>3. HostSpec => HostInit /\ [][HostNext]_hostVars
  BY DEF HostSpec
<1> QED
  BY <1>1, <1>2, <1>3, PTL

\* Behind either host there is one session per member and socket, and every
\* connected member was told the roster as it is, whatever sends fail in the
\* middle of announce, and whenever the Durable Object loses its memory: for
\* any keys, connections, places and deadlines.
THEOREM RosterIsTold == HostSpec => []RoomIsConsistent
<1>1. HostInv => RoomIsConsistent
  BY ConsistentFromInv, ConsistentFromObject DEF HostInv, RoomIsConsistent
<1> QED
  BY <1>1, HostInvAlways, PTL

\* Behind either host an open connection has its session, and a session has a
\* socket that is not closed: no late close, failed send or replacement ends
\* another one's, not even when an id was handed out again after a sleep.
THEOREM SessionsAreOwned == HostSpec => []SocketsAreSessions
<1>1. HostInv => SocketsAreSessions
  BY ConsistentFromInv, ConsistentFromObject DEF HostInv, SocketsAreSessions
<1> QED
  BY <1>1, HostInvAlways, PTL

\* At any moment the attachments of the Durable Object hold the sessions, the
\* roster and the activity that are in its memory, up to what the next sweep
\* ends anyway: waking it is as if it had not slept.
THEOREM SleepsExactly == HostSpec => []SleepIsExact
<1>1. HostInv => SleepIsExact
  BY SleepFromObject DEF HostInv, SleepIsExact
<1> QED
  BY <1>1, HostInvAlways, PTL

=============================================================================
