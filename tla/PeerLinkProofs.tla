--------------------------- MODULE PeerLinkProofs ---------------------------
(***************************************************************************)
(* Proofs about PeerLink, for every number of repetitions of the first     *)
(* offer and every limit above it: no end accuses the other one of         *)
(* anything, and ends that have settled agree.                             *)
(*                                                                         *)
(* The invariant has three parts.                                          *)
(*                                                                         *)
(*   - The handshake (Flags, Channel).  What is on the way to an end is    *)
(*     what the other one has said and this one has not heard: first       *)
(*     HELLO_INIT, then HELLO, then the rest.  So nothing arrives out of   *)
(*     turn, and few messages arrive before authentication.                *)
(*                                                                         *)
(*   - The descriptions (Own).  Those in the queue and in the signaling,   *)
(*     taken together, come in the order of their revisions; only the      *)
(*     first offer is repeated.  There is one answer at the most, and few  *)
(*     offers, so that the queue is short (QueueIsShort).                  *)
(*                                                                         *)
(*   - The two ends (Pair).  An offer that is still to be applied is the   *)
(*     one its end waits for, an answer on its way answers it, and, while  *)
(*     no signal is lost, an end that waits is going to be answered.       *)
(*     Ends without an answer between them have the same descriptions in   *)
(*     force.                                                              *)
(*                                                                         *)
(* In the lemmas e is an end and p the other one; x and y are their        *)
(* states, s and t the signals (or the game channels) towards them, b and  *)
(* c the counts of their bulk channels, A and B the descriptions on their  *)
(* way.  x becomes z, and y becomes w.                                     *)
(***************************************************************************)
EXTENDS PeerLink, FiniteSetTheorems, SequenceTheorems, TLAPS

\* The descriptions, candidates and jobs.
Kinds == {"negotiate", "offer", "answer", "candidate"}
Signal == [kind : Kinds, revision : Nat, reply : Nat]
\* The messages of the game channel,
Words == {"HELLO_INIT", "HELLO", "data", "READY", "PING", "PONG"}
\* and those that come before authentication.
Greetings == {"HELLO_INIT", "HELLO"}

\* An end is a record of these fields.
Fields ==
  {"signaling", "current", "needed", "restart", "carries", "net", "open", "grace", "gather",
   "heard", "revision", "offered", "seen", "ignored", "early", "jobs", "stage",
   "negotiating", "retries", "initSent", "nonce", "helloSent", "helloVerified",
   "pendingHello", "authenticated", "ready", "queued", "unauth", "missed", "awaiting",
   "down", "out", "bulk", "post"}
Shape(x) == x = [f \in Fields |-> x[f]]

\* The fields an argument reads have their types.
Typed(x) ==
  /\ Shape(x)
  /\ \A f \in {"gather", "revision", "offered", "seen", "retries", "queued", "unauth",
               "missed"} : x[f] \in Nat
  /\ \A f \in {"open", "initSent", "nonce", "helloSent", "helloVerified", "pendingHello",
               "authenticated", "ready", "awaiting", "negotiating"} : x[f] \in BOOLEAN
  /\ x.jobs \in Seq(Signal)

\* Nothing is left to be handed over.
Silent(x) == x.out = <<>> /\ x.bulk = 0 /\ x.post = <<>>

-----------------------------------------------------------------------------
(* The handshake. *)

\* One end: what it has said and heard follow from each other,
Flags(x) ==
  /\ x.net # "new" => x.open
  /\ x.open => x.current # NoSession /\ x.initSent
  /\ x.initSent => x.open
  /\ x.nonce => x.open
  /\ x.helloSent => x.nonce /\ ~x.pendingHello
  /\ x.pendingHello => x.nonce
  /\ x.helloVerified => x.helloSent
  /\ x.authenticated <=> x.helloVerified

\* and it has counted no more messages than it needed, nor missed three answers.
Counts(x) ==
  /\ ~x.nonce => x.unauth = 0
  /\ ~x.authenticated /\ ~x.pendingHello => x.unauth <= 1
  /\ x.missed < 3

\* A HELLO only waits for a description.
Waits(x) == x.pendingHello => x.signaling # "stable"

\* The game channel towards x, from y: s is on its way, and b on the bulk channel.
Heard(x) == x.helloVerified \/ x.pendingHello
Channel(x, y, s, b) ==
  /\ \A i \in 1..Len(s) :
       /\ s[i] = "HELLO_INIT" => i = 1 /\ ~x.nonce
       /\ i = 1 /\ ~x.nonce => s[i] = "HELLO_INIT"
       /\ s[i] = "HELLO" => ~Heard(x) /\ i = (IF x.nonce THEN 1 ELSE 2)
       /\ s[i] \notin Greetings =>
            x.helloSent /\ (x.helloVerified \/ \E k \in 1..Len(s) : k < i /\ s[k] = "HELLO")
  /\ b > 0 => x.authenticated
  /\ x.missed > 0 => ~Alive(y)
  /\ Alive(y) =>
       /\ ~y.initSent => s = <<>> /\ ~x.nonce
       /\ y.initSent /\ ~x.nonce => s # <<>>
       /\ ~y.helloSent => ~Heard(x) /\ \A i \in 1..Len(s) : s[i] = "HELLO_INIT"
       /\ y.helloSent => Heard(x) \/ \E k \in 1..Len(s) : s[k] = "HELLO"
       /\ ~y.authenticated => ~x.ready /\ \A i \in 1..Len(s) : s[i] \in Greetings

-----------------------------------------------------------------------------
(* The descriptions on their way to an end, in its jobs and in the signaling. *)

Descriptions(q, s) == {m \in ToSet(q) \cup ToSet(s) : IsDescription(m)}
In(x, s) == Descriptions(x.jobs, s)
Offers(A) == {m \in A : m.kind = "offer"}
Answers(A) == {m \in A : m.kind = "answer"}
FirstOffer(m) == m.kind = "offer" /\ m.revision = 1
Fresh(x, m) == m.revision > x.seen

\* They arrive in the order they were made; only the first offer is repeated.
Before(m, n) ==
  IsDescription(m) /\ IsDescription(n) =>
    m.revision < n.revision \/ (FirstOffer(m) /\ FirstOffer(n))
Ordered(q) == \A i, k \in 1..Len(q) : i < k => Before(q[i], q[k])
Sorted(q, s) ==
  /\ Ordered(q) /\ Ordered(s)
  /\ \A i \in 1..Len(q), k \in 1..Len(s) : Before(q[i], s[k])
Count(q) == Cardinality({i \in 1..Len(q) : FirstOffer(q[i])})

\* The job an end works on.
Works(e, x) ==
  /\ x.signaling \in {"stable", "local", "remote"}
  /\ x.stage \in {"idle", "offer", "remote", "answer"}
  /\ x.offered # 0 <=> x.signaling = "local"
  /\ x.stage = "answer" <=> x.signaling = "remote"
  /\ x.offered <= x.revision
  /\ x.stage # "idle" => x.jobs # <<>>
  /\ x.stage = "offer" =>
       Head(x.jobs).kind = "negotiate" /\ x.signaling = "stable" /\ x.revision > 0
  /\ x.stage = "remote" =>
       /\ IsDescription(Head(x.jobs)) /\ Fresh(x, Head(x.jobs))
       /\ Head(x.jobs).kind = "answer" => x.offered # 0 /\ Head(x.jobs).reply = x.offered
       /\ Head(x.jobs).kind = "offer" /\ e # Polite => x.signaling = "stable"
  /\ x.stage = "answer" =>
       Head(x.jobs).kind = "offer" /\ Head(x.jobs).revision = x.seen /\ x.revision > 0

\* The jobs are descriptions, and one of its own at the most.
Queue(x) ==
  \A i \in 1..Len(x.jobs) :
    /\ x.jobs[i].kind # "candidate"
    /\ x.jobs[i].kind = "negotiate" =>
         x.negotiating /\ \A k \in 1..Len(x.jobs) : x.jobs[k].kind = "negotiate" => k = i

\* What is on its way to an end: A.
Known(e, x, A) ==
  /\ \A m \in A :
       /\ m.revision > 0
       /\ Fresh(x, m) \/ FirstOffer(m) \/ (x.stage = "answer" /\ m.revision = x.seen)
  /\ \A a \in Answers(A) :
       /\ x.offered # 0 /\ a.reply = x.offered
       /\ \A b \in Answers(A) : a.revision = b.revision
       /\ e = Polite => \A m \in Offers(A) : Fresh(x, m) => m.revision > a.revision
  /\ \A a, b, c \in Offers(A) :
       Fresh(x, a) /\ Fresh(x, b) /\ Fresh(x, c) =>
         a.revision = b.revision \/ b.revision = c.revision \/ a.revision = c.revision

\* What is on its way to an end is in order, and the end can make something of it.
Own(e, x, s) ==
  /\ Works(e, x) /\ Queue(x) /\ Known(e, x, In(x, s)) /\ Sorted(x.jobs, s)
  /\ Count(x.jobs) + Count(s) <= 1 + OfferRetries

-----------------------------------------------------------------------------
(* The two ends together: A is on its way to x, from y. *)

\* An end makes an offer or an answer: its revision is taken, and not yet sent.
Sending(y) == y.stage \in {"offer", "answer"}

\* Nothing comes from the future.
Sent(x, A, y) ==
  /\ \A m \in A : m.revision <= y.revision /\ (Sending(y) => m.revision < y.revision)
  /\ x.seen <= y.revision /\ (Sending(y) => x.seen < y.revision)

\* The impolite end ignores the offers that collide with its own.
Ignores(e, x, y) == e # Polite /\ x.offered # 0 /\ x.offered <= y.seen

\* An offer that is still to be applied is the one y waits for, unless y gave it up.
Outstanding(e, x, A, y) ==
  \A m \in Offers(A) : Fresh(x, m) =>
    /\ y.offered = m.revision \/ Ignores(e, x, y)
    /\ \A n \in Offers(A) : Fresh(x, n) =>
         m.revision = n.revision \/ y.offered \in {m.revision, n.revision}

\* An answer on its way is to the offer x waits for, and y has it in force.
Answered(e, x, A, y, B) ==
  \A a \in Answers(A) :
    /\ x.offered <= y.seen
    /\ y.current = [offerer |-> e, revision |-> x.offered]
    /\ y.stage # "answer" /\ Answers(B) = {}
    /\ y.offered # 0 => y.offered > a.revision
    /\ \A m \in Offers(A) : Fresh(x, m) /\ m.revision > a.revision => y.offered = m.revision

\* The offer an end is answering is the one the other end waits for.
Answering(x, y) == x.stage = "answer" => x.seen # 0 /\ y.offered = x.seen

\* While nothing is lost an end that waits is going to be answered,
Served(e, x, A, y, B) ==
  x.offered # 0 =>
    \/ \E m \in Offers(B) : m.revision = x.offered /\ Fresh(y, m)
    \/ y.stage = "answer" \/ Answers(A) # {}
    \/ e = Polite /\ y.offered > x.seen

\* and the ends agree when no answer is on its way.
Agree(x, A, y, B) == Answers(A) = {} /\ Answers(B) = {} => x.current = y.current

Toward(e, x, A, y, B, lossless) ==
  /\ Sent(x, A, y) /\ Outstanding(e, x, A, y) /\ Answered(e, x, A, y, B) /\ Answering(x, y)
  /\ lossless => Served(e, x, A, y, B) /\ Agree(x, A, y, B)

Pair(e, x, s, y, t, lossless) ==
  /\ Toward(e, x, In(x, s), y, In(y, t), lossless)
  /\ Count(x.jobs) + Count(s) + y.retries <= 1 + OfferRetries

-----------------------------------------------------------------------------
(* The invariant. *)

\* Why an end closes, when nobody is to blame: it never accuses the other one.
Reasons ==
  {"vanished", "signal-error", "timeout", "channel-closed", "disconnected-timeout",
   "ping-timeout"}

\* An end that is up, and what is on its way to it.
Living(e) ==
  LET x == end[e]  y == end[Peer(e)] IN
  /\ Typed(x) /\ Silent(x) /\ Flags(x) /\ Counts(x) /\ Waits(x)
  /\ Channel(x, y, game[e], bulk[e])
  /\ Own(e, x, signals[e])
  /\ Alive(y) => Pair(e, x, signals[e], y, signals[Peer(e)], "lost" \notin troubles)

\* An end that is down: nothing goes to it any more, and if pings had no answer the
\* other one is down too.
Closed(e) ==
  /\ end[e].down \in Reasons
  /\ end[e].down = "ping-timeout" => ~Up(Peer(e))
  /\ signals[e] = <<>> /\ game[e] = <<>> /\ bulk[e] = 0

\* The types of the state; that of an end is Typed.
TypeOK ==
  /\ DOMAIN end = Ends
  /\ signals \in [Ends -> Seq(Signal)]
  /\ game \in [Ends -> Seq(Words)]
  /\ bulk \in [Ends -> Nat]

\* The inductive invariant.
Inv == TypeOK /\ \A e \in Ends : IF Up(e) THEN Living(e) ELSE Closed(e)

-----------------------------------------------------------------------------
(***************************************************************************)
(* What a step of an end does to what it knows of the descriptions on      *)
(* their way to it: x becomes z.                                           *)
(***************************************************************************)

\* The numbers the arguments about descriptions compute with.
Numbers(x) == x.revision \in Nat /\ x.offered \in Nat /\ x.seen \in Nat

\* What an end and what is on its way to it say by themselves.
Alone(e, x, A) ==
  /\ Works(e, x) /\ Numbers(x)
  /\ A \subseteq Signal /\ \A m \in A : IsDescription(m)

\* m is the next of A, and what remains of A without it comes after it.
Taken(m, A, rest) ==
  /\ m \in A /\ rest \subseteq A /\ A \subseteq rest \cup {m}
  /\ \A n \in rest : Before(m, n)

\* Taking something away, while nothing else changes.
LEMMA KnownLess ==
  ASSUME NEW e, NEW x, NEW z, NEW A, NEW rest \in SUBSET A, Known(e, x, A),
         z.offered = x.offered, z.seen = x.seen, x.stage = "answer" => z.stage = "answer"
  PROVE  Known(e, z, rest)
BY DEF Known, Fresh, Answers, Offers

\* A stable end sends an offer.
LEMMA KnownOffer ==
  ASSUME NEW e, NEW x, NEW z, NEW A, Known(e, x, A), x.offered = 0,
         z.seen = x.seen, x.stage # "answer"
  PROVE  Known(e, z, A)
BY DEF Known, Fresh

\* An answer is applied: it was the only one.
LEMMA KnownAnswered ==
  ASSUME NEW e, NEW x, NEW z, NEW A, NEW m, NEW rest,
         Known(e, x, A), Alone(e, x, A), Taken(m, A, rest), m.kind = "answer",
         x.stage = "remote", z.seen = m.revision
  PROVE  /\ Known(e, z, rest) /\ Answers(rest) = {} /\ Fresh(x, m)
         /\ \A n \in Offers(rest) : n.revision > m.revision /\ Fresh(x, n) /\ Fresh(z, n)
<1>1. /\ m \in Answers(A) /\ m \in A /\ rest \subseteq A /\ Offers(rest) \subseteq Offers(A)
      /\ m \in Signal /\ ~FirstOffer(m) /\ IsDescription(m)
      /\ Numbers(x) /\ A \subseteq Signal
  BY DEF Taken, Answers, Offers, Alone, FirstOffer, IsDescription
<1>2. Fresh(x, m)
  BY <1>1 DEF Known
<1>4. \A n \in rest : m.revision < n.revision
  BY <1>1 DEF Taken, Before, Alone
<1>5. Answers(rest) = {}
  <2> SUFFICES ASSUME NEW a \in Answers(rest)
               PROVE  FALSE
    OBVIOUS
  <2>1. a \in Answers(A) /\ a \in rest
    BY <1>1 DEF Answers
  <2>2. a.revision = m.revision
    BY <2>1, <1>1 DEF Known
  <2>3. m.revision < a.revision
    BY <2>1, <1>4
  <2> QED
    BY <2>2, <2>3, <1>1 DEF Signal
<1>6. \A n \in rest : n.revision > m.revision /\ Fresh(x, n) /\ Fresh(z, n)
  <2> SUFFICES ASSUME NEW n \in rest
               PROVE  n.revision > m.revision /\ Fresh(x, n) /\ Fresh(z, n)
    OBVIOUS
  <2>1. m.revision < n.revision /\ n \in Signal
    BY <1>1, <1>4
  <2> QED
    BY <2>1, <1>1, <1>2 DEF Fresh, Signal, Numbers
<1>7. Known(e, z, rest)
  <2>1. \A n \in rest : n.revision > 0 /\ Fresh(z, n)
    BY <1>1, <1>6 DEF Known
  <2>2. \A a, b, c \in Offers(rest) :
          a.revision = b.revision \/ b.revision = c.revision \/ a.revision = c.revision
    BY <1>1, <1>6 DEF Known, Offers
  <2> QED
    BY <2>1, <2>2, <1>5 DEF Known
<1> QED
  BY <1>2, <1>5, <1>6, <1>7 DEF Offers

\* An offer is applied: no answer is on its way.
LEMMA KnownAccept ==
  ASSUME NEW e, NEW x, NEW z, NEW A, NEW m,
         Known(e, x, A), Alone(e, x, A), m \in A, \A n \in A : n = m \/ Before(m, n),
         m.kind = "offer", Fresh(x, m), e # Polite => x.offered = 0,
         z.stage = "answer", z.seen = m.revision
  PROVE  /\ Known(e, z, A) /\ Answers(A) = {} /\ m.revision > 0
         /\ \A n \in A : Fresh(z, n) => Fresh(x, n)
<1>1. /\ Numbers(x) /\ A \subseteq Signal /\ m \in Signal /\ m \in Offers(A) /\ IsDescription(m)
      /\ m.revision > 0
  BY DEF Alone, Offers, IsDescription, Known
<1>2. Answers(A) = {}
  <2> SUFFICES ASSUME NEW a \in Answers(A)
               PROVE  FALSE
    OBVIOUS
  <2>1. x.offered # 0 /\ (e = Polite => m.revision > a.revision)
    BY <1>1 DEF Known
  <2>2. a \in A /\ IsDescription(a) /\ a # m /\ ~FirstOffer(a) /\ a \in Signal
    BY <1>1 DEF Answers, IsDescription, FirstOffer
  <2>3. m.revision < a.revision
    BY <2>2, <1>1 DEF Before
  <2> QED
    BY <2>1, <2>2, <2>3, <1>1 DEF Signal
<1>3. \A n \in A : Fresh(z, n) => Fresh(x, n)
  BY <1>1 DEF Fresh, Signal, Numbers
<1>4. \A n \in A : n = m \/ Fresh(z, n) \/ FirstOffer(n)
  BY <1>1 DEF Before, Alone, Fresh, Signal
<1>5. \A n \in A : n.revision > 0
  BY DEF Known
<1>6. \A a, b, c \in Offers(A) :
        Fresh(z, a) /\ Fresh(z, b) /\ Fresh(z, c) =>
          a.revision = b.revision \/ b.revision = c.revision \/ a.revision = c.revision
  BY <1>3 DEF Known, Offers
<1>7. Known(e, z, A)
  BY <1>2, <1>4, <1>5, <1>6 DEF Known
<1> QED
  BY <1>1, <1>2, <1>3, <1>7

\* The offer is answered and done with.
LEMMA KnownAnswer ==
  ASSUME NEW e, NEW x, NEW z, NEW A, NEW m, NEW rest,
         Known(e, x, A), Alone(e, x, A), Taken(m, A, rest),
         m.revision = x.seen, x.stage = "answer", z.seen = x.seen
  PROVE  Known(e, z, rest) /\ Answers(A) = {} /\ Answers(rest) = {}
<1>1. /\ x.offered = 0 /\ rest \subseteq A /\ A \subseteq Signal /\ Numbers(x)
      /\ Offers(rest) \subseteq Offers(A) /\ IsDescription(m) /\ m \in Signal
  BY DEF Alone, Works, Taken, Offers
<1>2. Answers(A) = {} /\ Answers(rest) = {}
  BY <1>1 DEF Known, Answers
<1>3. \A n \in rest : n.revision > 0 /\ (Fresh(z, n) \/ FirstOffer(n))
  <2> SUFFICES ASSUME NEW n \in rest
               PROVE  n.revision > 0 /\ (Fresh(z, n) \/ FirstOffer(n))
    OBVIOUS
  <2>1. n.revision > 0 /\ (Fresh(x, n) \/ FirstOffer(n) \/ n.revision = x.seen)
    BY <1>1 DEF Known
  <2>2. m.revision < n.revision \/ FirstOffer(n)
    BY <1>1 DEF Taken, Before, Alone
  <2> QED
    BY <2>1, <2>2, <1>1 DEF Fresh, Signal
<1>4. \A i, j, k \in Offers(rest) :
        Fresh(z, i) /\ Fresh(z, j) /\ Fresh(z, k) =>
          i.revision = j.revision \/ j.revision = k.revision \/ i.revision = k.revision
  BY <1>1 DEF Known, Fresh
<1> QED
  BY <1>2, <1>3, <1>4 DEF Known

-----------------------------------------------------------------------------
(***************************************************************************)
(* What a step of one end does to what both know of each other.  x becomes *)
(* z; A is on its way to it, B to the other end.                           *)
(***************************************************************************)

\* The two ends know of each other all that Toward and Sent say,
Both(e, x, A, p, y, B, l) ==
  /\ Toward(e, x, A, y, B, l) /\ Toward(p, y, B, x, A, l)
  /\ Known(e, x, A) /\ Known(p, y, B)

\* and each of them is sound by itself.
Ready(e, x, A, p, y, B) ==
  e # p /\ Polite \in {e, p} /\ Alone(e, x, A) /\ Alone(p, y, B)

\* Only what the arguments read matters.
LEMMA BothFrame ==
  ASSUME NEW e, NEW p, NEW x, NEW y, NEW A, NEW B, NEW l, NEW z, NEW w,
         Both(e, x, A, p, y, B, l),
         z.revision = x.revision, z.offered = x.offered, z.seen = x.seen,
         z.current = x.current, z.stage = x.stage,
         w.revision = y.revision, w.offered = y.offered, w.seen = y.seen,
         w.current = y.current, w.stage = y.stage
  PROVE  Both(e, z, A, p, w, B, l)
<1>1. Known(e, z, A) /\ Known(p, w, B)
  BY KnownLess DEF Both
<1>2. Sent(z, A, w) /\ Sent(w, B, z)
  BY DEF Both, Toward, Sent, Sending
<1>3. Outstanding(e, z, A, w) /\ Outstanding(p, w, B, z)
  BY DEF Both, Toward, Outstanding, Ignores, Fresh
<1>4. Answered(e, z, A, w, B) /\ Answered(p, w, B, z, A)
  BY DEF Both, Toward, Answered, Fresh
<1>5. Answering(z, w) /\ Answering(w, z)
  BY DEF Both, Toward, Answering
<1>6. l => Served(e, z, A, w, B) /\ Served(p, w, B, z, A)
  BY DEF Both, Toward, Served, Fresh
<1>7. l => Agree(z, A, w, B) /\ Agree(w, B, z, A)
  BY DEF Both, Toward, Agree
<1> QED
  BY <1>1, <1>2, <1>3, <1>4, <1>5, <1>6, <1>7 DEF Both, Toward

\* An offer is begun: it gets its revision.
LEMMA BothStart ==
  ASSUME NEW e, NEW p, NEW x, NEW y, NEW A, NEW B, NEW l, NEW z,
         Both(e, x, A, p, y, B, l), Ready(e, x, A, p, y, B),
         x.stage = "idle", z.stage = "offer", z.revision = x.revision + 1,
         z.offered = x.offered, z.seen = x.seen, z.current = x.current
  PROVE  Both(e, z, A, p, y, B, l)
<1>1. Known(e, z, A) /\ Known(p, y, B)
  BY KnownLess DEF Both
<1>2. Sent(z, A, y) /\ Sent(y, B, z)
  BY DEF Both, Toward, Sent, Sending, Ready, Alone, Numbers, Signal
<1>3. Outstanding(e, z, A, y) /\ Outstanding(p, y, B, z)
  BY DEF Both, Toward, Outstanding, Ignores, Fresh
<1>4. Answered(e, z, A, y, B) /\ Answered(p, y, B, z, A)
  BY DEF Both, Toward, Answered, Fresh
<1>5. Answering(z, y) /\ Answering(y, z)
  BY DEF Both, Toward, Answering
<1>6. l => Served(e, z, A, y, B) /\ Served(p, y, B, z, A)
  BY DEF Both, Toward, Served, Fresh
<1>7. l => Agree(z, A, y, B) /\ Agree(y, B, z, A)
  BY DEF Both, Toward, Agree
<1> QED
  BY <1>1, <1>2, <1>3, <1>4, <1>5, <1>6, <1>7 DEF Both, Toward

\* The browser is asked to apply the next description.
LEMMA BothApply ==
  ASSUME NEW e, NEW p, NEW x, NEW y, NEW A, NEW B, NEW l, NEW z,
         Both(e, x, A, p, y, B, l), Ready(e, x, A, p, y, B),
         x.stage = "idle", z.stage = "remote", z.revision = x.revision,
         z.offered = x.offered, z.seen = x.seen, z.current = x.current
  PROVE  Both(e, z, A, p, y, B, l)
<1>1. Known(e, z, A) /\ Known(p, y, B)
  BY KnownLess DEF Both
<1>2. Sent(z, A, y) /\ Sent(y, B, z)
  BY DEF Both, Toward, Sent, Sending, Ready, Alone, Numbers, Signal
<1>3. Outstanding(e, z, A, y) /\ Outstanding(p, y, B, z)
  BY DEF Both, Toward, Outstanding, Ignores, Fresh
<1>4. Answered(e, z, A, y, B) /\ Answered(p, y, B, z, A)
  BY DEF Both, Toward, Answered, Fresh
<1>5. Answering(z, y) /\ Answering(y, z)
  BY DEF Both, Toward, Answering
<1>6. l => Served(e, z, A, y, B) /\ Served(p, y, B, z, A)
  BY DEF Both, Toward, Served, Fresh
<1>7. l => Agree(z, A, y, B) /\ Agree(y, B, z, A)
  BY DEF Both, Toward, Agree
<1> QED
  BY <1>1, <1>2, <1>3, <1>4, <1>5, <1>6, <1>7 DEF Both, Toward

\* The offer is in force here and sent.
LEMMA BothOffer ==
  ASSUME NEW e, NEW p, NEW x, NEW y, NEW A, NEW B, NEW l, NEW z, NEW r \in Nat,
         Both(e, x, A, p, y, B, l), Ready(e, x, A, p, y, B),
         x.stage = "offer", z.stage = "idle", z.revision = x.revision,
         z.offered = x.revision, z.seen = x.seen, z.current = x.current
  PROVE  LET m == Description("offer", x.revision, r) IN
         Both(e, z, A, p, y, B \cup {m}, l)
<1> DEFINE m == Description("offer", x.revision, r)
           C == B \cup {m}
<1>1. /\ x.signaling = "stable" /\ x.offered = 0 /\ x.revision > 0 /\ Numbers(x) /\ Numbers(y)
      /\ e # p /\ Polite \in {e, p} /\ A \subseteq Signal /\ B \subseteq Signal
      /\ z.stage # "answer" /\ x.stage # "answer" /\ ~Sending(z)
  BY DEF Ready, Alone, Works, Sending
<1>2. m.kind = "offer" /\ m.revision = x.revision
  BY DEF Description
<1> HIDE DEF m
<1>3. Answers(A) = {} /\ Answers(C) = Answers(B) /\ Offers(C) = Offers(B) \cup {m}
  BY <1>1, <1>2 DEF Both, Known, Answers, Offers
<1>4. /\ \A n \in B : n.revision < x.revision
      /\ y.seen < x.revision
  BY <1>1 DEF Both, Toward, Sent, Sending
<1>5. Known(e, z, A)
  BY <1>1, KnownOffer DEF Both
<1>6. \A n \in Offers(B) : Fresh(y, n) => Ignores(p, y, x)
  BY <1>1 DEF Both, Known, Toward, Outstanding, Offers
<1>7. \A n, k \in Offers(B) : Fresh(y, n) /\ Fresh(y, k) => n.revision = k.revision
  BY <1>1 DEF Both, Known, Toward, Outstanding, Offers
<1>8. Known(p, y, C)
  <2>1. \A n \in C : /\ n.revision > 0
                     /\ Fresh(y, n) \/ FirstOffer(n) \/ (y.stage = "answer" /\ n.revision = y.seen)
    BY <1>1, <1>2, <1>4 DEF Both, Known, Fresh
  <2>2. ASSUME NEW a \in Answers(C)
        PROVE  /\ y.offered # 0 /\ a.reply = y.offered
               /\ \A b \in Answers(C) : a.revision = b.revision
               /\ p = Polite => \A n \in Offers(C) : Fresh(y, n) => n.revision > a.revision
    BY <1>2, <1>3, <1>4 DEF Both, Known, Answers
  <2>3. ASSUME NEW a \in Offers(C), NEW b \in Offers(C), NEW c \in Offers(C),
               Fresh(y, a), Fresh(y, b), Fresh(y, c)
        PROVE  a.revision = b.revision \/ b.revision = c.revision \/ a.revision = c.revision
    BY <2>3, <1>3, <1>7
  <2> QED
    BY <2>1, <2>2, <2>3, ZenonT(60) DEF Known
<1>9. Sent(z, A, y) /\ Sent(y, C, z)
  <2>1. Sent(z, A, y)
    BY <1>1 DEF Both, Toward, Sent, Sending
  <2>2. \A n \in C : n.revision <= z.revision
    BY <1>1, <1>2, <1>4 DEF Signal, Numbers
  <2>3. y.seen <= z.revision
    BY <1>1, <1>4 DEF Numbers
  <2> QED
    BY <2>1, <2>2, <2>3, <1>1 DEF Sent
<1>10. Outstanding(e, z, A, y)
  <2>1. ASSUME NEW n \in Offers(A), Fresh(x, n)
        PROVE  y.offered = n.revision
    BY <2>1, <1>1 DEF Both, Toward, Outstanding, Ignores
  <2> QED
    BY <2>1 DEF Outstanding, Fresh
<1>11. Outstanding(p, y, C, z)
  <2>1. \A n \in Offers(B) : Fresh(y, n) => Ignores(p, y, z)
    BY <1>6 DEF Ignores
  <2> QED
    BY <2>1, <1>2, <1>3, <1>7 DEF Outstanding
<1>12. Answered(e, z, A, y, C)
  BY <1>3 DEF Answered
<1>13. Answered(p, y, C, z, A)
  BY <1>1, <1>2, <1>3, <1>4, <1>6 DEF Both, Toward, Answered, Answers, Offers, Ignores, Known
<1>14. Answering(z, y) /\ Answering(y, z)
  BY <1>1 DEF Both, Toward, Answering
<1>15. ASSUME l
       PROVE  Served(e, z, A, y, C) /\ Served(p, y, C, z, A)
  <2>1. m \in Offers(C) /\ m.revision = z.offered /\ Fresh(y, m)
    BY <1>2, <1>3, <1>4 DEF Fresh
  <2>2. Served(p, y, B, x, A)
    BY <1>15 DEF Both, Toward
  <2> QED
    BY <2>1, <2>2, <1>1, <1>3 DEF Served, Fresh
<1>16. l => Agree(z, A, y, C) /\ Agree(y, C, z, A)
  BY <1>3 DEF Both, Toward, Agree
<1> QED
  BY <1>5, <1>8, <1>9, <1>10, <1>11, <1>12, <1>13, <1>14, <1>15, <1>16
     DEF Both, Toward, m

\* An offer is refused: it is a repetition, or it collides with the one of an end
\* that does not give way.
LEMMA BothDrop ==
  ASSUME NEW e, NEW p, NEW x, NEW y, NEW A, NEW B, NEW l, NEW z, NEW m, NEW rest,
         Both(e, x, A, p, y, B, l), Ready(e, x, A, p, y, B), Taken(m, A, rest),
         m.kind = "offer", ~Fresh(x, m) \/ (e # Polite /\ x.offered # 0),
         x.stage = "idle", z.stage = "idle", z.revision = x.revision,
         z.offered = x.offered, z.seen = x.seen, z.current = x.current
  PROVE  Both(e, z, rest, p, y, B, l)
<1>1. /\ Answers(rest) = Answers(A) /\ Offers(rest) \subseteq Offers(A) /\ rest \subseteq A
      /\ Offers(A) \subseteq Offers(rest) \cup {m}
  BY DEF Taken, Answers, Offers
<1>2. Known(e, z, rest) /\ Known(p, y, B)
  BY <1>1, KnownLess DEF Both
<1>3. Sent(z, rest, y) /\ Sent(y, B, z)
  BY <1>1 DEF Both, Toward, Sent, Sending
<1>4. Outstanding(e, z, rest, y) /\ Outstanding(p, y, B, z)
  BY <1>1 DEF Both, Toward, Outstanding, Ignores, Fresh
<1>5. Answered(e, z, rest, y, B) /\ Answered(p, y, B, z, rest)
  BY <1>1 DEF Both, Toward, Answered, Fresh
<1>6. Answering(z, y) /\ Answering(y, z)
  BY DEF Both, Toward, Answering
<1>7. ASSUME l
      PROVE  Served(e, z, rest, y, B) /\ Served(p, y, B, z, rest)
  <2>1. Served(e, x, A, y, B) /\ Served(p, y, B, x, A)
    BY <1>7 DEF Both, Toward
  <2>2. Served(e, z, rest, y, B)
    BY <2>1, <1>1 DEF Served, Fresh
  <2>3. ASSUME y.offered = m.revision, Fresh(x, m)
        PROVE  p = Polite /\ x.offered > y.seen
    <3>1. e # Polite /\ x.offered # 0 /\ p = Polite
      BY <2>3 DEF Ready, Alone
    <3>2. m \in A /\ m.revision > 0 /\ y.offered # 0 /\ y.stage # "answer"
      BY <2>3 DEF Taken, Both, Known, Ready, Alone, Works
    <3>3. Answers(A) = {}
      <4> SUFFICES ASSUME NEW a \in Answers(A)
                   PROVE  FALSE
        OBVIOUS
      <4>1. y.offered > a.revision
        BY <3>2 DEF Both, Toward, Answered
      <4>2. a \in rest /\ IsDescription(a) /\ IsDescription(m) /\ ~FirstOffer(a)
        BY <1>1 DEF Answers, IsDescription, FirstOffer
      <4>3. m.revision < a.revision
        BY <4>2 DEF Taken, Before
      <4>4. a \in Signal /\ m \in Signal
        BY <3>2 DEF Ready, Alone, Answers
      <4> QED
        BY <4>1, <4>3, <4>4, <2>3 DEF Signal
    <3> QED
      BY <2>1, <3>1, <3>2, <3>3 DEF Served, Fresh
  <2>4. Served(p, y, B, z, rest)
    BY <2>1, <2>3, <1>1 DEF Served, Fresh
  <2> QED
    BY <2>2, <2>4
<1>8. l => Agree(z, rest, y, B) /\ Agree(y, B, z, rest)
  BY <1>1 DEF Both, Toward, Agree
<1> QED
  BY <1>2, <1>3, <1>4, <1>5, <1>6, <1>7, <1>8 DEF Both, Toward

\* The answer is applied: both ends have the same descriptions in force.
LEMMA BothAnswered ==
  ASSUME NEW e, NEW p, NEW x, NEW y, NEW A, NEW B, NEW l, NEW z, NEW m, NEW rest,
         Both(e, x, A, p, y, B, l), Ready(e, x, A, p, y, B), Taken(m, A, rest),
         m.kind = "answer", x.stage = "remote",
         z.stage = "idle", z.revision = x.revision, z.offered = 0, z.seen = m.revision,
         z.current = [offerer |-> e, revision |-> x.offered]
  PROVE  Both(e, z, rest, p, y, B, l)
<1>1. /\ m \in Answers(A) /\ m \in A /\ rest \subseteq A /\ Offers(rest) \subseteq Offers(A)
      /\ Offers(A) = Offers(rest) /\ m \in Signal /\ ~FirstOffer(m) /\ IsDescription(m)
  BY DEF Taken, Answers, Offers, Ready, Alone, FirstOffer, IsDescription
<1>2. Fresh(x, m) /\ Numbers(x) /\ Numbers(y) /\ A \subseteq Signal /\ B \subseteq Signal
  BY <1>1 DEF Both, Known, Ready, Alone
<1>3. /\ x.offered <= y.seen /\ y.stage # "answer" /\ Answers(B) = {}
      /\ y.current = [offerer |-> e, revision |-> x.offered]
      /\ y.offered # 0 => y.offered > m.revision
      /\ \A n \in Offers(A) : Fresh(x, n) /\ n.revision > m.revision => y.offered = n.revision
  BY <1>1 DEF Both, Toward, Answered
<1>4. /\ Known(e, z, rest) /\ Answers(rest) = {}
      /\ \A n \in Offers(rest) : n.revision > m.revision /\ Fresh(x, n) /\ Fresh(z, n)
  BY KnownAnswered DEF Both, Ready
<1>5. Known(p, y, B)
  BY DEF Both
<1>6. Sent(z, rest, y) /\ Sent(y, B, z)
  BY <1>1 DEF Both, Toward, Sent, Sending
<1>7. Outstanding(e, z, rest, y)
  BY <1>1, <1>3, <1>4 DEF Outstanding
<1>8. Outstanding(p, y, B, z)
  <2> SUFFICES ASSUME NEW n \in Offers(B), Fresh(y, n)
               PROVE  /\ Ignores(p, y, z)
                      /\ \A k \in Offers(B) : Fresh(y, k) => n.revision = k.revision
    BY DEF Outstanding
  <2>1. \A k \in Offers(B) : Fresh(y, k) => k.revision # x.offered
    BY <1>2, <1>3 DEF Fresh, Offers, Signal, Numbers
  <2>2. Ignores(p, y, x)
    BY <2>1 DEF Both, Toward, Outstanding
  <2>3. Ignores(p, y, z)
    BY <2>2, <1>1, <1>2 DEF Ignores, Fresh, Numbers, Signal
  <2>4. \A k \in Offers(B) : Fresh(y, k) => n.revision = k.revision
    BY <2>1 DEF Both, Toward, Outstanding
  <2> QED
    BY <2>3, <2>4
<1>9. Answered(e, z, rest, y, B) /\ Answered(p, y, B, z, rest)
  BY <1>3, <1>4 DEF Answered
<1>10. Answering(z, y) /\ Answering(y, z)
  BY <1>3 DEF Answering
<1>11. ASSUME l
       PROVE  Served(e, z, rest, y, B) /\ Served(p, y, B, z, rest)
  <2>1. Served(p, y, B, x, A)
    BY <1>11 DEF Both, Toward
  <2>2. ~(x.offered > y.seen)
    BY <1>2, <1>3 DEF Numbers
  <2> QED
    BY <2>1, <2>2, <1>1, <1>3, <1>4 DEF Served
<1>12. Agree(z, rest, y, B) /\ Agree(y, B, z, rest)
  BY <1>3 DEF Agree
<1> QED
  BY <1>4, <1>5, <1>6, <1>7, <1>8, <1>9, <1>10, <1>11, <1>12 DEF Both, Toward

\* The offer of the other end is applied: an own one is given up.
LEMMA BothAccept ==
  ASSUME NEW e, NEW p, NEW x, NEW y, NEW A, NEW B, NEW l, NEW z, NEW m,
         Both(e, x, A, p, y, B, l), Ready(e, x, A, p, y, B),
         m \in A, \A n \in A : n = m \/ Before(m, n),
         m.kind = "offer", Fresh(x, m), x.stage = "remote", e # Polite => x.offered = 0,
         z.stage = "answer", z.revision = x.revision + 1, z.offered = 0,
         z.seen = m.revision, z.current = x.current
  PROVE  Both(e, z, A, p, y, B, l)
<1>1. /\ Numbers(x) /\ Numbers(y) /\ A \subseteq Signal /\ B \subseteq Signal /\ m \in Signal
      /\ m \in Offers(A) /\ IsDescription(m) /\ (p = Polite \/ e = Polite) /\ e # p
      /\ m.revision > 0
  BY DEF Ready, Alone, Offers, IsDescription, Both, Known
<1>2. /\ Known(e, z, A) /\ Answers(A) = {}
      /\ \A n \in A : Fresh(z, n) => Fresh(x, n)
  BY KnownAccept DEF Both, Ready
<1>3. y.offered = m.revision /\ y.offered # 0 /\ y.stage # "answer"
  BY <1>1 DEF Both, Toward, Outstanding, Ignores, Ready, Alone, Works
<1>4. Answers(B) = {}
  <2> SUFFICES ASSUME NEW b \in Answers(B)
               PROVE  FALSE
    OBVIOUS
  <2>1. y.offered <= x.seen
    BY DEF Both, Toward, Answered
  <2> QED
    BY <2>1, <1>1, <1>3 DEF Fresh, Numbers
<1>5. Known(p, y, B)
  BY DEF Both
<1>6. Sent(z, A, y)
  BY <1>1 DEF Both, Toward, Sent
<1>7. Sent(y, B, z)
  <2>1. \A n \in B : n.revision <= x.revision
    BY DEF Both, Toward, Sent
  <2>2. y.seen <= x.revision
    BY DEF Both, Toward, Sent
  <2> QED
    BY <2>1, <2>2, <1>1 DEF Sent, Signal, Numbers
<1>8. Outstanding(e, z, A, y)
  <2>1. ASSUME NEW n \in Offers(A), Fresh(z, n)
        PROVE  y.offered = n.revision
    BY <2>1, <1>2 DEF Both, Toward, Outstanding, Ignores, Offers
  <2> QED
    BY <2>1 DEF Outstanding
<1>9. \A n \in Offers(B) : Fresh(y, n) => x.offered = n.revision /\ n.revision # 0
  <2> SUFFICES ASSUME NEW n \in Offers(B), Fresh(y, n)
               PROVE  x.offered = n.revision /\ n.revision # 0
    OBVIOUS
  <2>1. ~Ignores(p, y, x)
    BY <1>1, <1>3 DEF Ignores, Fresh, Numbers
  <2>2. x.offered = n.revision
    BY <2>1 DEF Both, Toward, Outstanding
  <2>3. n.revision > 0
    BY DEF Both, Known, Offers
  <2> QED
    BY <2>2, <2>3
<1>10. Outstanding(p, y, B, z)
  <2> SUFFICES ASSUME NEW n \in Offers(B), Fresh(y, n)
               PROVE  Ignores(p, y, z)
    BY <1>9 DEF Outstanding
  <2>1. e = Polite
    BY <1>9
  <2> QED
    BY <2>1, <1>1, <1>3 DEF Ignores, Numbers
<1>11. Answered(e, z, A, y, B) /\ Answered(p, y, B, z, A)
  BY <1>2, <1>4 DEF Answered
<1>12. Answering(z, y) /\ Answering(y, z)
  BY <1>3 DEF Answering
<1>13. Served(e, z, A, y, B) /\ Served(p, y, B, z, A)
  BY DEF Served
<1>14. l => Agree(z, A, y, B) /\ Agree(y, B, z, A)
  BY DEF Both, Toward, Agree
<1> QED
  BY <1>2, <1>5, <1>6, <1>7, <1>8, <1>10, <1>11, <1>12, <1>13, <1>14 DEF Both, Toward

\* The answer is in force here and sent.
LEMMA BothAnswer ==
  ASSUME NEW e, NEW p, NEW x, NEW y, NEW A, NEW B, NEW l, NEW z, NEW m, NEW rest,
         Both(e, x, A, p, y, B, l), Ready(e, x, A, p, y, B), Taken(m, A, rest),
         m.kind = "offer", m.revision = x.seen, x.stage = "answer", x.revision > 0,
         z.stage = "idle", z.revision = x.revision, z.offered = x.offered, z.seen = x.seen,
         z.current = [offerer |-> p, revision |-> m.revision]
  PROVE  Both(e, z, rest, p, y, B \cup {Description("answer", x.revision, m.revision)}, l)
<1> DEFINE a == Description("answer", x.revision, m.revision)
           C == B \cup {a}
<1>1. a.kind = "answer" /\ a.revision = x.revision /\ a.reply = m.revision
  BY DEF Description
<1> HIDE DEF a
<1>2. /\ Numbers(x) /\ Numbers(y) /\ A \subseteq Signal /\ B \subseteq Signal /\ m \in Signal
      /\ IsDescription(m) /\ x.offered = 0 /\ (p = Polite \/ e = Polite) /\ e # p
      /\ rest \subseteq A /\ Offers(rest) \subseteq Offers(A)
  BY DEF Ready, Alone, Works, Taken, Offers, IsDescription
<1>3. Known(e, z, rest) /\ Answers(A) = {} /\ Answers(rest) = {}
  BY KnownAnswer DEF Both, Ready
<1>4. Answers(A) = {} /\ Answers(rest) = {} /\ Answers(B) = {}
  BY <1>3 DEF Both, Toward, Answered
<1>5. Answers(C) = {a} /\ Offers(C) = Offers(B)
  BY <1>1, <1>4 DEF Answers, Offers
<1>6. x.seen # 0 /\ y.offered = x.seen /\ y.offered # 0 /\ y.stage # "answer"
  BY DEF Both, Toward, Answering, Ready, Alone, Works
<1>7. /\ \A n \in B : n.revision < x.revision
      /\ y.seen < x.revision
  BY DEF Both, Toward, Sent, Sending
<1>8. p = Polite => \A n \in Offers(B) : ~Fresh(y, n)
  <2> SUFFICES ASSUME p = Polite, NEW n \in Offers(B), Fresh(y, n)
               PROVE  FALSE
    OBVIOUS
  <2>1. n.revision = 0
    BY <1>2 DEF Both, Toward, Outstanding, Ignores
  <2> QED
    BY <2>1 DEF Both, Known, Offers
<1>9. Known(p, y, C)
  <2>1. \A n \in C : /\ n.revision > 0
                     /\ Fresh(y, n) \/ FirstOffer(n) \/ (y.stage = "answer" /\ n.revision = y.seen)
    BY <1>1, <1>7 DEF Both, Known, Fresh
  <2>2. \A i, j, k \in Offers(C) :
          Fresh(y, i) /\ Fresh(y, j) /\ Fresh(y, k) =>
            i.revision = j.revision \/ j.revision = k.revision \/ i.revision = k.revision
    BY <1>5 DEF Both, Known
  <2> QED
    BY <2>1, <2>2, <1>1, <1>5, <1>6, <1>8 DEF Known
<1>10. Sent(z, rest, y)
  BY <1>2 DEF Both, Toward, Sent
<1>11. Sent(y, C, z)
  BY <1>1, <1>2, <1>7 DEF Sent, Sending, Numbers, Signal
<1>12. Outstanding(e, z, rest, y) /\ Outstanding(p, y, C, z)
  BY <1>2, <1>5 DEF Both, Toward, Outstanding, Ignores, Fresh
<1>13. Answered(e, z, rest, y, C)
  BY <1>4 DEF Answered
<1>14. Answered(p, y, C, z, rest)
  <2>1. \A n \in Offers(C) : ~(n.revision > a.revision)
    BY <1>1, <1>2, <1>5, <1>7 DEF Offers, Signal, Numbers
  <2>2. y.offered <= z.seen /\ z.stage # "answer" /\ z.offered = 0
    BY <1>2, <1>6 DEF Numbers
  <2>3. z.current = [offerer |-> p, revision |-> y.offered]
    BY <1>6
  <2> QED
    BY <2>1, <2>2, <2>3, <1>4, <1>5 DEF Answered
<1>15. Answering(z, y) /\ Answering(y, z)
  BY <1>6 DEF Answering
<1>16. Served(e, z, rest, y, C) /\ Served(p, y, C, z, rest)
  BY <1>2, <1>5 DEF Served
<1>17. Agree(z, rest, y, C) /\ Agree(y, C, z, rest)
  BY <1>5 DEF Agree
<1> QED
  BY <1>3, <1>9, <1>10, <1>11, <1>12, <1>13, <1>14, <1>15, <1>16, <1>17 DEF Both, Toward, a

\* The first offer is repeated.
LEMMA BothRetry ==
  ASSUME NEW e, NEW p, NEW x, NEW y, NEW A, NEW B, NEW l, NEW z, NEW r,
         Both(e, x, A, p, y, B, l), Ready(e, x, A, p, y, B),
         x.offered = 1, x.revision = 1,
         z.stage = x.stage, z.revision = x.revision, z.offered = x.offered,
         z.seen = x.seen, z.current = x.current
  PROVE  Both(e, z, A, p, y, B \cup {Description("offer", 1, r)}, l)
<1> DEFINE m == Description("offer", 1, r)
           C == B \cup {m}
<1>1. m.kind = "offer" /\ m.revision = 1 /\ FirstOffer(m)
  BY DEF Description, FirstOffer
<1> HIDE DEF m
<1>2. Numbers(x) /\ Numbers(y) /\ B \subseteq Signal /\ ~Sending(x) /\ x.stage # "answer"
  BY DEF Ready, Alone, Works, Sending
<1>3. \A n \in B : n.revision = 1
  BY <1>2 DEF Both, Toward, Sent, Known, Signal
<1>4. Answers(B) = {}
  BY <1>3 DEF Both, Toward, Answered, Answers
<1>5. Answers(C) = {} /\ Offers(C) = Offers(B) \cup {m} /\ \A n \in Offers(C) : n.revision = 1
  BY <1>1, <1>3, <1>4 DEF Answers, Offers
<1>6. Known(e, z, A)
  BY KnownLess DEF Both
<1>7. Known(p, y, C)
  <2>1. \A n \in C : /\ n.revision > 0
                     /\ Fresh(y, n) \/ FirstOffer(n) \/ (y.stage = "answer" /\ n.revision = y.seen)
    BY <1>1 DEF Both, Known
  <2> QED
    BY <2>1, <1>5 DEF Known
<1>8. Sent(z, A, y) /\ Sent(y, C, z)
  BY <1>1, <1>2, <1>3 DEF Both, Toward, Sent, Sending
<1>9. Outstanding(e, z, A, y)
  BY DEF Both, Toward, Outstanding, Ignores, Fresh
<1>10. Outstanding(p, y, C, z)
  BY <1>5 DEF Outstanding
<1>11. Answered(e, z, A, y, C)
  BY <1>4, <1>5 DEF Both, Toward, Answered, Fresh
<1>12. Answered(p, y, C, z, A)
  BY <1>5 DEF Answered
<1>13. Answering(z, y) /\ Answering(y, z)
  BY DEF Both, Toward, Answering
<1>14. l => Served(e, z, A, y, C) /\ Served(p, y, C, z, A)
  BY <1>4, <1>5 DEF Both, Toward, Served, Fresh
<1>15. l => Agree(z, A, y, C) /\ Agree(y, C, z, A)
  BY <1>4, <1>5 DEF Both, Toward, Agree
<1> QED
  BY <1>6, <1>7, <1>8, <1>9, <1>10, <1>11, <1>12, <1>13, <1>14, <1>15 DEF Both, Toward, m

\* What is lost was on its way.
LEMMA BothLose ==
  ASSUME NEW e, NEW p, NEW x, NEW y, NEW A, NEW B, NEW l, NEW rest,
         Both(e, x, A, p, y, B, l), rest \subseteq A
  PROVE  Both(e, x, rest, p, y, B, FALSE)
<1>1. Answers(rest) \subseteq Answers(A) /\ Offers(rest) \subseteq Offers(A)
  BY DEF Answers, Offers
<1>2. Known(e, x, rest) /\ Known(p, y, B)
  BY KnownLess DEF Both
<1>3. Sent(x, rest, y) /\ Sent(y, B, x)
  BY DEF Both, Toward, Sent
<1>4. Outstanding(e, x, rest, y) /\ Outstanding(p, y, B, x)
  BY <1>1 DEF Both, Toward, Outstanding
<1>5. Answered(e, x, rest, y, B) /\ Answered(p, y, B, x, rest)
  BY <1>1 DEF Both, Toward, Answered
<1>6. Answering(x, y) /\ Answering(y, x)
  BY DEF Both, Toward
<1> QED
  BY <1>2, <1>3, <1>4, <1>5, <1>6 DEF Both, Toward

-----------------------------------------------------------------------------
(***************************************************************************)
(* The queues of descriptions.                                             *)
(***************************************************************************)

\* What a sequence of signals holds is what its indices hold.
LEMMA Elements ==
  ASSUME NEW q \in Seq(Signal)
  PROVE  /\ ToSet(q) = {q[i] : i \in 1..Len(q)}
         /\ \A i \in 1..Len(q) : q[i] \in Signal
BY DEF ToSet

\* A description on its way has an index in the queue or in the signaling.
LEMMA DescriptionIndex ==
  ASSUME NEW q \in Seq(Signal), NEW s \in Seq(Signal)
  PROVE  /\ \A m : m \in Descriptions(q, s) <=>
                     /\ IsDescription(m)
                     /\ (\E i \in 1..Len(q) : m = q[i]) \/ (\E i \in 1..Len(s) : m = s[i])
         /\ Descriptions(q, s) \subseteq Signal
         /\ \A m \in Descriptions(q, s) : IsDescription(m)
BY Elements DEF Descriptions

\* The indices of a tail are those of the sequence, less one.
LEMMA TailIndex ==
  ASSUME NEW q \in Seq(Signal), q # <<>>
  PROVE  /\ Tail(q) \in Seq(Signal) /\ Len(q) \in Nat /\ Len(q) >= 1
         /\ Len(Tail(q)) = Len(q) - 1 /\ Head(q) = q[1] /\ Head(q) \in Signal
         /\ \A i \in 1..Len(Tail(q)) : i + 1 \in 1..Len(q) /\ Tail(q)[i] = q[i + 1]
         /\ \A i \in 1..Len(q) : i = 1 \/ (i - 1 \in 1..Len(Tail(q)) /\ q[i] = Tail(q)[i - 1])
<1>1. Len(q) \in Nat /\ Len(q) >= 1 /\ Head(q) = q[1]
  OBVIOUS
<1>2. /\ Head(q) \in Signal /\ Tail(q) \in Seq(Signal) /\ Len(Tail(q)) = Len(q) - 1
      /\ \A i \in 1..Len(Tail(q)) : Tail(q)[i] = q[i + 1]
  BY HeadTailProperties
<1>3. \A i \in 1..Len(Tail(q)) : i + 1 \in 1..Len(q)
  BY <1>1, <1>2
<1>4. ASSUME NEW i \in 1..Len(q), i # 1
      PROVE  i - 1 \in 1..Len(Tail(q)) /\ q[i] = Tail(q)[i - 1]
  <2>1. i - 1 \in 1..Len(Tail(q)) /\ (i - 1) + 1 = i
    BY <1>1, <1>2, <1>4
  <2> QED
    BY <2>1, <1>2
<1> QED
  BY <1>1, <1>2, <1>3, <1>4

\* The indices of a sequence with one more element.
LEMMA AppendIndex ==
  ASSUME NEW q \in Seq(Signal), NEW m \in Signal
  PROVE  /\ Append(q, m) \in Seq(Signal) /\ Len(q) \in Nat
         /\ Len(Append(q, m)) = Len(q) + 1
         /\ \A i \in 1..Len(q) : Append(q, m)[i] = q[i]
         /\ Append(q, m)[Len(q) + 1] = m
         /\ \A i \in 1..(Len(q) + 1) : i \in 1..Len(q) \/ i = Len(q) + 1
BY AppendProperties

\* The first job leaves: the others stay in order, and all of them come after it.
LEMMA TailSorted ==
  ASSUME NEW q \in Seq(Signal), NEW s \in Seq(Signal), q # <<>>, Sorted(q, s)
  PROVE  /\ Sorted(Tail(q), s)
         /\ Descriptions(Tail(q), s) \subseteq Descriptions(q, s)
         /\ Descriptions(q, s) \subseteq Descriptions(Tail(q), s) \cup {Head(q)}
         /\ \A n \in Descriptions(Tail(q), s) : Before(Head(q), n)
         /\ \A n \in Descriptions(q, s) : n = Head(q) \/ Before(Head(q), n)
         /\ IsDescription(Head(q)) => Head(q) \in Descriptions(q, s)
<1> DEFINE t == Tail(q)
<1>1. /\ t \in Seq(Signal) /\ Len(t) = Len(q) - 1 /\ Len(q) \in Nat /\ Len(q) >= 1
      /\ Head(q) = q[1]
      /\ \A i \in 1..Len(t) : i + 1 \in 1..Len(q) /\ t[i] = q[i + 1]
      /\ \A i \in 1..Len(q) : i = 1 \/ (i - 1 \in 1..Len(t) /\ q[i] = t[i - 1])
  BY TailIndex
<1> HIDE DEF t
<1>2. Ordered(t)
  BY <1>1 DEF Sorted, Ordered
<1>3. \A i \in 1..Len(t), k \in 1..Len(s) : Before(t[i], s[k])
  BY <1>1 DEF Sorted
<1>4. Sorted(t, s)
  BY <1>2, <1>3 DEF Sorted
<1>5. Descriptions(t, s) \subseteq Descriptions(q, s)
  <2> SUFFICES ASSUME NEW n \in Descriptions(t, s)
               PROVE  n \in Descriptions(q, s)
    OBVIOUS
  <2>1. IsDescription(n) /\ ((\E i \in 1..Len(t) : n = t[i]) \/ \E i \in 1..Len(s) : n = s[i])
    BY <1>1, DescriptionIndex
  <2>2. (\E i \in 1..Len(q) : n = q[i]) \/ \E i \in 1..Len(s) : n = s[i]
    BY <2>1, <1>1
  <2> QED
    BY <2>1, <2>2, <1>1, DescriptionIndex
<1>6. ASSUME NEW n \in Descriptions(q, s)
      PROVE  n \in Descriptions(t, s) \/ n = Head(q)
  <2>1. IsDescription(n) /\ ((\E i \in 1..Len(q) : n = q[i]) \/ \E i \in 1..Len(s) : n = s[i])
    BY <1>1, DescriptionIndex
  <2>2. n = Head(q) \/ (\E i \in 1..Len(t) : n = t[i]) \/ \E i \in 1..Len(s) : n = s[i]
    BY <2>1, <1>1
  <2> QED
    BY <2>1, <2>2, <1>1, DescriptionIndex
<1>7. ASSUME NEW n \in Descriptions(t, s)
      PROVE  Before(Head(q), n)
  <2>1. CASE \E i \in 1..Len(t) : n = t[i]
    <3>1. PICK i \in 1..Len(t) : n = t[i]
      BY <2>1
    <3>2. 1 \in 1..Len(q) /\ i + 1 \in 1..Len(q) /\ 1 < i + 1 /\ n = q[i + 1]
      BY <1>1, <3>1
    <3> QED
      BY <3>2, <1>1 DEF Sorted, Ordered
  <2>2. CASE \E i \in 1..Len(s) : n = s[i]
    BY <2>2, <1>1 DEF Sorted
  <2> QED
    BY <2>1, <2>2, <1>1, DescriptionIndex
<1>8. IsDescription(Head(q)) => Head(q) \in Descriptions(q, s)
  BY <1>1, DescriptionIndex
<1> QED
  BY <1>4, <1>5, <1>6, <1>7, <1>8 DEF t

\* What comes next from the signaling is dealt with, or lost.
LEMMA SignalTail ==
  ASSUME NEW q \in Seq(Signal), NEW s \in Seq(Signal), s # <<>>, Sorted(q, s)
  PROVE  /\ Sorted(q, Tail(s))
         /\ Descriptions(q, Tail(s)) \subseteq Descriptions(q, s)
         /\ ~IsDescription(Head(s)) => Descriptions(q, Tail(s)) = Descriptions(q, s)
<1> DEFINE t == Tail(s)
<1>1. /\ t \in Seq(Signal) /\ Len(t) = Len(s) - 1 /\ Len(s) \in Nat /\ Len(s) >= 1
      /\ Head(s) = s[1]
      /\ \A i \in 1..Len(t) : i + 1 \in 1..Len(s) /\ t[i] = s[i + 1]
      /\ \A i \in 1..Len(s) : i = 1 \/ (i - 1 \in 1..Len(t) /\ s[i] = t[i - 1])
  BY TailIndex
<1> HIDE DEF t
<1>2. Ordered(t)
  BY <1>1 DEF Sorted, Ordered
<1>3. Sorted(q, t)
  BY <1>1, <1>2 DEF Sorted
<1>4. Descriptions(q, t) \subseteq Descriptions(q, s)
  <2> SUFFICES ASSUME NEW n \in Descriptions(q, t)
               PROVE  n \in Descriptions(q, s)
    OBVIOUS
  <2>1. IsDescription(n) /\ ((\E i \in 1..Len(q) : n = q[i]) \/ \E i \in 1..Len(t) : n = t[i])
    BY <1>1, DescriptionIndex
  <2>2. (\E i \in 1..Len(q) : n = q[i]) \/ \E i \in 1..Len(s) : n = s[i]
    BY <2>1, <1>1
  <2> QED
    BY <2>1, <2>2, <1>1, DescriptionIndex
<1>5. ASSUME ~IsDescription(Head(s))
      PROVE  Descriptions(q, s) \subseteq Descriptions(q, t)
  <2> SUFFICES ASSUME NEW n \in Descriptions(q, s)
               PROVE  n \in Descriptions(q, t)
    OBVIOUS
  <2>1. IsDescription(n) /\ ((\E i \in 1..Len(q) : n = q[i]) \/ \E i \in 1..Len(s) : n = s[i])
    BY <1>1, DescriptionIndex
  <2>2. n # Head(s)
    BY <1>5, <2>1
  <2>3. (\E i \in 1..Len(q) : n = q[i]) \/ \E i \in 1..Len(t) : n = t[i]
    BY <2>1, <2>2, <1>1
  <2> QED
    BY <2>1, <2>3, <1>1, DescriptionIndex
<1> QED
  BY <1>3, <1>4, <1>5 DEF t

\* A description becomes a job.
LEMMA MoveSorted ==
  ASSUME NEW q \in Seq(Signal), NEW s \in Seq(Signal), s # <<>>, Sorted(q, s)
  PROVE  /\ Sorted(Append(q, Head(s)), Tail(s))
         /\ Descriptions(Append(q, Head(s)), Tail(s)) = Descriptions(q, s)
<1> DEFINE m == Head(s)  t == Tail(s)  r == Append(q, m)
<1>1. /\ t \in Seq(Signal) /\ Len(t) = Len(s) - 1 /\ Len(s) \in Nat /\ Len(s) >= 1
      /\ m = s[1] /\ m \in Signal
      /\ \A i \in 1..Len(t) : i + 1 \in 1..Len(s) /\ t[i] = s[i + 1]
      /\ \A i \in 1..Len(s) : i = 1 \/ (i - 1 \in 1..Len(t) /\ s[i] = t[i - 1])
  BY TailIndex
<1>2. /\ r \in Seq(Signal) /\ Len(q) \in Nat /\ Len(r) = Len(q) + 1
      /\ \A i \in 1..Len(q) : r[i] = q[i]
      /\ r[Len(q) + 1] = m
      /\ \A i \in 1..Len(r) : i \in 1..Len(q) \/ i = Len(q) + 1
  BY <1>1, AppendIndex
<1> HIDE DEF m, t, r
<1>3. 1 \in 1..Len(s) /\ 1..Len(q) \subseteq 1..Len(r) /\ Len(q) + 1 \in 1..Len(r)
  BY <1>1, <1>2
<1>4. Ordered(t)
  BY <1>1 DEF Sorted, Ordered
<1>5. Ordered(r)
  <2> SUFFICES ASSUME NEW i \in 1..Len(r), NEW k \in 1..Len(r), i < k
               PROVE  Before(r[i], r[k])
    BY DEF Ordered
  <2>1. i \in 1..Len(q)
    BY <1>2
  <2>2. CASE k \in 1..Len(q)
    BY <2>1, <2>2, <1>2 DEF Sorted, Ordered
  <2>3. CASE k = Len(q) + 1
    BY <2>1, <2>3, <1>1, <1>2, <1>3 DEF Sorted
  <2> QED
    BY <2>2, <2>3, <1>2
<1>6. ASSUME NEW i \in 1..Len(r), NEW k \in 1..Len(t)
      PROVE  Before(r[i], t[k])
  <2>1. k + 1 \in 1..Len(s) /\ t[k] = s[k + 1] /\ 1 < k + 1
    BY <1>1
  <2>2. CASE i \in 1..Len(q)
    BY <2>1, <2>2, <1>2 DEF Sorted
  <2>3. CASE i = Len(q) + 1
    BY <2>1, <2>3, <1>1, <1>2, <1>3 DEF Sorted, Ordered
  <2> QED
    BY <2>2, <2>3, <1>2
<1>7. Sorted(r, t)
  BY <1>4, <1>5, <1>6 DEF Sorted
<1>8. ASSUME NEW n
      PROVE  n \in Descriptions(r, t) <=> n \in Descriptions(q, s)
  <2>2. (\E i \in 1..Len(r) : n = r[i]) <=> ((\E i \in 1..Len(q) : n = q[i]) \/ n = m)
    BY <1>2, <1>3
  <2>3. (\E i \in 1..Len(s) : n = s[i]) <=> (n = m \/ \E i \in 1..Len(t) : n = t[i])
    BY <1>1, <1>3
  <2>1. ((\E i \in 1..Len(r) : n = r[i]) \/ \E i \in 1..Len(t) : n = t[i])
          <=> ((\E i \in 1..Len(q) : n = q[i]) \/ \E i \in 1..Len(s) : n = s[i])
    BY <2>2, <2>3
  <2> QED
    BY <2>1, <1>1, <1>2, DescriptionIndex
<1> QED
  BY <1>7, <1>8 DEF m, t, r

\* A job of its own.
LEMMA NegotiateSorted ==
  ASSUME NEW q \in Seq(Signal), NEW s \in Seq(Signal), NEW m \in Signal,
         ~IsDescription(m), Sorted(q, s)
  PROVE  /\ Sorted(Append(q, m), s)
         /\ Descriptions(Append(q, m), s) = Descriptions(q, s)
<1> DEFINE r == Append(q, m)
<1>1. /\ r \in Seq(Signal) /\ Len(q) \in Nat /\ Len(r) = Len(q) + 1
      /\ \A i \in 1..Len(q) : r[i] = q[i]
      /\ r[Len(q) + 1] = m
      /\ \A i \in 1..Len(r) : i \in 1..Len(q) \/ i = Len(q) + 1
  BY AppendIndex
<1> HIDE DEF r
<1>2. Ordered(r)
  BY <1>1 DEF Sorted, Ordered, Before
<1>3. Sorted(r, s)
  BY <1>1, <1>2 DEF Sorted, Before
<1>4. ASSUME NEW n
      PROVE  n \in Descriptions(r, s) <=> n \in Descriptions(q, s)
  BY <1>1, DescriptionIndex
<1> QED
  BY <1>3, <1>4 DEF r

\* Something is sent.
LEMMA PostSorted ==
  ASSUME NEW q \in Seq(Signal), NEW s \in Seq(Signal), NEW m \in Signal, Sorted(q, s),
         \A n \in Descriptions(q, s) : Before(n, m)
  PROVE  /\ s \o <<m>> = Append(s, m) /\ s \o <<m>> \in Seq(Signal)
         /\ Sorted(q, s \o <<m>>)
         /\ Descriptions(q, s \o <<m>>) =
              Descriptions(q, s) \cup (IF IsDescription(m) THEN {m} ELSE {})
<1> DEFINE r == Append(s, m)
<1>1. /\ r \in Seq(Signal) /\ Len(s) \in Nat /\ Len(r) = Len(s) + 1
      /\ \A i \in 1..Len(s) : r[i] = s[i]
      /\ r[Len(s) + 1] = m
      /\ \A i \in 1..Len(r) : i \in 1..Len(s) \/ i = Len(s) + 1
  BY AppendIndex
<1>2. s \o <<m>> = r
  BY AppendIsConcat
<1> HIDE DEF r
<1>3. \A i \in 1..Len(q) : Before(q[i], m)
  BY DescriptionIndex DEF Before
<1>4. \A i \in 1..Len(s) : Before(s[i], m)
  BY DescriptionIndex DEF Before
<1>5. Ordered(r)
  <2> SUFFICES ASSUME NEW i \in 1..Len(r), NEW k \in 1..Len(r), i < k
               PROVE  Before(r[i], r[k])
    BY DEF Ordered
  <2>1. i \in 1..Len(s)
    BY <1>1
  <2>2. CASE k \in 1..Len(s)
    BY <2>1, <2>2, <1>1 DEF Sorted, Ordered
  <2>3. CASE k = Len(s) + 1
    BY <2>1, <2>3, <1>1, <1>4
  <2> QED
    BY <2>2, <2>3, <1>1
<1>6. \A i \in 1..Len(q), k \in 1..Len(r) : Before(q[i], r[k])
  BY <1>1, <1>3 DEF Sorted
<1>7. Sorted(q, r)
  BY <1>5, <1>6 DEF Sorted
<1>8. ASSUME NEW n
      PROVE  n \in Descriptions(q, r) <=>
               n \in Descriptions(q, s) \/ (IsDescription(m) /\ n = m)
  <2>1. (\E i \in 1..Len(r) : n = r[i]) <=> ((\E i \in 1..Len(s) : n = s[i]) \/ n = m)
    BY <1>1
  <2> QED
    BY <2>1, <1>1, DescriptionIndex
<1> QED
  BY <1>1, <1>2, <1>7, <1>8 DEF r

\* The indices of a sequence without its last element.
LEMMA FrontIndex ==
  ASSUME NEW s \in Seq(Signal), s # <<>>
  PROVE  /\ Front(s) \in Seq(Signal) /\ Len(Front(s)) = Len(s) - 1
         /\ \A i \in 1..Len(Front(s)) : i \in 1..Len(s) /\ Front(s)[i] = s[i]
<1> DEFINE t == Front(s)  n == Len(s) - 1
<1>1. Len(s) \in Nat /\ Len(s) >= 1
  BY TailIndex
<1>2. t = SubSeq(s, 1, n) /\ n \in Nat
  BY <1>1 DEF Front
<1>3. 1 \in Int /\ n \in Int /\ \A i \in 1..n : i \in 1..Len(s) /\ s[i] \in Signal
  BY <1>1
<1> HIDE DEF t, n
<1>4. /\ SubSeq(s, 1, n) \in Seq(Signal)
      /\ Len(SubSeq(s, 1, n)) = IF 1 <= n THEN n - 1 + 1 ELSE 0
      /\ \A i \in 1..(n - 1 + 1) : SubSeq(s, 1, n)[i] = s[1 + i - 1]
  BY <1>3, SubSeqProperties
<1>5. Len(t) = n
  BY <1>2, <1>4
<1>6. ASSUME NEW i \in 1..n
      PROVE  t[i] = s[i]
  <2>1. i \in 1..(n - 1 + 1) /\ 1 + i - 1 = i
    BY <1>2
  <2> QED
    BY <2>1, <1>2, <1>4
<1>7. t \in Seq(Signal)
  BY <1>2, <1>4
<1>8. Len(t) = Len(s) - 1
  BY <1>5 DEF n
<1>9. \A i \in 1..Len(t) : i \in 1..Len(s) /\ t[i] = s[i]
  BY <1>3, <1>5, <1>6
<1> QED
  BY <1>7, <1>8, <1>9 DEF t

\* What was sent last does not leave.
LEMMA FrontSorted ==
  ASSUME NEW q \in Seq(Signal), NEW s \in Seq(Signal), s # <<>>, Sorted(q, s)
  PROVE  /\ Front(s) \in Seq(Signal) /\ Sorted(q, Front(s))
         /\ Descriptions(q, Front(s)) \subseteq Descriptions(q, s)
<1> DEFINE t == Front(s)
<1>1. t \in Seq(Signal) /\ \A i \in 1..Len(t) : i \in 1..Len(s) /\ t[i] = s[i]
  BY FrontIndex
<1> HIDE DEF t
<1>2. Sorted(q, t)
  BY <1>1 DEF Sorted, Ordered
<1>3. Descriptions(q, t) \subseteq Descriptions(q, s)
  <2> SUFFICES ASSUME NEW n \in Descriptions(q, t)
               PROVE  n \in Descriptions(q, s)
    OBVIOUS
  <2>1. IsDescription(n) /\ ((\E i \in 1..Len(q) : n = q[i]) \/ \E i \in 1..Len(t) : n = t[i])
    BY <1>1, DescriptionIndex
  <2>2. (\E i \in 1..Len(q) : n = q[i]) \/ \E i \in 1..Len(s) : n = s[i]
    BY <2>1, <1>1
  <2> QED
    BY <2>1, <2>2, DescriptionIndex
<1> QED
  BY <1>1, <1>2, <1>3 DEF t

\* How many of a queue are the first offer.
Firsts(q) == {i \in 1..Len(q) : FirstOffer(q[i])}

\* A queue holds a natural number of first offers.
LEMMA CountIsNat ==
  ASSUME NEW q \in Seq(Signal)
  PROVE  IsFiniteSet(Firsts(q)) /\ Count(q) = Cardinality(Firsts(q)) /\ Count(q) \in Nat
<1>1. IsFiniteSet(1..Len(q))
  BY FS_Interval
<1>2. IsFiniteSet(Firsts(q))
  BY <1>1, FS_Subset DEF Firsts
<1> QED
  BY <1>2, FS_CardinalityType DEF Firsts, Count

\* A first offer that is appended counts,
LEMMA CountAppend ==
  ASSUME NEW q \in Seq(Signal), NEW m \in Signal
  PROVE  Count(Append(q, m)) = Count(q) + (IF FirstOffer(m) THEN 1 ELSE 0)
<1> DEFINE r == Append(q, m)  n == Len(q) + 1
<1>1. /\ r \in Seq(Signal) /\ Len(q) \in Nat /\ Len(r) = n
      /\ \A i \in 1..Len(q) : r[i] = q[i]
      /\ r[n] = m
      /\ \A i \in 1..n : i \in 1..Len(q) \/ i = n
      /\ n \in 1..n /\ n \notin 1..Len(q) /\ 1..Len(q) \subseteq 1..n
  BY AppendIndex
<1> HIDE DEF r, n
<1>2. Count(r) = Cardinality(Firsts(r)) /\ Count(q) = Cardinality(Firsts(q))
  BY <1>1, CountIsNat
<1>3. CASE FirstOffer(m)
  <2>1. Firsts(r) = Firsts(q) \cup {n} /\ n \notin Firsts(q)
    BY <1>1, <1>3 DEF Firsts
  <2>2. Cardinality(Firsts(q) \cup {n}) = Cardinality(Firsts(q)) + 1
    BY <2>1, CountIsNat, FS_AddElement
  <2> QED
    BY <2>1, <2>2, <1>2, <1>3 DEF r
<1>4. CASE ~FirstOffer(m)
  <2>1. Firsts(r) = Firsts(q)
    BY <1>1, <1>4 DEF Firsts
  <2> QED
    BY <2>1, <1>2, <1>4, CountIsNat DEF r
<1> QED
  BY <1>3, <1>4

\* one that is taken no longer does,
LEMMA CountTail ==
  ASSUME NEW q \in Seq(Signal), q # <<>>
  PROVE  Count(q) = Count(Tail(q)) + (IF FirstOffer(Head(q)) THEN 1 ELSE 0)
<1> DEFINE t == Tail(q)
           up == [i \in Firsts(t) |-> i + 1]
           later == Firsts(q) \ {1}
<1>1. /\ t \in Seq(Signal) /\ Len(t) = Len(q) - 1 /\ Len(q) \in Nat /\ Len(q) >= 1
      /\ Head(q) = q[1]
      /\ \A i \in 1..Len(t) : i + 1 \in 1..Len(q) /\ t[i] = q[i + 1]
      /\ \A i \in 1..Len(q) : i = 1 \/ (i - 1 \in 1..Len(t) /\ q[i] = t[i - 1])
  BY TailIndex
<1> HIDE DEF t
<1>2. /\ Count(t) = Cardinality(Firsts(t)) /\ Count(q) = Cardinality(Firsts(q))
      /\ IsFiniteSet(Firsts(t)) /\ IsFiniteSet(Firsts(q)) /\ Count(t) \in Nat
      /\ IsFiniteSet(later)
  BY <1>1, CountIsNat, FS_Subset
<1>3. up \in Bijection(Firsts(t), later)
  <2>1. ASSUME NEW i \in Firsts(t)
        PROVE  up[i] \in later /\ i \in Int /\ up[i] = i + 1
    <3>1. i \in 1..Len(t) /\ FirstOffer(t[i])
      BY DEF Firsts
    <3>2. i + 1 \in 1..Len(q) /\ FirstOffer(q[i + 1]) /\ i + 1 # 1
      BY <3>1, <1>1
    <3> QED
      BY <3>1, <3>2 DEF Firsts
  <2>2. up \in [Firsts(t) -> later]
    BY <2>1
  <2>3. \A i, k \in Firsts(t) : up[i] = up[k] => i = k
    BY <2>1
  <2>4. ASSUME NEW k \in later
        PROVE  \E i \in Firsts(t) : up[i] = k
    <3>1. k \in 1..Len(q) /\ FirstOffer(q[k]) /\ k # 1
      BY DEF Firsts
    <3>2. k - 1 \in 1..Len(t) /\ FirstOffer(t[k - 1])
      BY <3>1, <1>1
    <3>3. k - 1 \in Firsts(t) /\ (k - 1) + 1 = k
      BY <3>1, <3>2 DEF Firsts
    <3> QED
      BY <3>3
  <2> HIDE DEF up
  <2> QED
    BY <2>2, <2>3, <2>4 DEF Bijection, Injection, Surjection, IsInjective
<1>4. Cardinality(Firsts(t)) = Cardinality(later)
  BY <1>2, <1>3, FS_Bijection DEF ExistsBijection
<1> HIDE DEF later
<1>5. CASE FirstOffer(Head(q))
  <2>1. 1 \in Firsts(q)
    BY <1>1, <1>5 DEF Firsts
  <2>2. Cardinality(later) = Cardinality(Firsts(q)) - 1
    BY <2>1, <1>2, FS_RemoveElement DEF later
  <2>3. Cardinality(Firsts(q)) \in Nat
    BY <1>2, FS_CardinalityType
  <2> QED
    BY <2>2, <2>3, <1>2, <1>4, <1>5 DEF t
<1>6. CASE ~FirstOffer(Head(q))
  <2>1. later = Firsts(q)
    BY <1>1, <1>6 DEF Firsts, later
  <2> QED
    BY <2>1, <1>2, <1>4, <1>6 DEF t
<1> QED
  BY <1>5, <1>6

\* and to lose the last signal adds none.
LEMMA CountFront ==
  ASSUME NEW s \in Seq(Signal), s # <<>>
  PROVE  Count(Front(s)) <= Count(s)
<1> DEFINE t == Front(s)
<1>1. t \in Seq(Signal) /\ \A i \in 1..Len(t) : i \in 1..Len(s) /\ t[i] = s[i]
  BY FrontIndex
<1> HIDE DEF t
<1>2. Firsts(t) \subseteq Firsts(s)
  BY <1>1 DEF Firsts
<1>3. Cardinality(Firsts(t)) <= Cardinality(Firsts(s))
  BY <1>2, CountIsNat, FS_Subset
<1> QED
  BY <1>1, <1>3, CountIsNat DEF t

\* A set any two members of which are equal has one at the most.
LEMMA AtMostOne ==
  ASSUME NEW S, \A i, k \in S : i = k
  PROVE  IsFiniteSet(S) /\ Cardinality(S) \in Nat /\ Cardinality(S) <= 1
<1>1. CASE S = {}
  BY <1>1, FS_EmptySet
<1>2. CASE S # {}
  <2>1. PICK i \in S : TRUE
    BY <1>2
  <2>2. S = {i}
    BY <2>1
  <2> QED
    BY <2>2, FS_Singleton
<1> QED
  BY <1>1, <1>2

\* Such a set adds one at the most to the size of another.
LEMMA OneMore ==
  ASSUME NEW S, NEW T, \A i, k \in S : i = k, IsFiniteSet(T), NEW n \in Nat,
         Cardinality(T) <= n
  PROVE  IsFiniteSet(S \cup T) /\ Cardinality(S \cup T) <= n + 1
<1>1. IsFiniteSet(S) /\ Cardinality(S) \in Nat /\ Cardinality(S) <= 1
  BY AtMostOne
<1>2. /\ IsFiniteSet(S \cup T)
      /\ Cardinality(S \cup T) = Cardinality(S) + Cardinality(T) - Cardinality(S \cap T)
  BY <1>1, FS_Union
<1>3. IsFiniteSet(S \cap T)
  BY <1>1, FS_Intersection
<1>4. Cardinality(T) \in Nat /\ Cardinality(S \cap T) \in Nat
  BY <1>3, FS_CardinalityType
<1> QED
  BY <1>1, <1>2, <1>4

\* There are n numbers from 1 to n.
LEMMA IntervalSize ==
  ASSUME NEW n \in Nat
  PROVE  Cardinality(1..n) = n
<1>1. 1 \in Int /\ n \in Int
  OBVIOUS
<1>2. Cardinality(1..n) = IF 1 > n THEN 0 ELSE n - 1 + 1
  BY <1>1, FS_Interval, Zenon
<1> QED
  BY <1>2

\* The queue of an end stays short: a job of its own, an answer, the offer being
\* answered, two other offers, and the first one with its repetitions.
LEMMA QueueIsShort ==
  ASSUME NEW e, NEW x, NEW s \in Seq(Signal), Typed(x), Own(e, x, s)
  PROVE  Len(x.jobs) <= OfferRetries + 6
<1> DEFINE q == x.jobs
           A == In(x, s)
           D == 1..Len(q)
           N == {i \in D : q[i].kind = "negotiate"}
           W == {i \in D : q[i].kind = "answer"}
           F == Firsts(q)
           O == {i \in D : q[i].kind = "offer" /\ q[i].revision # 1}
           H == {i \in O : ~Fresh(x, q[i])}
           With(r) == {i \in O : q[i].revision = r}
<1>1. /\ q \in Seq(Signal) /\ Len(q) \in Nat /\ OfferRetries \in Nat /\ x.seen \in Nat
      /\ \A i \in D : q[i] \in Signal /\ D \subseteq Int
  BY Limits, Elements DEF Typed
<1>2. Count(q) = Cardinality(F) /\ Count(q) \in Nat /\ Count(s) \in Nat /\ IsFiniteSet(F)
  BY <1>1, CountIsNat
<1>3. Cardinality(F) <= 1 + OfferRetries
  BY <1>1, <1>2 DEF Own
<1>4. \A i \in D : IsDescription(q[i]) => q[i] \in A
  BY <1>1, DescriptionIndex DEF In
<1>5. \A i, k \in D : i < k => Before(q[i], q[k])
  BY DEF Own, Sorted, Ordered
<1>6. ASSUME NEW i \in D, NEW k \in D, q[i].kind \in {"offer", "answer"},
             q[k].kind \in {"offer", "answer"}, q[i].revision = q[k].revision,
             ~FirstOffer(q[i])
      PROVE  i = k
  <2>1. IsDescription(q[i]) /\ IsDescription(q[k])
    BY <1>6 DEF IsDescription
  <2>2. ~Before(q[i], q[k]) /\ ~Before(q[k], q[i])
    BY <2>1, <1>1, <1>6 DEF Before, Signal
  <2> QED
    BY <2>2, <1>1, <1>5
<1>7. \A i, k \in N : i = k
  BY DEF Own, Queue
<1>8. \A i, k \in W : i = k
  <2> SUFFICES ASSUME NEW i \in W, NEW k \in W
               PROVE  i = k
    OBVIOUS
  <2>1. q[i] \in Answers(A) /\ q[k] \in Answers(A)
    BY <1>4 DEF Answers, IsDescription
  <2>2. q[i].revision = q[k].revision
    BY <2>1 DEF Own, Known
  <2> QED
    BY <2>2, <1>6 DEF FirstOffer
<1>9. \A r : \A i, k \in With(r) : i = k
  BY <1>6 DEF FirstOffer
<1>10. \A i, k \in H : i = k
  <2> SUFFICES ASSUME NEW i \in H, NEW k \in H
               PROVE  i = k
    OBVIOUS
  <2>1. q[i] \in A /\ q[k] \in A
    BY <1>4 DEF IsDescription
  <2>2. q[i].revision = x.seen /\ q[k].revision = x.seen
    BY <2>1 DEF Own, Known, FirstOffer
  <2> QED
    BY <2>2, <1>6 DEF FirstOffer
<1>11. \E r, t : O \subseteq H \cup (With(r) \cup With(t))
  <2>1. CASE \A i \in O : ~Fresh(x, q[i])
    BY <2>1
  <2>2. CASE \E i \in O : Fresh(x, q[i])
    <3>1. PICK i \in O : Fresh(x, q[i])
      BY <2>2
    <3>2. CASE \A k \in O : Fresh(x, q[k]) => q[k].revision = q[i].revision
      BY <3>2
    <3>3. CASE \E k \in O : Fresh(x, q[k]) /\ q[k].revision # q[i].revision
      <4>1. PICK k \in O : Fresh(x, q[k]) /\ q[k].revision # q[i].revision
        BY <3>3
      <4>2. ASSUME NEW j \in O, Fresh(x, q[j])
            PROVE  q[j].revision \in {q[i].revision, q[k].revision}
        <5>1. q[i] \in Offers(A) /\ q[j] \in Offers(A) /\ q[k] \in Offers(A)
          BY <1>4 DEF Offers, IsDescription
        <5> QED
          BY <5>1, <4>1, <4>2, <3>1 DEF Own, Known
      <4>3. O \subseteq H \cup (With(q[i].revision) \cup With(q[k].revision))
        BY <4>2
      <4> QED
        BY <4>3
    <3> QED
      BY <3>2, <3>3
  <2> QED
    BY <2>1, <2>2
<1>12. PICK r, t : O \subseteq H \cup (With(r) \cup With(t))
  BY <1>11
<1>13. ASSUME NEW i \in D
       PROVE  i \in N \/ i \in W \/ i \in F \/ i \in O
  <2>1. q[i].kind \in {"negotiate", "offer", "answer"}
    BY <1>1 DEF Own, Queue, Signal, Kinds
  <2> QED
    BY <2>1 DEF Firsts, FirstOffer
<1> HIDE DEF N, W, F, O, H, With, D
<1> DEFINE U1 == With(t) \cup F
           U2 == With(r) \cup U1
           U3 == H \cup U2
           U4 == W \cup U3
           U5 == N \cup U4
           c == 1 + OfferRetries
<1>14. D \subseteq U5
  BY <1>12, <1>13
<1>23. /\ c \in Nat /\ c + 1 \in Nat /\ c + 1 + 1 \in Nat /\ c + 1 + 1 + 1 \in Nat
       /\ c + 1 + 1 + 1 + 1 \in Nat /\ c + 1 + 1 + 1 + 1 + 1 <= OfferRetries + 6
  BY <1>1
<1>24. Cardinality(F) <= c
  BY <1>3
<1> HIDE DEF c
<1>15. IsFiniteSet(U1) /\ Cardinality(U1) <= c + 1
  <2>1. \A i, k \in With(t) : i = k
    BY <1>9
  <2> QED
    BY <2>1, <1>2, <1>24, <1>23, OneMore, Zenon
<1> HIDE DEF U1
<1>16. IsFiniteSet(U2) /\ Cardinality(U2) <= c + 1 + 1
  <2>1. \A i, k \in With(r) : i = k
    BY <1>9
  <2> QED
    BY <2>1, <1>15, <1>23, OneMore, Zenon
<1> HIDE DEF U2
<1>17. IsFiniteSet(U3) /\ Cardinality(U3) <= c + 1 + 1 + 1
  <2>1. \A i, k \in H : i = k
    BY <1>10
  <2> QED
    BY <2>1, <1>16, <1>23, OneMore, Zenon
<1> HIDE DEF U3
<1>18. IsFiniteSet(U4) /\ Cardinality(U4) <= c + 1 + 1 + 1 + 1
  <2>1. \A i, k \in W : i = k
    BY <1>8
  <2> QED
    BY <2>1, <1>17, <1>23, OneMore, Zenon
<1> HIDE DEF U4
<1>19. IsFiniteSet(U5) /\ Cardinality(U5) <= c + 1 + 1 + 1 + 1 + 1
  <2>1. \A i, k \in N : i = k
    BY <1>7
  <2> QED
    BY <2>1, <1>18, <1>23, OneMore, Zenon
<1> HIDE DEF U5
<1>20. Cardinality(D) <= Cardinality(U5)
  BY <1>14, <1>19, FS_Subset
<1>21. Cardinality(D) = Len(q)
  BY <1>1, IntervalSize DEF D
<1>22. Cardinality(U5) \in Nat
  BY <1>19, FS_CardinalityType
<1> QED
  BY <1>1, <1>19, <1>20, <1>21, <1>22, <1>23

-----------------------------------------------------------------------------
(***************************************************************************)
(* The link of an end e, that becomes z, with the other end p: what is on  *)
(* its way to them are the sequences s and t.                              *)
(***************************************************************************)

\* The link between a living end and the other one, if it lives,
Link(e, x, s, p, y, t, l) ==
  /\ Own(e, x, s)
  /\ Alive(y) => /\ Own(p, y, t)
                 /\ Pair(e, x, s, y, t, l) /\ Pair(p, y, t, x, s, l)

\* and the types of all that a link is made of.
Context(e, x, s, p, y, t) ==
  /\ e # p /\ Polite \in {e, p} /\ Typed(x) /\ s \in Seq(Signal)
  /\ t \in Seq(Signal) /\ (Alive(y) => Typed(y))

\* What an end knows of its own queue does not need the other end.
LEMMA OwnAlone ==
  ASSUME NEW e, NEW x, NEW s \in Seq(Signal), Typed(x), Own(e, x, s)
  PROVE  Alone(e, x, In(x, s)) /\ Known(e, x, In(x, s)) /\ Works(e, x)
BY DescriptionIndex DEF Alone, Own, In, Typed, Numbers

\* A link of two living ends gives what both know of each other.
LEMMA LinkBoth ==
  ASSUME NEW e, NEW x, NEW s, NEW p, NEW y, NEW t, NEW l,
         Context(e, x, s, p, y, t), Link(e, x, s, p, y, t, l), Alive(y)
  PROVE  /\ Both(e, x, In(x, s), p, y, In(y, t), l)
         /\ Ready(e, x, In(x, s), p, y, In(y, t))
         /\ Count(x.jobs) + Count(s) + y.retries <= 1 + OfferRetries
         /\ Count(y.jobs) + Count(t) + x.retries <= 1 + OfferRetries
<1>1. Alone(e, x, In(x, s)) /\ Known(e, x, In(x, s))
  BY OwnAlone DEF Context, Link
<1>2. Alone(p, y, In(y, t)) /\ Known(p, y, In(y, t))
  BY OwnAlone DEF Context, Link
<1> QED
  BY <1>1, <1>2 DEF Context, Link, Pair, Both, Ready

\* The link is rebuilt from its parts.
LEMMA BothLink ==
  ASSUME NEW e, NEW z, NEW s, NEW p, NEW y, NEW t, NEW l,
         Works(e, z), Queue(z), Sorted(z.jobs, s),
         Count(z.jobs) + Count(s) <= 1 + OfferRetries,
         ~Alive(y) => Known(e, z, In(z, s)),
         Alive(y) =>
           /\ Works(p, y) /\ Queue(y) /\ Sorted(y.jobs, t)
           /\ Count(y.jobs) + Count(t) <= 1 + OfferRetries
           /\ Both(e, z, In(z, s), p, y, In(y, t), l)
           /\ Count(z.jobs) + Count(s) + y.retries <= 1 + OfferRetries
           /\ Count(y.jobs) + Count(t) + z.retries <= 1 + OfferRetries
  PROVE  Link(e, z, s, p, y, t, l)
<1>1. Known(e, z, In(z, s)) /\ (Alive(y) => Known(p, y, In(y, t)))
  BY DEF Both
<1>2. Own(e, z, s)
  BY <1>1 DEF Own
<1>3. Alive(y) => Own(p, y, t)
  BY <1>1 DEF Own
<1>4. Alive(y) => Pair(e, z, s, y, t, l) /\ Pair(p, y, t, z, s, l)
  BY DEF Both, Pair
<1> QED
  BY <1>2, <1>3, <1>4 DEF Link

\* Nothing of the link changes but the number of repetitions left.
SameLink(x, z) ==
  /\ z.signaling = x.signaling /\ z.current = x.current /\ z.revision = x.revision
  /\ z.offered = x.offered /\ z.seen = x.seen /\ z.jobs = x.jobs /\ z.stage = x.stage
  /\ z.negotiating = x.negotiating

\* Only the fields of SameLink matter to a link; repetitions may be given up.
LEMMA LinkFrame ==
  ASSUME NEW e, NEW x, NEW s, NEW p, NEW y, NEW t, NEW l, NEW z,
         Context(e, x, s, p, y, t), Link(e, x, s, p, y, t, l),
         SameLink(x, z), z.retries \in Nat, z.retries <= x.retries
  PROVE  Link(e, z, s, p, y, t, l)
<1>1. Works(e, z) /\ Queue(z) /\ Sorted(z.jobs, s) /\ Count(z.jobs) + Count(s) <= 1 + OfferRetries
  BY DEF Link, Own, Works, Queue, SameLink, Fresh
<1>2. Known(e, z, In(z, s)) /\ In(z, s) = In(x, s)
  BY DEF Link, Own, Known, SameLink, In, Fresh
<1>3. ASSUME Alive(y)
      PROVE  /\ Works(p, y) /\ Queue(y) /\ Sorted(y.jobs, t)
             /\ Count(y.jobs) + Count(t) <= 1 + OfferRetries
             /\ Both(e, z, In(z, s), p, y, In(y, t), l)
             /\ Count(z.jobs) + Count(s) + y.retries <= 1 + OfferRetries
             /\ Count(y.jobs) + Count(t) + z.retries <= 1 + OfferRetries
  <2>1. Both(e, x, In(x, s), p, y, In(y, t), l)
    BY <1>3, LinkBoth
  <2>2. Both(e, z, In(x, s), p, y, In(y, t), l)
    BY <2>1, BothFrame DEF SameLink
  <2>3. /\ Count(y.jobs) \in Nat /\ Count(t) \in Nat /\ x.retries \in Nat /\ OfferRetries \in Nat
    BY <1>3, CountIsNat, Limits DEF Context, Typed
  <2>4. Count(y.jobs) + Count(t) + z.retries <= 1 + OfferRetries
    BY <1>3, <2>3, LinkBoth
  <2>5. Count(z.jobs) + Count(s) + y.retries <= 1 + OfferRetries
    BY <1>3, LinkBoth DEF SameLink
  <2> QED
    BY <1>2, <1>3, <2>2, <2>4, <2>5 DEF Link, Own
<1> QED
  BY <1>1, <1>2, <1>3, BothLink

\* What the arguments about a link need of it, in one place.
LEMMA LinkParts ==
  ASSUME NEW e, NEW x, NEW s, NEW p, NEW y, NEW t, NEW l,
         Context(e, x, s, p, y, t), Link(e, x, s, p, y, t, l)
  PROVE  /\ Works(e, x) /\ Queue(x) /\ Sorted(x.jobs, s)
         /\ Known(e, x, In(x, s)) /\ Alone(e, x, In(x, s))
         /\ x.jobs \in Seq(Signal) /\ s \in Seq(Signal) /\ t \in Seq(Signal)
         /\ OfferRetries \in Nat /\ Count(x.jobs) \in Nat /\ Count(s) \in Nat
         /\ Count(t) \in Nat /\ x.retries \in Nat
         /\ Count(x.jobs) + Count(s) <= 1 + OfferRetries
         /\ Alive(y) =>
              /\ Works(p, y) /\ Queue(y) /\ Sorted(y.jobs, t)
              /\ y.jobs \in Seq(Signal) /\ Count(y.jobs) \in Nat /\ y.retries \in Nat
              /\ Count(y.jobs) + Count(t) <= 1 + OfferRetries
              /\ Both(e, x, In(x, s), p, y, In(y, t), l)
              /\ Ready(e, x, In(x, s), p, y, In(y, t))
              /\ Count(x.jobs) + Count(s) + y.retries <= 1 + OfferRetries
              /\ Count(y.jobs) + Count(t) + x.retries <= 1 + OfferRetries
<1>1. /\ x.jobs \in Seq(Signal) /\ s \in Seq(Signal) /\ t \in Seq(Signal)
      /\ x.retries \in Nat /\ OfferRetries \in Nat
      /\ Alive(y) => y.jobs \in Seq(Signal) /\ y.retries \in Nat
  BY Limits DEF Context, Typed
<1>2. /\ Count(x.jobs) \in Nat /\ Count(s) \in Nat /\ Count(t) \in Nat
      /\ Alive(y) => Count(y.jobs) \in Nat
  BY <1>1, CountIsNat
<1>3. Own(e, x, s) /\ (Alive(y) => Own(p, y, t))
  BY DEF Link
<1>4. Works(e, x) /\ Known(e, x, In(x, s)) /\ Alone(e, x, In(x, s))
  BY <1>3, OwnAlone DEF Context
<1>5. Queue(x) /\ Sorted(x.jobs, s) /\ Count(x.jobs) + Count(s) <= 1 + OfferRetries
  BY <1>3 DEF Own
<1>6. Alive(y) => /\ Works(p, y) /\ Queue(y) /\ Sorted(y.jobs, t)
                  /\ Count(y.jobs) + Count(t) <= 1 + OfferRetries
  BY <1>3 DEF Own
<1> QED
  BY <1>1, <1>2, <1>4, <1>5, <1>6, LinkBoth

\* A signal that is no description is delivered.
LEMMA LinkCandidate ==
  ASSUME NEW e, NEW x, NEW s, NEW p, NEW y, NEW t, NEW l, NEW z,
         Context(e, x, s, p, y, t), Link(e, x, s, p, y, t, l),
         s # <<>>, ~IsDescription(Head(s)), SameLink(x, z), z.retries = x.retries
  PROVE  Link(e, z, Tail(s), p, y, t, l)
<1>1. /\ Works(e, x) /\ Queue(x) /\ Sorted(x.jobs, s) /\ Known(e, x, In(x, s))
      /\ Count(x.jobs) + Count(s) <= 1 + OfferRetries
      /\ x.jobs \in Seq(Signal) /\ s \in Seq(Signal) /\ x.retries \in Nat
  BY LinkParts
<1>2. /\ Sorted(x.jobs, Tail(s)) /\ Tail(s) \in Seq(Signal)
      /\ Descriptions(x.jobs, Tail(s)) = Descriptions(x.jobs, s)
  BY <1>1, SignalTail, TailIndex
<1>3. Count(Tail(s)) = Count(s) /\ In(x, Tail(s)) = In(x, s)
  <2>1. ~FirstOffer(Head(s))
    BY DEF FirstOffer, IsDescription
  <2>2. Count(Tail(s)) \in Nat
    BY <1>2, CountIsNat
  <2> QED
    BY <2>1, <2>2, <1>1, <1>2, CountTail DEF In
<1>4. Link(e, x, Tail(s), p, y, t, l)
  BY <1>1, <1>2, <1>3 DEF Link, Own, Pair
<1>5. Context(e, x, Tail(s), p, y, t)
  BY <1>2 DEF Context
<1> QED
  BY <1>1, <1>4, <1>5, LinkFrame

\* A candidate is posted.
LEMMA LinkPosted ==
  ASSUME NEW e, NEW x, NEW s, NEW p, NEW y, NEW t, NEW l, NEW z, NEW m \in Signal,
         Context(e, x, s, p, y, t), Link(e, x, s, p, y, t, l),
         ~IsDescription(m), SameLink(x, z), z.retries = x.retries
  PROVE  Link(e, z, s, p, y, t \o <<m>>, l)
<1>1. Link(e, x, s, p, y, t \o <<m>>, l)
  <2>1. CASE ~Alive(y)
    BY <2>1 DEF Link
  <2>2. CASE Alive(y)
    <3>1. Sorted(y.jobs, t) /\ y.jobs \in Seq(Signal) /\ t \in Seq(Signal) /\ Count(t) \in Nat
      BY <2>2, LinkParts
    <3>2. /\ t \o <<m>> = Append(t, m) /\ Sorted(y.jobs, t \o <<m>>)
          /\ Descriptions(y.jobs, t \o <<m>>) =
               Descriptions(y.jobs, t) \cup (IF IsDescription(m) THEN {m} ELSE {})
      <4>1. \A n \in Descriptions(y.jobs, t) : Before(n, m)
        BY DEF Before
      <4> QED
        BY <3>1, <4>1, PostSorted
    <3>3. In(y, t \o <<m>>) = In(y, t)
      BY <3>2 DEF In
    <3>4. Count(t \o <<m>>) = Count(t)
      <4>1. ~FirstOffer(m)
        BY DEF FirstOffer, IsDescription
      <4>2. Count(Append(t, m)) = Count(t)
        BY <3>1, <4>1, CountAppend
      <4> QED
        BY <3>2, <4>2, Zenon
    <3> QED
      BY <3>2, <3>3, <3>4 DEF Link, Own, Pair
  <2> QED
    BY <2>1, <2>2
<1>2. Context(e, x, s, p, y, t \o <<m>>)
  BY DEF Context
<1>3. z.retries \in Nat /\ z.retries <= x.retries
  BY LinkParts
<1> QED
  BY <1>1, <1>2, <1>3, LinkFrame

\* A description becomes a job.
LEMMA LinkQueued ==
  ASSUME NEW e, NEW x, NEW s, NEW p, NEW y, NEW t, NEW l, NEW z,
         Context(e, x, s, p, y, t), Link(e, x, s, p, y, t, l),
         s # <<>>, IsDescription(Head(s)), z.jobs = Append(x.jobs, Head(s)),
         z.signaling = x.signaling, z.current = x.current, z.revision = x.revision,
         z.offered = x.offered, z.seen = x.seen, z.stage = x.stage,
         z.negotiating = x.negotiating, z.retries = x.retries
  PROVE  Link(e, z, Tail(s), p, y, t, l)
<1> DEFINE m == Head(s)  r == Append(x.jobs, m)  s2 == Tail(s)
<1>1. /\ Works(e, x) /\ Queue(x) /\ Sorted(x.jobs, s) /\ Known(e, x, In(x, s))
      /\ x.jobs \in Seq(Signal) /\ s \in Seq(Signal) /\ x.retries \in Nat
      /\ Count(x.jobs) \in Nat /\ Count(s) \in Nat
      /\ Count(x.jobs) + Count(s) <= 1 + OfferRetries
  BY LinkParts
<1>2. Sorted(r, s2) /\ Descriptions(r, s2) = Descriptions(x.jobs, s)
  BY <1>1, MoveSorted
<1>3. m \in Signal /\ s2 \in Seq(Signal)
  BY <1>1, TailIndex
<1>4. /\ r \in Seq(Signal) /\ Len(x.jobs) \in Nat /\ Len(r) = Len(x.jobs) + 1
      /\ \A i \in 1..Len(x.jobs) : r[i] = x.jobs[i]
      /\ r[Len(x.jobs) + 1] = m
      /\ \A i \in 1..Len(r) : i \in 1..Len(x.jobs) \/ i = Len(x.jobs) + 1
  BY <1>1, <1>3, AppendIndex
<1>5. Count(r) + Count(s2) = Count(x.jobs) + Count(s)
  <2>1. Count(s2) \in Nat
    BY <1>3, CountIsNat
  <2> QED
    BY <2>1, <1>1, <1>3, CountAppend, CountTail
<1>6. r # <<>> /\ (x.jobs # <<>> => Head(r) = Head(x.jobs))
  <2>1. r # <<>>
    BY <1>4
  <2>2. x.jobs # <<>> => 1 \in 1..Len(x.jobs) /\ Head(x.jobs) = x.jobs[1]
    BY <1>1, TailIndex
  <2>3. Head(r) = r[1]
    BY <1>4, <2>1, TailIndex
  <2> QED
    BY <2>1, <2>2, <2>3, <1>4
<1>7. In(z, s2) = In(x, s)
  BY <1>2 DEF In
<1> HIDE DEF m, r, s2
<1>8. Works(e, z)
  <2>1. x.stage # "idle" => Head(z.jobs) = Head(x.jobs) /\ z.jobs # <<>>
    BY <1>1, <1>6 DEF Works, r, m
  <2> QED
    BY <1>1, <2>1 DEF Works, Fresh
<1>9. Queue(z)
  <2>1. m.kind # "candidate" /\ m.kind # "negotiate" /\ z.jobs = r
    BY DEF IsDescription, m, r
  <2> QED
    BY <1>1, <1>4, <2>1 DEF Queue
<1>10. Known(e, z, In(z, s2))
  BY <1>1, <1>7 DEF Known, Fresh
<1>11. Sorted(z.jobs, s2) /\ Count(z.jobs) + Count(s2) = Count(x.jobs) + Count(s)
  BY <1>2, <1>5 DEF r, m
<1>12. Alive(y) => /\ Works(p, y) /\ Queue(y) /\ Sorted(y.jobs, t)
                   /\ Count(y.jobs) + Count(t) <= 1 + OfferRetries
                   /\ Both(e, z, In(z, s2), p, y, In(y, t), l)
                   /\ Count(z.jobs) + Count(s2) + y.retries <= 1 + OfferRetries
                   /\ Count(y.jobs) + Count(t) + z.retries <= 1 + OfferRetries
  <2> SUFFICES ASSUME Alive(y)
               PROVE  Both(e, z, In(x, s), p, y, In(y, t), l)
    BY <1>7, <1>11, LinkParts
  <2>1. Both(e, x, In(x, s), p, y, In(y, t), l)
    BY LinkBoth
  <2> QED
    BY <2>1, BothFrame
<1>13. Link(e, z, s2, p, y, t, l)
  BY <1>1, <1>8, <1>9, <1>10, <1>11, <1>12, BothLink
<1> QED
  BY <1>13 DEF s2

\* An end puts a negotiation into its queue.
LEMMA LinkNegotiate ==
  ASSUME NEW e, NEW x, NEW s, NEW p, NEW y, NEW t, NEW l, NEW z,
         Context(e, x, s, p, y, t), Link(e, x, s, p, y, t, l),
         z.jobs = Append(x.jobs, NegotiateJob), ~x.negotiating, z.negotiating,
         z.signaling = x.signaling, z.current = x.current, z.revision = x.revision,
         z.offered = x.offered, z.seen = x.seen, z.stage = x.stage,
         z.retries = x.retries
  PROVE  Link(e, z, s, p, y, t, l)
<1> DEFINE m == NegotiateJob  r == Append(x.jobs, m)
<1>1. /\ Works(e, x) /\ Queue(x) /\ Sorted(x.jobs, s) /\ Known(e, x, In(x, s))
      /\ x.jobs \in Seq(Signal) /\ s \in Seq(Signal) /\ x.retries \in Nat
      /\ Count(x.jobs) \in Nat /\ Count(s) \in Nat
      /\ Count(x.jobs) + Count(s) <= 1 + OfferRetries
  BY LinkParts
<1>2. m \in Signal /\ ~IsDescription(m) /\ m.kind = "negotiate" /\ ~FirstOffer(m)
  BY DEF NegotiateJob, Description, Signal, Kinds, IsDescription, FirstOffer
<1>3. Sorted(r, s) /\ Descriptions(r, s) = Descriptions(x.jobs, s)
  BY <1>1, <1>2, NegotiateSorted
<1>4. /\ r \in Seq(Signal) /\ Len(x.jobs) \in Nat /\ Len(r) = Len(x.jobs) + 1
      /\ \A i \in 1..Len(x.jobs) : r[i] = x.jobs[i]
      /\ r[Len(x.jobs) + 1] = m
      /\ \A i \in 1..Len(r) : i \in 1..Len(x.jobs) \/ i = Len(x.jobs) + 1
  BY <1>1, <1>2, AppendIndex
<1>5. Count(r) = Count(x.jobs)
  BY <1>1, <1>2, CountAppend
<1>6. r # <<>> /\ (x.jobs # <<>> => Head(r) = Head(x.jobs))
  <2>1. r # <<>>
    BY <1>4
  <2>2. x.jobs # <<>> => 1 \in 1..Len(x.jobs) /\ Head(x.jobs) = x.jobs[1]
    BY <1>1, TailIndex
  <2>3. Head(r) = r[1]
    BY <1>4, <2>1, TailIndex
  <2> QED
    BY <2>1, <2>2, <2>3, <1>4
<1>7. In(z, s) = In(x, s)
  BY <1>3 DEF In
<1> HIDE DEF m, r
<1>8. Works(e, z)
  <2>1. x.stage # "idle" => Head(z.jobs) = Head(x.jobs) /\ z.jobs # <<>>
    BY <1>1, <1>6 DEF Works, r, m
  <2> QED
    BY <1>1, <2>1 DEF Works, Fresh
<1>9. Queue(z)
  <2>1. z.jobs = r
    BY DEF r, m
  <2>2. \A i \in 1..Len(x.jobs) : x.jobs[i].kind # "candidate" /\ x.jobs[i].kind # "negotiate"
    BY <1>1 DEF Queue
  <2> QED
    BY <1>2, <1>4, <2>1, <2>2 DEF Queue
<1>10. Known(e, z, In(z, s))
  BY <1>1, <1>7 DEF Known, Fresh
<1>11. Sorted(z.jobs, s) /\ Count(z.jobs) = Count(x.jobs)
  BY <1>3, <1>5 DEF r, m
<1>12. Alive(y) => /\ Works(p, y) /\ Queue(y) /\ Sorted(y.jobs, t)
                   /\ Count(y.jobs) + Count(t) <= 1 + OfferRetries
                   /\ Both(e, z, In(z, s), p, y, In(y, t), l)
                   /\ Count(z.jobs) + Count(s) + y.retries <= 1 + OfferRetries
                   /\ Count(y.jobs) + Count(t) + z.retries <= 1 + OfferRetries
  <2> SUFFICES ASSUME Alive(y)
               PROVE  Both(e, z, In(x, s), p, y, In(y, t), l)
    BY <1>7, <1>11, LinkParts
  <2>1. Both(e, x, In(x, s), p, y, In(y, t), l)
    BY LinkBoth
  <2> QED
    BY <2>1, BothFrame
<1> QED
  BY <1>1, <1>8, <1>9, <1>10, <1>11, <1>12, BothLink

\* The head of the queue leaves it, and the queue is in order after that.
LEMMA QueueTail ==
  ASSUME NEW x, NEW z, x.jobs \in Seq(Signal), x.jobs # <<>>, Queue(x),
         z.jobs = Tail(x.jobs),
         \/ z.negotiating = x.negotiating
         \/ Head(x.jobs).kind = "negotiate"
  PROVE  Queue(z)
<1>1. /\ Len(Tail(x.jobs)) = Len(x.jobs) - 1 /\ Len(x.jobs) \in Nat /\ Len(x.jobs) >= 1
      /\ Head(x.jobs) = x.jobs[1] /\ 1 \in 1..Len(x.jobs)
      /\ \A i \in 1..Len(z.jobs) : i + 1 \in 1..Len(x.jobs) /\ z.jobs[i] = x.jobs[i + 1]
  BY TailIndex
<1> SUFFICES ASSUME NEW i \in 1..Len(z.jobs)
             PROVE  /\ z.jobs[i].kind # "candidate"
                    /\ z.jobs[i].kind = "negotiate" =>
                         z.negotiating
                         /\ \A k \in 1..Len(z.jobs) : z.jobs[k].kind = "negotiate" => k = i
  BY DEF Queue
<1>2. i + 1 \in 1..Len(x.jobs) /\ z.jobs[i] = x.jobs[i + 1] /\ i \in Int /\ i >= 1
  BY <1>1
<1>3. z.jobs[i].kind # "candidate"
  BY <1>2 DEF Queue
<1>4. ASSUME z.jobs[i].kind = "negotiate"
      PROVE  /\ z.negotiating
             /\ \A k \in 1..Len(z.jobs) : z.jobs[k].kind = "negotiate" => k = i
  <2>1. /\ x.negotiating
        /\ \A k \in 1..Len(x.jobs) : x.jobs[k].kind = "negotiate" => k = i + 1
    BY <1>2, <1>4 DEF Queue
  <2>2. Head(x.jobs).kind # "negotiate"
    BY <2>1, <1>1, <1>2
  <2>3. ASSUME NEW k \in 1..Len(z.jobs), z.jobs[k].kind = "negotiate"
        PROVE  k = i
    <3>1. k + 1 \in 1..Len(x.jobs) /\ z.jobs[k] = x.jobs[k + 1] /\ k \in Int
      BY <1>1
    <3>2. k + 1 = i + 1
      BY <3>1, <2>1, <2>3
    <3> QED
      BY <3>1, <3>2, <1>2
  <2> QED
    BY <2>1, <2>2, <2>3
<1> QED
  BY <1>3, <1>4

\* What the queue of an end holds, once its head has left it.
Leaves(x, s, z) ==
  /\ Queue(z) /\ Sorted(z.jobs, s) /\ In(z, s) \subseteq In(x, s)
  /\ Head(x.jobs) \in Signal
  /\ IF IsDescription(Head(x.jobs)) THEN Taken(Head(x.jobs), In(x, s), In(z, s))
     ELSE In(z, s) = In(x, s)
  /\ Count(z.jobs) \in Nat
  /\ Count(x.jobs) = Count(z.jobs) + (IF FirstOffer(Head(x.jobs)) THEN 1 ELSE 0)

\* The job of an end leaves its queue: Leaves holds of what is left.
LEMMA JobDone ==
  ASSUME NEW e, NEW x, NEW s, NEW p, NEW y, NEW t, NEW l, NEW z,
         Context(e, x, s, p, y, t), Link(e, x, s, p, y, t, l),
         x.jobs # <<>>, z.jobs = Tail(x.jobs),
         z.negotiating = x.negotiating \/ Head(x.jobs).kind = "negotiate"
  PROVE  Leaves(x, s, z)
<1>1. x.jobs \in Seq(Signal) /\ s \in Seq(Signal) /\ Queue(x) /\ Sorted(x.jobs, s)
  BY LinkParts
<1>2. Queue(z)
  BY <1>1, QueueTail
<1>3. /\ Sorted(z.jobs, s)
      /\ Descriptions(z.jobs, s) \subseteq Descriptions(x.jobs, s)
      /\ Descriptions(x.jobs, s) \subseteq Descriptions(z.jobs, s) \cup {Head(x.jobs)}
      /\ \A n \in Descriptions(z.jobs, s) : Before(Head(x.jobs), n)
      /\ IsDescription(Head(x.jobs)) => Head(x.jobs) \in Descriptions(x.jobs, s)
  BY <1>1, TailSorted
<1>4. Head(x.jobs) \in Signal /\ z.jobs \in Seq(Signal)
  BY <1>1, TailIndex
<1>5. \A n \in Descriptions(x.jobs, s) : IsDescription(n)
  BY <1>1, DescriptionIndex
<1>6. IF IsDescription(Head(x.jobs)) THEN Taken(Head(x.jobs), In(x, s), In(z, s))
      ELSE In(z, s) = In(x, s)
  BY <1>3, <1>5, SMTT(30) DEF Taken, In
<1> QED
  BY <1>1, <1>2, <1>3, <1>4, <1>6, CountTail, CountIsNat DEF In, Leaves

\* Only a stable connection offers: the negotiation is dropped.
LEMMA LinkUnstable ==
  ASSUME NEW e, NEW x, NEW s, NEW p, NEW y, NEW t, NEW l, NEW z,
         Context(e, x, s, p, y, t), Link(e, x, s, p, y, t, l),
         x.stage = "idle", x.jobs # <<>>, Head(x.jobs).kind = "negotiate",
         z.stage = "idle", z.jobs = Tail(x.jobs),
         z.signaling = x.signaling, z.current = x.current, z.revision = x.revision,
         z.offered = x.offered, z.seen = x.seen, z.retries = x.retries
  PROVE  Link(e, z, s, p, y, t, l)
<1>1. Works(e, x) /\ Known(e, x, In(x, s)) /\ Count(x.jobs) + Count(s) <= 1 + OfferRetries
  BY LinkParts
<1>2. ~IsDescription(Head(x.jobs)) /\ ~FirstOffer(Head(x.jobs))
  BY DEF IsDescription, FirstOffer
<1>3. /\ Queue(z) /\ Sorted(z.jobs, s) /\ In(z, s) = In(x, s) /\ Count(z.jobs) \in Nat
      /\ Count(x.jobs) = Count(z.jobs)
  <2>1. Leaves(x, s, z)
    BY JobDone
  <2> QED
    BY <2>1, <1>2 DEF Leaves
<1>4. Works(e, z) /\ Known(e, z, In(z, s))
  BY <1>1, <1>3 DEF Works, Known, Fresh
<1>5. Alive(y) => /\ Works(p, y) /\ Queue(y) /\ Sorted(y.jobs, t)
                  /\ Count(y.jobs) + Count(t) <= 1 + OfferRetries
                  /\ Both(e, z, In(z, s), p, y, In(y, t), l)
                  /\ Count(z.jobs) + Count(s) + y.retries <= 1 + OfferRetries
                  /\ Count(y.jobs) + Count(t) + z.retries <= 1 + OfferRetries
  <2> SUFFICES ASSUME Alive(y)
               PROVE  Both(e, z, In(x, s), p, y, In(y, t), l)
    BY <1>3, LinkParts
  <2>1. Both(e, x, In(x, s), p, y, In(y, t), l)
    BY LinkBoth
  <2> QED
    BY <2>1, BothFrame
<1>6. Count(z.jobs) + Count(s) <= 1 + OfferRetries
  BY <1>1, <1>3
<1> QED
  BY <1>3, <1>4, <1>5, <1>6, BothLink

\* An offer is begun.
LEMMA LinkStart ==
  ASSUME NEW e, NEW x, NEW s, NEW p, NEW y, NEW t, NEW l, NEW z,
         Context(e, x, s, p, y, t), Link(e, x, s, p, y, t, l),
         x.stage = "idle", x.jobs # <<>>, Head(x.jobs).kind = "negotiate",
         x.signaling = "stable", z.stage = "offer", z.revision = x.revision + 1,
         z.signaling = x.signaling, z.current = x.current, z.jobs = x.jobs,
         z.offered = x.offered, z.seen = x.seen, z.retries = x.retries,
         z.negotiating = x.negotiating
  PROVE  Link(e, z, s, p, y, t, l)
<1>1. /\ Works(e, x) /\ Known(e, x, In(x, s)) /\ Queue(x) /\ Sorted(x.jobs, s)
      /\ Count(x.jobs) + Count(s) <= 1 + OfferRetries
  BY LinkParts
<1>2. x.revision \in Nat /\ x.offered \in Nat /\ x.seen \in Nat
  BY DEF Context, Typed
<1>3. Works(e, z) /\ Known(e, z, In(x, s)) /\ Queue(z) /\ In(z, s) = In(x, s)
  BY <1>1, <1>2 DEF Works, Known, Fresh, Queue, In
<1>4. Alive(y) => /\ Works(p, y) /\ Queue(y) /\ Sorted(y.jobs, t)
                  /\ Count(y.jobs) + Count(t) <= 1 + OfferRetries
                  /\ Both(e, z, In(z, s), p, y, In(y, t), l)
                  /\ Count(z.jobs) + Count(s) + y.retries <= 1 + OfferRetries
                  /\ Count(y.jobs) + Count(t) + z.retries <= 1 + OfferRetries
  <2> SUFFICES ASSUME Alive(y)
               PROVE  Both(e, z, In(x, s), p, y, In(y, t), l)
    BY <1>3, LinkParts
  <2>1. Both(e, x, In(x, s), p, y, In(y, t), l) /\ Ready(e, x, In(x, s), p, y, In(y, t))
    BY LinkBoth
  <2> QED
    BY <2>1, BothStart
<1> QED
  BY <1>1, <1>3, <1>4, BothLink

\* What the next description can be, when no other call is running.
LEMMA NextDescription ==
  ASSUME NEW e, NEW x, NEW s, NEW p, NEW y, NEW t, NEW l,
         Context(e, x, s, p, y, t), Link(e, x, s, p, y, t, l),
         x.jobs # <<>>, IsDescription(Head(x.jobs))
  PROVE  LET m == Head(x.jobs) IN
         /\ m \in Signal /\ m \in In(x, s) /\ m.revision > 0
         /\ \A n \in In(x, s) : n = m \/ Before(m, n)
         /\ m.kind = "answer" /\ x.stage = "idle" =>
              x.signaling = "local" /\ m.reply = x.offered /\ Fresh(x, m)
<1> DEFINE m == Head(x.jobs)
<1>1. /\ x.jobs \in Seq(Signal) /\ s \in Seq(Signal) /\ Sorted(x.jobs, s) /\ Works(e, x)
      /\ Known(e, x, In(x, s))
  BY LinkParts
<1>2. /\ m \in Signal /\ m \in In(x, s)
      /\ \A n \in In(x, s) : n = m \/ Before(m, n)
  BY <1>1, TailIndex, TailSorted DEF In
<1>3. m.revision > 0
  BY <1>1, <1>2 DEF Known
<1>4. m.kind = "answer" /\ x.stage = "idle" =>
        x.signaling = "local" /\ m.reply = x.offered /\ Fresh(x, m)
  BY <1>1, <1>2 DEF Known, Answers, Works, FirstOffer
<1> QED
  BY <1>2, <1>3, <1>4

\* An offer is dropped.
LEMMA LinkDrop ==
  ASSUME NEW e, NEW x, NEW s, NEW p, NEW y, NEW t, NEW l, NEW z,
         Context(e, x, s, p, y, t), Link(e, x, s, p, y, t, l),
         x.stage = "idle", x.jobs # <<>>, Head(x.jobs).kind = "offer",
         ~Fresh(x, Head(x.jobs)) \/ (e # Polite /\ x.offered # 0),
         z.stage = "idle", z.jobs = Tail(x.jobs),
         z.signaling = x.signaling, z.current = x.current, z.revision = x.revision,
         z.offered = x.offered, z.seen = x.seen, z.retries = x.retries,
         z.negotiating = x.negotiating
  PROVE  Link(e, z, s, p, y, t, l)
<1>1. /\ Works(e, x) /\ Known(e, x, In(x, s)) /\ Count(x.jobs) + Count(s) <= 1 + OfferRetries
      /\ Count(s) \in Nat /\ OfferRetries \in Nat
  BY LinkParts
<1>2. IsDescription(Head(x.jobs))
  BY DEF IsDescription
<1>3. /\ Queue(z) /\ Sorted(z.jobs, s) /\ Taken(Head(x.jobs), In(x, s), In(z, s))
      /\ Count(z.jobs) \in Nat /\ Count(x.jobs) \in Nat /\ Count(z.jobs) <= Count(x.jobs)
  <2>1. Leaves(x, s, z)
    BY JobDone
  <2> QED
    BY <2>1, <1>2 DEF Leaves
<1>4. Works(e, z)
  BY <1>1 DEF Works, Fresh
<1>5. Known(e, z, In(z, s))
  BY <1>1, <1>3, KnownLess DEF Taken
<1>6. Alive(y) => /\ Works(p, y) /\ Queue(y) /\ Sorted(y.jobs, t)
                  /\ Count(y.jobs) + Count(t) <= 1 + OfferRetries
                  /\ Both(e, z, In(z, s), p, y, In(y, t), l)
                  /\ Count(z.jobs) + Count(s) + y.retries <= 1 + OfferRetries
                  /\ Count(y.jobs) + Count(t) + z.retries <= 1 + OfferRetries
  <2> SUFFICES ASSUME Alive(y)
               PROVE  Both(e, z, In(z, s), p, y, In(y, t), l)
    BY <1>1, <1>3, LinkParts
  <2>1. Both(e, x, In(x, s), p, y, In(y, t), l) /\ Ready(e, x, In(x, s), p, y, In(y, t))
    BY LinkBoth
  <2> QED
    BY <2>1, <1>3, BothDrop
<1>7. Count(z.jobs) + Count(s) <= 1 + OfferRetries
  BY <1>1, <1>3
<1> QED
  BY <1>3, <1>4, <1>5, <1>6, <1>7, BothLink

\* The browser is asked to apply a description.
LEMMA LinkApply ==
  ASSUME NEW e, NEW x, NEW s, NEW p, NEW y, NEW t, NEW l, NEW z,
         Context(e, x, s, p, y, t), Link(e, x, s, p, y, t, l),
         x.stage = "idle", x.jobs # <<>>, IsDescription(Head(x.jobs)),
         Fresh(x, Head(x.jobs)),
         Head(x.jobs).kind = "offer" /\ e # Polite => x.signaling = "stable",
         z.stage = "remote", z.jobs = x.jobs,
         z.signaling = x.signaling, z.current = x.current, z.revision = x.revision,
         z.offered = x.offered, z.seen = x.seen, z.retries = x.retries,
         z.negotiating = x.negotiating
  PROVE  Link(e, z, s, p, y, t, l)
<1>1. /\ Works(e, x) /\ Known(e, x, In(x, s)) /\ Queue(x) /\ Sorted(x.jobs, s)
      /\ Count(x.jobs) + Count(s) <= 1 + OfferRetries
  BY LinkParts
<1>2. Head(x.jobs).kind = "answer" => x.signaling = "local" /\ Head(x.jobs).reply = x.offered
  BY NextDescription
<1>3. Works(e, z) /\ Known(e, z, In(x, s)) /\ Queue(z) /\ In(z, s) = In(x, s)
  BY <1>1, <1>2 DEF Works, Known, Fresh, Queue, In
<1>4. Alive(y) => /\ Works(p, y) /\ Queue(y) /\ Sorted(y.jobs, t)
                  /\ Count(y.jobs) + Count(t) <= 1 + OfferRetries
                  /\ Both(e, z, In(z, s), p, y, In(y, t), l)
                  /\ Count(z.jobs) + Count(s) + y.retries <= 1 + OfferRetries
                  /\ Count(y.jobs) + Count(t) + z.retries <= 1 + OfferRetries
  <2> SUFFICES ASSUME Alive(y)
               PROVE  Both(e, z, In(x, s), p, y, In(y, t), l)
    BY <1>3, LinkParts
  <2>1. Both(e, x, In(x, s), p, y, In(y, t), l) /\ Ready(e, x, In(x, s), p, y, In(y, t))
    BY LinkBoth
  <2> QED
    BY <2>1, BothApply
<1> QED
  BY <1>1, <1>3, <1>4, BothLink

\* Where no description is a first offer none is counted.
LEMMA CountNone ==
  ASSUME NEW q \in Seq(Signal), NEW s \in Seq(Signal),
         \A m \in Descriptions(q, s) : ~FirstOffer(m)
  PROVE  Count(q) = 0 /\ Count(s) = 0
<1>1. \A i \in 1..Len(q) : ~FirstOffer(q[i])
  BY DescriptionIndex DEF FirstOffer, IsDescription
<1>2. \A i \in 1..Len(s) : ~FirstOffer(s[i])
  BY DescriptionIndex DEF FirstOffer, IsDescription
<1>3. Firsts(q) = {} /\ Firsts(s) = {}
  BY <1>1, <1>2 DEF Firsts
<1> QED
  BY <1>3, CountIsNat, FS_EmptySet

\* What the queue towards the other end is, once a description is posted.
Posted(y, t, m) ==
  /\ Sorted(y.jobs, t \o <<m>>) /\ t \o <<m>> \in Seq(Signal)
  /\ In(y, t \o <<m>>) = In(y, t) \cup {m}
  /\ Count(t \o <<m>>) = Count(t) + (IF FirstOffer(m) THEN 1 ELSE 0)

\* A description newer than all others is posted: Posted holds of it.
LEMMA Posting ==
  ASSUME NEW y, NEW t \in Seq(Signal), NEW m \in Signal, y.jobs \in Seq(Signal),
         IsDescription(m), Sorted(y.jobs, t), \A n \in In(y, t) : Before(n, m)
  PROVE  Posted(y, t, m)
<1>1. /\ t \o <<m>> = Append(t, m) /\ t \o <<m>> \in Seq(Signal)
      /\ Sorted(y.jobs, t \o <<m>>)
      /\ Descriptions(y.jobs, t \o <<m>>) = Descriptions(y.jobs, t) \cup {m}
  BY PostSorted DEF In
<1>2. Count(Append(t, m)) = Count(t) + (IF FirstOffer(m) THEN 1 ELSE 0)
  BY CountAppend
<1>3. Count(t \o <<m>>) = Count(t) + (IF FirstOffer(m) THEN 1 ELSE 0)
  BY <1>1, <1>2, Zenon
<1> HIDE DEF FirstOffer
<1> QED
  BY <1>1, <1>3 DEF Posted, In

\* The offer is in force here and sent.
LEMMA LinkOffer ==
  ASSUME NEW e, NEW x, NEW s, NEW p, NEW y, NEW t, NEW l, NEW z, NEW r \in Nat, NEW m,
         Context(e, x, s, p, y, t), Link(e, x, s, p, y, t, l),
         x.stage = "offer", m = Description("offer", x.revision, r),
         z.stage = "idle", z.jobs = Tail(x.jobs), z.signaling = "local",
         z.revision = x.revision, z.offered = x.revision, z.seen = x.seen,
         z.current = x.current,
         z.retries = IF x.revision = 1 THEN OfferRetries ELSE 0
  PROVE  Link(e, z, s, p, y, t \o <<m>>, l)
<1>1. /\ Works(e, x) /\ Known(e, x, In(x, s)) /\ Count(x.jobs) + Count(s) <= 1 + OfferRetries
      /\ Count(s) \in Nat /\ Count(x.jobs) \in Nat /\ OfferRetries \in Nat /\ t \in Seq(Signal)
      /\ Count(t) \in Nat
  BY LinkParts
<1>2. /\ x.jobs # <<>> /\ Head(x.jobs).kind = "negotiate" /\ x.signaling = "stable"
      /\ x.offered = 0 /\ x.revision \in Nat /\ x.revision > 0
  BY <1>1 DEF Works, Context, Typed
<1>3. ~IsDescription(Head(x.jobs)) /\ ~FirstOffer(Head(x.jobs))
  BY <1>2 DEF IsDescription, FirstOffer
<1>4. /\ Queue(z) /\ Sorted(z.jobs, s) /\ In(z, s) = In(x, s)
      /\ Count(z.jobs) = Count(x.jobs)
  <2>1. Leaves(x, s, z)
    BY <1>2, JobDone
  <2> QED
    BY <2>1, <1>3 DEF Leaves
<1>5. Works(e, z) /\ Known(e, z, In(z, s))
  BY <1>1, <1>2, <1>4, KnownOffer DEF Works
<1>6. /\ m \in Signal /\ m.kind = "offer" /\ m.revision = x.revision /\ IsDescription(m)
      /\ FirstOffer(m) <=> x.revision = 1
  BY <1>2 DEF Description, Signal, Kinds, IsDescription, FirstOffer
<1>7. ASSUME Alive(y)
      PROVE  /\ Works(p, y) /\ Queue(y) /\ Sorted(y.jobs, t \o <<m>>)
             /\ Count(y.jobs) + Count(t \o <<m>>) <= 1 + OfferRetries
             /\ Both(e, z, In(z, s), p, y, In(y, t \o <<m>>), l)
             /\ Count(z.jobs) + Count(s) + y.retries <= 1 + OfferRetries
             /\ Count(y.jobs) + Count(t \o <<m>>) + z.retries <= 1 + OfferRetries
  <2>1. /\ Both(e, x, In(x, s), p, y, In(y, t), l) /\ Ready(e, x, In(x, s), p, y, In(y, t))
        /\ Works(p, y) /\ Queue(y) /\ Sorted(y.jobs, t) /\ y.jobs \in Seq(Signal)
        /\ Count(y.jobs) \in Nat /\ y.retries \in Nat
        /\ Count(y.jobs) + Count(t) <= 1 + OfferRetries
        /\ Count(x.jobs) + Count(s) + y.retries <= 1 + OfferRetries
    BY <1>7, LinkParts
  <2>2. \A n \in In(y, t) : n.revision < x.revision /\ n.revision > 0 /\ n.revision \in Nat
    BY <2>1 DEF Both, Toward, Sent, Sending, Known, Ready, Alone, Signal
  <2>3. Posted(y, t, m)
    BY <2>1, <2>2, <1>1, <1>6, Posting DEF Before
  <2>4. Both(e, z, In(x, s), p, y, In(y, t) \cup {m}, l)
    BY <2>1, BothOffer
  <2>7. Sorted(y.jobs, t \o <<m>>) /\ Both(e, z, In(z, s), p, y, In(y, t \o <<m>>), l)
    BY <2>3, <2>4, <1>4 DEF Posted
  <2>5. CASE x.revision = 1
    <3>1. \A n \in In(y, t) : ~FirstOffer(n)
      BY <2>2, <2>5 DEF FirstOffer
    <3>2. Count(y.jobs) = 0 /\ Count(t) = 0
      BY <3>1, <2>1, <1>1, CountNone DEF In
    <3>3. Count(t \o <<m>>) = 1 /\ z.retries = OfferRetries
      BY <3>2, <2>3, <2>5, <1>6 DEF Posted
    <3> QED
      BY <3>2, <3>3, <2>1, <2>7, <1>1, <1>4
  <2>6. CASE x.revision # 1
    <3>1. Count(t \o <<m>>) = Count(t) /\ z.retries = 0
      BY <2>3, <2>6, <1>1, <1>6 DEF Posted
    <3> QED
      BY <3>1, <2>1, <2>7, <1>1, <1>4
  <2> QED
    BY <2>5, <2>6
<1>8. Count(z.jobs) + Count(s) <= 1 + OfferRetries
  BY <1>1, <1>4
<1> QED
  BY <1>4, <1>5, <1>7, <1>8, BothLink

\* The answer to the own offer is in force.
LEMMA LinkAnswered ==
  ASSUME NEW e, NEW x, NEW s, NEW p, NEW y, NEW t, NEW l, NEW z,
         Context(e, x, s, p, y, t), Link(e, x, s, p, y, t, l),
         x.stage = "remote", Head(x.jobs).kind = "answer",
         z.stage = "idle", z.jobs = Tail(x.jobs), z.signaling = "stable",
         z.revision = x.revision, z.offered = 0, z.seen = Head(x.jobs).revision,
         z.current = [offerer |-> e, revision |-> x.offered], z.retries = 0,
         z.negotiating = x.negotiating
  PROVE  Link(e, z, s, p, y, t, l)
<1>1. /\ Works(e, x) /\ Known(e, x, In(x, s)) /\ Count(x.jobs) + Count(s) <= 1 + OfferRetries
      /\ Alone(e, x, In(x, s)) /\ Count(s) \in Nat /\ OfferRetries \in Nat /\ x.retries \in Nat
  BY LinkParts
<1>2. IsDescription(Head(x.jobs)) /\ x.jobs # <<>> /\ x.revision \in Nat
      /\ ~FirstOffer(Head(x.jobs))
  BY <1>1 DEF IsDescription, Works, FirstOffer, Context, Typed
<1>3. /\ Queue(z) /\ Sorted(z.jobs, s) /\ Taken(Head(x.jobs), In(x, s), In(z, s))
      /\ Count(z.jobs) = Count(x.jobs)
  <2>1. Leaves(x, s, z)
    BY <1>2, JobDone
  <2> QED
    BY <2>1, <1>2 DEF Leaves
<1>4. Works(e, z)
  BY <1>2 DEF Works
<1>5. Known(e, z, In(z, s))
  BY <1>1, <1>3, KnownAnswered
<1>6. Alive(y) => /\ Works(p, y) /\ Queue(y) /\ Sorted(y.jobs, t)
                  /\ Count(y.jobs) + Count(t) <= 1 + OfferRetries
                  /\ Both(e, z, In(z, s), p, y, In(y, t), l)
                  /\ Count(z.jobs) + Count(s) + y.retries <= 1 + OfferRetries
                  /\ Count(y.jobs) + Count(t) + z.retries <= 1 + OfferRetries
  <2> SUFFICES ASSUME Alive(y)
               PROVE  Both(e, z, In(z, s), p, y, In(y, t), l)
    BY <1>1, <1>3, LinkParts
  <2>1. Both(e, x, In(x, s), p, y, In(y, t), l) /\ Ready(e, x, In(x, s), p, y, In(y, t))
    BY LinkBoth
  <2> QED
    BY <2>1, <1>3, BothAnswered
<1>7. Count(z.jobs) + Count(s) <= 1 + OfferRetries
  BY <1>1, <1>3
<1> QED
  BY <1>3, <1>4, <1>5, <1>6, <1>7, BothLink

\* The offer of the other end is in force.
LEMMA LinkAccept ==
  ASSUME NEW e, NEW x, NEW s, NEW p, NEW y, NEW t, NEW l, NEW z,
         Context(e, x, s, p, y, t), Link(e, x, s, p, y, t, l),
         x.stage = "remote", Head(x.jobs).kind = "offer",
         z.stage = "answer", z.jobs = x.jobs, z.signaling = "remote",
         z.revision = x.revision + 1, z.offered = 0, z.seen = Head(x.jobs).revision,
         z.current = x.current, z.retries = 0, z.negotiating = x.negotiating
  PROVE  Link(e, z, s, p, y, t, l)
<1>1. /\ Works(e, x) /\ Known(e, x, In(x, s)) /\ Count(x.jobs) + Count(s) <= 1 + OfferRetries
      /\ Alone(e, x, In(x, s)) /\ Queue(x) /\ Sorted(x.jobs, s) /\ x.retries \in Nat
  BY LinkParts
<1>2. /\ IsDescription(Head(x.jobs)) /\ x.jobs # <<>> /\ x.revision \in Nat
      /\ Fresh(x, Head(x.jobs)) /\ (e # Polite => x.offered = 0)
  BY <1>1 DEF IsDescription, Works, Context, Typed
<1>3. Head(x.jobs) \in In(x, s) /\ \A n \in In(x, s) : n = Head(x.jobs) \/ Before(Head(x.jobs), n)
  BY <1>2, NextDescription
<1>4. Works(e, z) /\ Queue(z) /\ In(z, s) = In(x, s)
  BY <1>1, <1>2 DEF Works, Queue, In
<1>5. Known(e, z, In(z, s))
  BY <1>1, <1>2, <1>3, <1>4, KnownAccept
<1>6. Alive(y) => /\ Works(p, y) /\ Queue(y) /\ Sorted(y.jobs, t)
                  /\ Count(y.jobs) + Count(t) <= 1 + OfferRetries
                  /\ Both(e, z, In(z, s), p, y, In(y, t), l)
                  /\ Count(z.jobs) + Count(s) + y.retries <= 1 + OfferRetries
                  /\ Count(y.jobs) + Count(t) + z.retries <= 1 + OfferRetries
  <2> SUFFICES ASSUME Alive(y)
               PROVE  Both(e, z, In(x, s), p, y, In(y, t), l)
    BY <1>1, <1>4, LinkParts
  <2>1. Both(e, x, In(x, s), p, y, In(y, t), l) /\ Ready(e, x, In(x, s), p, y, In(y, t))
    BY LinkBoth
  <2> QED
    BY <2>1, <1>2, <1>3, BothAccept
<1> QED
  BY <1>1, <1>4, <1>5, <1>6, BothLink

\* The answer is in force here and sent.
LEMMA LinkAnswer ==
  ASSUME NEW e, NEW x, NEW s, NEW p, NEW y, NEW t, NEW l, NEW z, NEW m,
         Context(e, x, s, p, y, t), Link(e, x, s, p, y, t, l),
         x.stage = "answer", m = Description("answer", x.revision, Head(x.jobs).revision),
         z.stage = "idle", z.jobs = Tail(x.jobs), z.signaling = "stable",
         z.revision = x.revision, z.offered = x.offered, z.seen = x.seen,
         z.current = [offerer |-> p, revision |-> Head(x.jobs).revision],
         z.retries = x.retries, z.negotiating = x.negotiating
  PROVE  Link(e, z, s, p, y, t \o <<m>>, l)
<1>1. /\ Works(e, x) /\ Known(e, x, In(x, s)) /\ Count(x.jobs) + Count(s) <= 1 + OfferRetries
      /\ Alone(e, x, In(x, s)) /\ Count(s) \in Nat /\ OfferRetries \in Nat /\ x.retries \in Nat
      /\ t \in Seq(Signal) /\ Count(t) \in Nat
  BY LinkParts
<1>2. /\ IsDescription(Head(x.jobs)) /\ x.jobs # <<>> /\ x.revision \in Nat
      /\ Head(x.jobs).kind = "offer" /\ Head(x.jobs).revision = x.seen /\ x.revision > 0
      /\ x.offered = 0 /\ x.seen \in Nat
  BY <1>1 DEF IsDescription, Works, Context, Typed
<1>3. /\ Queue(z) /\ Sorted(z.jobs, s) /\ Taken(Head(x.jobs), In(x, s), In(z, s))
      /\ Count(z.jobs) <= Count(x.jobs) /\ Count(z.jobs) \in Nat /\ Count(x.jobs) \in Nat
  <2>1. Leaves(x, s, z)
    BY <1>2, JobDone
  <2> QED
    BY <2>1, <1>2 DEF Leaves
<1>4. Works(e, z)
  BY <1>2 DEF Works
<1>5. Known(e, z, In(z, s))
  BY <1>1, <1>2, <1>3, KnownAnswer
<1>6. m \in Signal /\ m.revision = x.revision /\ IsDescription(m) /\ ~FirstOffer(m)
  BY <1>2 DEF Description, Signal, Kinds, IsDescription, FirstOffer
<1>7. ASSUME Alive(y)
      PROVE  /\ Works(p, y) /\ Queue(y) /\ Sorted(y.jobs, t \o <<m>>)
             /\ Count(y.jobs) + Count(t \o <<m>>) <= 1 + OfferRetries
             /\ Both(e, z, In(z, s), p, y, In(y, t \o <<m>>), l)
             /\ Count(z.jobs) + Count(s) + y.retries <= 1 + OfferRetries
             /\ Count(y.jobs) + Count(t \o <<m>>) + z.retries <= 1 + OfferRetries
  <2>1. /\ Both(e, x, In(x, s), p, y, In(y, t), l) /\ Ready(e, x, In(x, s), p, y, In(y, t))
        /\ Works(p, y) /\ Queue(y) /\ Sorted(y.jobs, t) /\ y.jobs \in Seq(Signal)
        /\ Count(y.jobs) \in Nat /\ y.retries \in Nat
        /\ Count(y.jobs) + Count(t) <= 1 + OfferRetries
        /\ Count(x.jobs) + Count(s) + y.retries <= 1 + OfferRetries
        /\ Count(y.jobs) + Count(t) + x.retries <= 1 + OfferRetries
    BY <1>7, LinkParts
  <2>2. \A n \in In(y, t) : n.revision < x.revision
    BY <2>1 DEF Both, Toward, Sent, Sending
  <2>3. Posted(y, t, m)
    BY <2>1, <2>2, <1>1, <1>6, Posting DEF Before
  <2>4. Both(e, z, In(z, s), p, y, In(y, t) \cup {m}, l)
    BY <2>1, <1>2, <1>3, BothAnswer
  <2>5. Count(t \o <<m>>) = Count(t)
    BY <2>3, <1>1, <1>6 DEF Posted
  <2>6. Sorted(y.jobs, t \o <<m>>) /\ Both(e, z, In(z, s), p, y, In(y, t \o <<m>>), l)
    BY <2>3, <2>4 DEF Posted
  <2> QED
    BY <2>1, <2>5, <2>6, <1>1, <1>3
<1>8. Count(z.jobs) + Count(s) <= 1 + OfferRetries
  BY <1>1, <1>3
<1> QED
  BY <1>3, <1>4, <1>5, <1>7, <1>8, BothLink

\* The first offer is repeated.
LEMMA LinkRetry ==
  ASSUME NEW e, NEW x, NEW s, NEW p, NEW y, NEW t, NEW l, NEW z, NEW r \in Nat, NEW m,
         Context(e, x, s, p, y, t), Link(e, x, s, p, y, t, l),
         x.offered = 1, x.revision = 1, x.retries > 0, m = Description("offer", 1, r),
         SameLink(x, z), z.retries = x.retries - 1
  PROVE  Link(e, z, s, p, y, t \o <<m>>, l)
<1>1. /\ Works(e, x) /\ Known(e, x, In(x, s)) /\ Queue(x) /\ Sorted(x.jobs, s)
      /\ Count(x.jobs) + Count(s) <= 1 + OfferRetries
      /\ OfferRetries \in Nat /\ x.retries \in Nat /\ t \in Seq(Signal) /\ Count(t) \in Nat
  BY LinkParts
<1>2. Works(e, z) /\ Known(e, z, In(x, s)) /\ Queue(z) /\ In(z, s) = In(x, s)
  BY <1>1 DEF Works, Known, Fresh, Queue, In, SameLink
<1>3. m \in Signal /\ m.revision = 1 /\ IsDescription(m) /\ FirstOffer(m)
  BY DEF Description, Signal, Kinds, IsDescription, FirstOffer
<1>4. ASSUME Alive(y)
      PROVE  /\ Works(p, y) /\ Queue(y) /\ Sorted(y.jobs, t \o <<m>>)
             /\ Count(y.jobs) + Count(t \o <<m>>) <= 1 + OfferRetries
             /\ Both(e, z, In(z, s), p, y, In(y, t \o <<m>>), l)
             /\ Count(z.jobs) + Count(s) + y.retries <= 1 + OfferRetries
             /\ Count(y.jobs) + Count(t \o <<m>>) + z.retries <= 1 + OfferRetries
  <2>1. /\ Both(e, x, In(x, s), p, y, In(y, t), l) /\ Ready(e, x, In(x, s), p, y, In(y, t))
        /\ Works(p, y) /\ Queue(y) /\ Sorted(y.jobs, t) /\ y.jobs \in Seq(Signal)
        /\ Count(y.jobs) \in Nat /\ y.retries \in Nat
        /\ Count(x.jobs) + Count(s) + y.retries <= 1 + OfferRetries
        /\ Count(y.jobs) + Count(t) + x.retries <= 1 + OfferRetries
    BY <1>4, LinkParts
  <2>2. ASSUME NEW n \in In(y, t)
        PROVE  FirstOffer(n)
    <3>1. n.revision = 1 /\ IsDescription(n)
      <4>1. n.revision <= 1 /\ n.revision > 0 /\ n \in Signal /\ IsDescription(n)
        BY <2>1 DEF Both, Toward, Sent, Known, Ready, Alone
      <4> QED
        BY <4>1 DEF Signal
    <3>2. n \notin Answers(In(y, t))
      <4>1. \A a \in Answers(In(y, t)) : x.offered > a.revision
        BY <2>1 DEF Both, Toward, Answered
      <4> QED
        BY <4>1, <3>1
    <3> QED
      BY <3>1, <3>2 DEF Answers, FirstOffer, IsDescription
  <2>3. Posted(y, t, m)
    BY <2>1, <2>2, <1>1, <1>3, Posting DEF Before
  <2>4. Both(e, z, In(x, s), p, y, In(y, t) \cup {m}, l)
    BY <2>1, BothRetry DEF SameLink
  <2>5. Count(t \o <<m>>) = Count(t) + 1
    BY <2>3, <1>1, <1>3 DEF Posted
  <2>6. Count(z.jobs) = Count(x.jobs)
    BY DEF SameLink
  <2>7. /\ Sorted(y.jobs, t \o <<m>>)
        /\ Both(e, z, In(z, s), p, y, In(y, t \o <<m>>), l)
    BY <2>3, <2>4, <1>2 DEF Posted
  <2> QED
    BY <2>1, <2>5, <2>6, <2>7, <1>1
<1> QED
  BY <1>1, <1>2, <1>4, BothLink DEF SameLink

\* A signal is lost.
LEMMA LinkLose ==
  ASSUME NEW e, NEW x, NEW s, NEW p, NEW y, NEW t, NEW l,
         Context(e, x, s, p, y, t), Link(e, x, s, p, y, t, l), s # <<>>
  PROVE  Link(e, x, Tail(s), p, y, t, FALSE)
<1>1. /\ Works(e, x) /\ Queue(x) /\ Sorted(x.jobs, s) /\ Known(e, x, In(x, s))
      /\ Count(x.jobs) + Count(s) <= 1 + OfferRetries
      /\ x.jobs \in Seq(Signal) /\ s \in Seq(Signal) /\ x.retries \in Nat
      /\ Count(x.jobs) \in Nat /\ Count(s) \in Nat /\ OfferRetries \in Nat
  BY LinkParts
<1>2. /\ Sorted(x.jobs, Tail(s)) /\ Tail(s) \in Seq(Signal)
      /\ In(x, Tail(s)) \subseteq In(x, s)
  BY <1>1, SignalTail, TailIndex DEF In
<1>3. Count(Tail(s)) <= Count(s) /\ Count(Tail(s)) \in Nat
  <2>1. Count(s) = Count(Tail(s)) + (IF FirstOffer(Head(s)) THEN 1 ELSE 0)
    BY <1>1, CountTail
  <2>2. Count(Tail(s)) \in Nat
    BY <1>2, CountIsNat
  <2> QED
    BY <2>1, <2>2
<1>4. Known(e, x, In(x, Tail(s)))
  BY <1>1, <1>2, KnownLess
<1>5. Alive(y) => /\ Works(p, y) /\ Queue(y) /\ Sorted(y.jobs, t)
                  /\ Count(y.jobs) + Count(t) <= 1 + OfferRetries
                  /\ Both(e, x, In(x, Tail(s)), p, y, In(y, t), FALSE)
                  /\ Count(x.jobs) + Count(Tail(s)) + y.retries <= 1 + OfferRetries
                  /\ Count(y.jobs) + Count(t) + x.retries <= 1 + OfferRetries
  <2> SUFFICES ASSUME Alive(y)
               PROVE  Both(e, x, In(x, Tail(s)), p, y, In(y, t), FALSE)
    <3>1. Alive(y) => /\ Works(p, y) /\ Queue(y) /\ Sorted(y.jobs, t) /\ y.retries \in Nat
                      /\ Count(y.jobs) + Count(t) <= 1 + OfferRetries
                      /\ Count(x.jobs) + Count(s) + y.retries <= 1 + OfferRetries
                      /\ Count(y.jobs) + Count(t) + x.retries <= 1 + OfferRetries
      BY LinkParts
    <3>2. Alive(y) => Count(x.jobs) + Count(Tail(s)) + y.retries <= 1 + OfferRetries
      <4>1. \A a, b, c, d, n \in Nat : a + b + c <= 1 + n /\ d <= b => a + d + c <= 1 + n
        OBVIOUS
      <4> QED
        BY <4>1, <3>1, <1>1, <1>3
    <3> QED
      BY <3>1, <3>2
  <2>1. Both(e, x, In(x, s), p, y, In(y, t), l)
    BY LinkBoth
  <2> QED
    BY <2>1, <1>2, BothLose
<1>6. Count(x.jobs) + Count(Tail(s)) <= 1 + OfferRetries
  BY <1>1, <1>3
<1> QED
  BY <1>1, <1>2, <1>4, <1>5, <1>6, BothLink

\* The other end is gone, and what it sent last never left.
LEMMA LinkCut ==
  ASSUME NEW e, NEW x, NEW s \in Seq(Signal), Typed(x), Own(e, x, s), s # <<>>
  PROVE  Own(e, x, Front(s)) /\ Front(s) \in Seq(Signal)
<1>1. x.jobs \in Seq(Signal) /\ OfferRetries \in Nat
  BY Limits DEF Typed
<1>2. /\ Front(s) \in Seq(Signal) /\ Sorted(x.jobs, Front(s))
      /\ In(x, Front(s)) \subseteq In(x, s)
  BY <1>1, FrontSorted DEF In, Own
<1>3. Known(e, x, In(x, Front(s)))
  BY <1>2, KnownLess DEF Own
<1>4. Count(x.jobs) + Count(Front(s)) <= 1 + OfferRetries
  BY <1>1, <1>2, CountFront, CountIsNat DEF Own
<1> QED
  BY <1>2, <1>3, <1>4 DEF Own

-----------------------------------------------------------------------------
(***************************************************************************)
(* The channels.                                                           *)
(***************************************************************************)

\* The indices of a channel with one more message.
LEMMA WordAppended ==
  ASSUME NEW q \in Seq(Words), NEW m \in Words
  PROVE  /\ Append(q, m) \in Seq(Words) /\ Len(q) \in Nat
         /\ Len(Append(q, m)) = Len(q) + 1
         /\ \A i \in 1..Len(q) : Append(q, m)[i] = q[i]
         /\ Append(q, m)[Len(q) + 1] = m
         /\ \A i \in 1..(Len(q) + 1) : i \in 1..Len(q) \/ i = Len(q) + 1
BY AppendProperties

\* The indices of a channel whose first message is delivered.
LEMMA WordTaken ==
  ASSUME NEW q \in Seq(Words), q # <<>>
  PROVE  /\ Tail(q) \in Seq(Words) /\ Len(q) \in Nat /\ Len(q) >= 1
         /\ Len(Tail(q)) = Len(q) - 1 /\ Head(q) = q[1] /\ Head(q) \in Words
         /\ 1 \in 1..Len(q)
         /\ \A i \in 1..Len(Tail(q)) : i + 1 \in 1..Len(q) /\ Tail(q)[i] = q[i + 1]
         /\ \A i \in 1..Len(q) : i = 1 \/ (i - 1 \in 1..Len(Tail(q)) /\ q[i] = Tail(q)[i - 1])
<1>1. Len(q) \in Nat /\ Len(q) >= 1 /\ Head(q) = q[1]
  OBVIOUS
<1>2. /\ Head(q) \in Words /\ Tail(q) \in Seq(Words) /\ Len(Tail(q)) = Len(q) - 1
      /\ \A i \in 1..Len(Tail(q)) : Tail(q)[i] = q[i + 1]
  BY HeadTailProperties
<1>3. \A i \in 1..Len(Tail(q)) : i + 1 \in 1..Len(q)
  BY <1>1, <1>2
<1>4. ASSUME NEW i \in 1..Len(q), i # 1
      PROVE  i - 1 \in 1..Len(Tail(q)) /\ q[i] = Tail(q)[i - 1]
  <2>1. i - 1 \in 1..Len(Tail(q)) /\ (i - 1) + 1 = i
    BY <1>1, <1>2, <1>4
  <2> QED
    BY <2>1, <1>2
<1> QED
  BY <1>1, <1>2, <1>3, <1>4

\* What is said next follows what was said before.
LEMMA SaidMore ==
  ASSUME NEW t \in Seq(Words), NEW o \in Seq(Words), NEW m \in Words
  PROVE  t \o Append(o, m) = Append(t \o o, m) /\ t \o o \in Seq(Words)
<1>1. <<m>> \in Seq(Words) /\ t \o o \in Seq(Words)
  BY ConcatProperties
<1>2. Append(o, m) = o \o <<m>> /\ Append(t \o o, m) = (t \o o) \o <<m>>
  BY <1>1, AppendIsConcat
<1>3. t \o (o \o <<m>>) = (t \o o) \o <<m>>
  BY <1>1, ConcatAssociative
<1> QED
  BY <1>1, <1>2, <1>3

\* What a channel reads of the end that listens and of the one that speaks.
SameEar(x, z) ==
  \A f \in {"nonce", "helloVerified", "pendingHello", "helloSent", "authenticated",
            "missed", "ready"} : z[f] = x[f]
SameMouth(x, z) ==
  \A f \in {"initSent", "helloSent", "authenticated", "down"} : z[f] = x[f]

\* A channel depends on the fields of SameEar and SameMouth only.
LEMMA ChannelFrame ==
  ASSUME NEW x, NEW y, NEW s, NEW b, NEW z, NEW w,
         Channel(x, y, s, b), SameEar(x, z), SameMouth(y, w)
  PROVE  Channel(z, w, s, b)
<1>1. /\ z.nonce = x.nonce /\ z.helloVerified = x.helloVerified
      /\ z.pendingHello = x.pendingHello /\ z.helloSent = x.helloSent
      /\ z.authenticated = x.authenticated /\ z.missed = x.missed /\ z.ready = x.ready
  BY DEF SameEar
<1>2. /\ w.initSent = y.initSent /\ w.helloSent = y.helloSent
      /\ w.authenticated = y.authenticated /\ w.down = y.down
  BY DEF SameMouth
<1> QED
  BY <1>1, <1>2, Zenon DEF Channel, Heard, Alive

\* The end that speaks is gone.
LEMMA ChannelDead ==
  ASSUME NEW x, NEW y, NEW s, NEW b, NEW w, Channel(x, y, s, b), ~Alive(w)
  PROVE  Channel(x, w, s, b)
BY DEF Channel

\* An end sends its HELLO_INIT: it is the first message of all.
LEMMA SayInit ==
  ASSUME NEW r, NEW x, NEW q \in Seq(Words), NEW c, NEW z,
         Channel(r, x, q, c), Flags(x), Alive(x), Alive(z), ~x.initSent,
         z.initSent = TRUE, z.helloSent = x.helloSent, z.authenticated = x.authenticated
  PROVE  Channel(r, z, Append(q, "HELLO_INIT"), c)
<1> DEFINE o == Append(q, "HELLO_INIT")
<1>1. q = <<>> /\ ~r.nonce
  BY DEF Channel
<1>2. Len(o) = 1 /\ o[1] = "HELLO_INIT" /\ o # <<>>
  BY <1>1
<1> HIDE DEF o
<1>3. ~x.helloSent /\ ~x.authenticated
  BY DEF Flags
<1>4. 1..Len(o) = {1}
  BY <1>2
<1>6. Channel(r, z, o, c)
  <2>1. ASSUME NEW i \in 1..Len(o)
        PROVE  i = 1 /\ o[i] = "HELLO_INIT" /\ o[i] # "HELLO" /\ o[i] \in Greetings
    BY <1>2, <1>4 DEF Greetings
  <2> QED
    BY <2>1, <1>1, <1>2, <1>3 DEF Channel
<1> QED
  BY <1>6 DEF o

\* An end sends its HELLO: only its HELLO_INIT comes before it.
LEMMA SayHello ==
  ASSUME NEW r, NEW x, NEW q \in Seq(Words), NEW c, NEW z,
         Channel(r, x, q, c), Flags(x), Alive(x), Alive(z), x.initSent, ~x.helloSent,
         z.initSent = TRUE, z.helloSent = TRUE, z.authenticated = x.authenticated
  PROVE  Channel(r, z, Append(q, "HELLO"), c)
<1> DEFINE o == Append(q, "HELLO")
<1>1. "HELLO" \in Words
  BY DEF Words
<1>2. /\ Len(q) \in Nat /\ Len(o) = Len(q) + 1
      /\ \A i \in 1..Len(q) : o[i] = q[i]
      /\ o[Len(q) + 1] = "HELLO"
      /\ \A i \in 1..Len(o) : i \in 1..Len(q) \/ i = Len(q) + 1
      /\ o \in Seq(Words) /\ Len(q) + 1 \in 1..Len(o)
  BY <1>1, WordAppended
<1> HIDE DEF o
<1>3. ~Heard(r) /\ \A i \in 1..Len(q) : q[i] = "HELLO_INIT"
  BY DEF Channel
<1>4. \A i \in 1..Len(q) : i = 1 /\ ~r.nonce
  BY <1>3 DEF Channel
<1>5. ~r.nonce => Len(q) >= 1
  BY <1>2 DEF Channel
<1>6. Len(q) = IF r.nonce THEN 0 ELSE 1
  <2>1. CASE r.nonce
    <3>1. 1 \notin 1..Len(q)
      BY <1>4, <2>1
    <3> QED
      BY <3>1, <2>1, <1>2
  <2>2. CASE ~r.nonce
    <3>1. Len(q) \in 1..Len(q)
      BY <1>2, <1>5, <2>2
    <3> QED
      BY <3>1, <1>4, <2>2
  <2> QED
    BY <2>1, <2>2
<1>7. ~x.authenticated
  BY DEF Flags
<1>8. ASSUME NEW i \in 1..Len(o)
      PROVE  /\ o[i] = "HELLO_INIT" => i = 1 /\ ~r.nonce
             /\ i = 1 /\ ~r.nonce => o[i] = "HELLO_INIT"
             /\ o[i] = "HELLO" => ~Heard(r) /\ i = (IF r.nonce THEN 1 ELSE 2)
             /\ o[i] \in Greetings
  <2>1. CASE i \in 1..Len(q)
    BY <2>1, <1>2, <1>3, <1>4 DEF Greetings
  <2>2. CASE i = Len(q) + 1
    BY <2>2, <1>2, <1>3, <1>6 DEF Greetings
  <2> QED
    BY <2>1, <2>2, <1>2
<1>9. o # <<>>
  BY <1>2
<1>10. Channel(r, z, o, c)
  BY <1>2, <1>7, <1>8, <1>9 DEF Channel
<1> QED
  BY <1>10 DEF o

\* An authenticated end may say anything but a greeting.
LEMMA SayFrame ==
  ASSUME NEW r, NEW x, NEW q \in Seq(Words), NEW c, NEW m \in Words,
         Channel(r, x, q, c), Flags(x), Flags(r), Alive(x), x.authenticated,
         r.helloSent, m \notin Greetings
  PROVE  Channel(r, x, Append(q, m), c)
<1> DEFINE o == Append(q, m)
<1>2. /\ Len(q) \in Nat /\ Len(o) = Len(q) + 1
      /\ \A i \in 1..Len(q) : o[i] = q[i]
      /\ o[Len(q) + 1] = m
      /\ \A i \in 1..Len(o) : i \in 1..Len(q) \/ i = Len(q) + 1
      /\ \A i \in 1..Len(q) : i \in 1..Len(o) /\ i < Len(q) + 1
      /\ o \in Seq(Words) /\ Len(q) + 1 \in 1..Len(o)
  BY WordAppended
<1> HIDE DEF o
<1>3. x.helloSent /\ x.initSent
  BY DEF Flags
<1>4. r.helloVerified \/ \E k \in 1..Len(q) : q[k] = "HELLO"
  BY <1>3 DEF Channel, Flags, Heard
<1>5. r.nonce
  BY DEF Flags
<1>6. ASSUME NEW i \in 1..Len(o)
      PROVE  /\ o[i] = "HELLO_INIT" => i = 1 /\ ~r.nonce
             /\ i = 1 /\ ~r.nonce => o[i] = "HELLO_INIT"
             /\ o[i] = "HELLO" => ~Heard(r) /\ i = (IF r.nonce THEN 1 ELSE 2)
             /\ o[i] \notin Greetings =>
                  r.helloSent /\ (r.helloVerified \/ \E k \in 1..Len(o) : k < i /\ o[k] = "HELLO")
  <2>1. CASE i \in 1..Len(q)
    <3>1. /\ q[i] = "HELLO_INIT" => i = 1 /\ ~r.nonce
          /\ q[i] = "HELLO" => ~Heard(r) /\ i = (IF r.nonce THEN 1 ELSE 2)
          /\ q[i] \notin Greetings =>
               r.helloVerified \/ \E k \in 1..Len(q) : k < i /\ q[k] = "HELLO"
      BY <2>1 DEF Channel
    <3> QED
      BY <2>1, <3>1, <1>2, <1>5
  <2>2. CASE i = Len(q) + 1
    <3>1. r.helloVerified \/ \E k \in 1..Len(o) : k < i /\ o[k] = "HELLO"
      BY <2>2, <1>2, <1>4
    <3> QED
      BY <2>2, <3>1, <1>2, <1>5 DEF Greetings
  <2> QED
    BY <2>1, <2>2, <1>2
<1>7. Heard(r) \/ \E k \in 1..Len(o) : o[k] = "HELLO"
  BY <1>2, <1>4 DEF Heard
<1>8. o # <<>>
  BY <1>2
<1>9. Channel(r, x, o, c)
  BY <1>3, <1>5, <1>6, <1>7, <1>8 DEF Channel
<1> QED
  BY <1>9 DEF o

\* An end is authenticated: nothing is said of it yet.
LEMMA SayAuthenticated ==
  ASSUME NEW r, NEW x, NEW q, NEW c, NEW z,
         Channel(r, x, q, c), z.initSent = x.initSent, z.helloSent = x.helloSent,
         z.authenticated = TRUE, z.down = x.down
  PROVE  Channel(r, z, q, c)
BY DEF Channel, Alive

\* The HELLO_INIT of the other end: it comes before any other message, once.
LEMMA HearInit ==
  ASSUME NEW x, NEW y, NEW s \in Seq(Words), NEW b, NEW z, Channel(x, y, s, b), Flags(x),
         s # <<>>, Head(s) = "HELLO_INIT",
         z.nonce = TRUE, z.helloVerified = x.helloVerified, z.pendingHello = x.pendingHello,
         z.helloSent = x.helloSent, z.authenticated = x.authenticated,
         z.missed = x.missed, z.ready = x.ready
  PROVE  Channel(z, y, Tail(s), b) /\ ~x.nonce
<1> DEFINE t == Tail(s)
<1>1. /\ t \in Seq(Words) /\ Len(s) \in Nat /\ Len(t) = Len(s) - 1
      /\ s[1] = "HELLO_INIT" /\ 1 \in 1..Len(s)
      /\ \A i \in 1..Len(t) : i + 1 \in 1..Len(s) /\ t[i] = s[i + 1]
      /\ \A i \in 1..Len(s) : i = 1 \/ (i - 1 \in 1..Len(t) /\ s[i] = t[i - 1])
  BY WordTaken
<1> HIDE DEF t
<1>2. ~x.nonce
  BY <1>1 DEF Channel
<1>3. \A i \in 1..Len(t) : i \in Int /\ i + 1 # 1
  BY <1>1
<1>4. ASSUME NEW i \in 1..Len(t)
      PROVE  /\ t[i] # "HELLO_INIT"
             /\ t[i] = "HELLO" => ~Heard(z) /\ i = 1
             /\ t[i] \notin Greetings =>
                  z.helloSent /\ (z.helloVerified \/ \E k \in 1..Len(t) : k < i /\ t[k] = "HELLO")
  <2>1. /\ i + 1 \in 1..Len(s) /\ t[i] = s[i + 1] /\ i \in Int /\ i + 1 # 1
        /\ s[i + 1] = "HELLO_INIT" => i + 1 = 1
        /\ s[i + 1] = "HELLO" => ~Heard(x) /\ i + 1 = 2
        /\ s[i + 1] \notin Greetings =>
             x.helloSent /\ (x.helloVerified \/ \E k \in 1..Len(s) : k < i + 1 /\ s[k] = "HELLO")
    BY <1>1, <1>2, <1>3 DEF Channel
  <2>2. t[i] \notin Greetings => x.helloSent
    BY <2>1
  <2> QED
    BY <2>1, <2>2, <1>2 DEF Heard, Flags
<1>5. Alive(y) => /\ y.initSent
                  /\ ~y.helloSent => ~Heard(z) /\ \A i \in 1..Len(t) : t[i] = "HELLO_INIT"
                  /\ y.helloSent => Heard(z) \/ \E k \in 1..Len(t) : t[k] = "HELLO"
                  /\ ~y.authenticated => ~z.ready /\ \A i \in 1..Len(t) : t[i] \in Greetings
  <2> SUFFICES ASSUME Alive(y)
               PROVE  /\ y.initSent
                      /\ ~y.helloSent => ~Heard(z) /\ \A i \in 1..Len(t) : t[i] = "HELLO_INIT"
                      /\ y.helloSent => Heard(z) \/ \E k \in 1..Len(t) : t[k] = "HELLO"
                      /\ ~y.authenticated => ~z.ready /\ \A i \in 1..Len(t) : t[i] \in Greetings
    OBVIOUS
  <2>1. y.initSent
    BY DEF Channel
  <2>2. ~y.helloSent => ~Heard(z) /\ \A i \in 1..Len(t) : t[i] = "HELLO_INIT"
    BY <1>1 DEF Channel, Heard
  <2>3. ASSUME y.helloSent
        PROVE  Heard(z) \/ \E k \in 1..Len(t) : t[k] = "HELLO"
    <3>1. Heard(x) \/ \E k \in 1..Len(s) : s[k] = "HELLO"
      BY <2>3 DEF Channel
    <3>2. ASSUME NEW k \in 1..Len(s), s[k] = "HELLO"
          PROVE  k - 1 \in 1..Len(t) /\ t[k - 1] = "HELLO"
      BY <3>2, <1>1
    <3> QED
      BY <3>1, <3>2 DEF Heard
  <2>4. ~y.authenticated => ~z.ready /\ \A i \in 1..Len(t) : t[i] \in Greetings
    BY <1>1 DEF Channel
  <2> QED
    BY <2>1, <2>2, <2>3, <2>4
<1>6. (b > 0 => z.authenticated) /\ (z.missed > 0 => ~Alive(y))
  BY DEF Channel
<1>7. Channel(z, y, t, b)
  BY <1>4, <1>5, <1>6 DEF Channel
<1> QED
  BY <1>2, <1>7 DEF t

\* The HELLO of the other end: it is verified, or waits for a description.
LEMMA HearHello ==
  ASSUME NEW x, NEW y, NEW s \in Seq(Words), NEW b, NEW z, Channel(x, y, s, b), Flags(x),
         s # <<>>, Head(s) = "HELLO",
         z.nonce = x.nonce, z.helloSent = x.helloSent,
         \/ z.helloVerified /\ z.authenticated
         \/ z.pendingHello /\ ~x.helloSent /\ z.authenticated = x.authenticated,
         z.missed = x.missed, z.ready = x.ready
  PROVE  Channel(z, y, Tail(s), b) /\ x.nonce /\ ~x.authenticated /\ ~Heard(x)
<1> DEFINE t == Tail(s)
<1>1. /\ t \in Seq(Words) /\ Len(s) \in Nat /\ Len(t) = Len(s) - 1
      /\ s[1] = "HELLO" /\ 1 \in 1..Len(s)
      /\ \A i \in 1..Len(t) : i + 1 \in 1..Len(s) /\ t[i] = s[i + 1]
      /\ \A i \in 1..Len(s) : i = 1 \/ (i - 1 \in 1..Len(t) /\ s[i] = t[i - 1])
  BY WordTaken
<1> HIDE DEF t
<1>2. x.nonce /\ ~Heard(x)
  BY <1>1 DEF Channel
<1>3. ~x.authenticated /\ Heard(z)
  BY <1>2 DEF Heard, Flags
<1>4. ASSUME NEW i \in 1..Len(t)
      PROVE  /\ t[i] \notin Greetings /\ t[i] # "HELLO_INIT" /\ t[i] # "HELLO"
             /\ z.helloSent /\ z.helloVerified
  <2>1. /\ i + 1 \in 1..Len(s) /\ t[i] = s[i + 1] /\ i \in Int /\ i + 1 # 1
    BY <1>1
  <2>2. s[i + 1] # "HELLO_INIT" /\ s[i + 1] # "HELLO"
    BY <2>1, <1>2 DEF Channel
  <2>3. s[i + 1] \notin Greetings
    BY <2>2 DEF Greetings
  <2>4. x.helloSent
    BY <2>1, <2>3 DEF Channel
  <2> QED
    BY <2>1, <2>2, <2>3, <2>4
<1>5. ASSUME Alive(y)
      PROVE  /\ y.initSent /\ y.helloSent
             /\ ~y.authenticated => ~z.ready /\ \A i \in 1..Len(t) : t[i] \in Greetings
  <2>1. y.initSent
    BY <1>5 DEF Channel
  <2>2. y.helloSent
    BY <1>5, <1>1 DEF Channel
  <2>3. ~y.authenticated => ~z.ready /\ \A i \in 1..Len(t) : t[i] \in Greetings
    BY <1>5, <1>1 DEF Channel
  <2> QED
    BY <2>1, <2>2, <2>3
<1>6. (b > 0 => z.authenticated) /\ (z.missed > 0 => ~Alive(y))
  BY <1>3 DEF Channel
<1>7. Channel(z, y, t, b)
  BY <1>2, <1>3, <1>4, <1>5, <1>6 DEF Channel
<1> QED
  BY <1>2, <1>3, <1>7 DEF t

\* Anything else comes to an end that is authenticated.
LEMMA HearFrame ==
  ASSUME NEW x, NEW y, NEW s \in Seq(Words), NEW b, NEW z, Channel(x, y, s, b), Flags(x),
         s # <<>>, Head(s) \notin Greetings,
         z.nonce = x.nonce, z.helloVerified = x.helloVerified,
         z.pendingHello = x.pendingHello, z.helloSent = x.helloSent,
         z.authenticated = x.authenticated, z.missed = 0
  PROVE  Channel(z, y, Tail(s), b) /\ x.authenticated
<1> DEFINE t == Tail(s)
<1>1. /\ t \in Seq(Words) /\ Len(s) \in Nat /\ Len(t) = Len(s) - 1
      /\ s[1] \notin Greetings /\ 1 \in 1..Len(s)
      /\ \A i \in 1..Len(t) : i + 1 \in 1..Len(s) /\ t[i] = s[i + 1]
      /\ \A i \in 1..Len(s) : i = 1 \/ (i - 1 \in 1..Len(t) /\ s[i] = t[i - 1])
  BY WordTaken
<1> HIDE DEF t
<1>2. x.helloVerified /\ x.helloSent /\ x.nonce /\ x.authenticated
  <2>1. x.helloSent /\ (x.helloVerified \/ \E k \in 1..Len(s) : k < 1 /\ s[k] = "HELLO")
    BY <1>1 DEF Channel
  <2>2. ~\E k \in 1..Len(s) : k < 1
    BY <1>1
  <2> QED
    BY <2>1, <2>2 DEF Flags
<1>3. ASSUME NEW i \in 1..Len(t)
      PROVE  t[i] # "HELLO_INIT" /\ t[i] # "HELLO"
  <2>1. i + 1 \in 1..Len(s) /\ t[i] = s[i + 1]
    BY <1>1
  <2> QED
    BY <2>1, <1>2 DEF Channel, Heard
<1>4. Alive(y) => y.initSent /\ y.helloSent /\ y.authenticated
  <2>1. Alive(y) => y.authenticated
    BY <1>1 DEF Channel
  <2>2. Alive(y) => y.initSent
    BY <1>2 DEF Channel
  <2>3. Alive(y) => y.helloSent
    BY <1>2 DEF Channel, Heard
  <2> QED
    BY <2>1, <2>2, <2>3
<1>5. Channel(z, y, t, b)
  <2>1. ~(z.missed > 0) /\ (b > 0 => z.authenticated)
    BY <1>2
  <2> QED
    BY <2>1, <1>2, <1>3, <1>4 DEF Channel, Heard
<1> QED
  BY <1>2, <1>5 DEF t

\* An end whose HELLO waits has heard all there is; it would hear it again.
LEMMA HearAgain ==
  ASSUME NEW x, NEW y, NEW s \in Seq(Words), NEW b, NEW z, Channel(x, y, s, b), Flags(x),
         x.pendingHello, z.pendingHello = FALSE,
         z.nonce = x.nonce, z.helloVerified = x.helloVerified, z.helloSent = x.helloSent,
         z.authenticated = x.authenticated, z.missed = x.missed, z.ready = x.ready
  PROVE  s = <<>> /\ Channel(z, y, <<"HELLO">>, b)
<1>1. x.nonce /\ ~x.helloSent /\ ~x.helloVerified /\ ~x.authenticated
  BY DEF Flags
<1>2. \A i \in 1..Len(s) : FALSE
  BY <1>1 DEF Channel, Heard, Greetings
<1>3. s = <<>>
  <2>1. Len(s) \in Nat /\ (s # <<>> => Len(s) >= 1)
    BY WordTaken
  <2>2. s # <<>> => 1 \in 1..Len(s)
    BY <2>1
  <2> QED
    BY <2>2, <1>2
<1> DEFINE o == <<"HELLO">>
<1>4. Len(o) = 1 /\ o[1] = "HELLO" /\ o # <<>>
  OBVIOUS
<1> HIDE DEF o
<1>5. 1..Len(o) = {1}
  BY <1>4
<1>6. \A i \in 1..Len(o) : i = 1 /\ o[i] = "HELLO" /\ o[i] \in Greetings
  BY <1>4, <1>5 DEF Greetings
<1>7. Alive(y) => /\ y.initSent /\ y.helloSent
                  /\ ~y.authenticated => ~z.ready
  BY <1>1 DEF Channel, Heard
<1>8. ~Heard(z)
  BY <1>1 DEF Heard
<1>9. (b > 0 => z.authenticated) /\ (z.missed > 0 => ~Alive(y))
  BY DEF Channel
<1>10. \E k \in 1..Len(o) : o[k] = "HELLO"
  BY <1>4, <1>5
<1>11. Channel(z, y, o, b)
  BY <1>1, <1>6, <1>7, <1>8, <1>9, <1>10 DEF Channel
<1> QED
  BY <1>3, <1>11 DEF o

-----------------------------------------------------------------------------
(***************************************************************************)
(* The reducers of the handshake.  x is an end while it works: s and b are *)
(* on the channels towards it, t and c on those towards the other end, and *)
(* what it says follows on t and c.                                        *)
(***************************************************************************)

\* An end that works, and the two channels: what it says is already on t and c.
Talk(x, s, b, y, t, c) ==
  /\ Alive(x) /\ Typed(x) /\ x.out \in Seq(Words) /\ x.bulk \in Nat /\ Flags(x)
  /\ s \in Seq(Words) /\ t \in Seq(Words) /\ c \in Nat
  /\ Channel(x, y, s, b)
  /\ Alive(y) => Flags(y) /\ Channel(y, x, t \o x.out, c + x.bulk)

\* The handshake leaves the rest of the end alone.
HandshakeFields ==
  {"initSent", "nonce", "helloSent", "helloVerified", "pendingHello", "authenticated",
   "ready", "queued", "unauth", "missed", "awaiting", "needed", "out", "bulk"}
Kept(x, z) == \A f \in Fields \ HandshakeFields : z[f] = x[f]

\* What two steps leave alone the two together leave alone.
LEMMA KeptIsOrder ==
  /\ \A x : Kept(x, x)
  /\ \A x, y, z : Kept(x, y) /\ Kept(y, z) => Kept(x, z)
BY DEF Kept

\* An end of which only the handshake changes keeps its type.
LEMMA TypedIs ==
  ASSUME NEW x, NEW z, Typed(x), Kept(x, z), Shape(z),
         z.queued \in Nat, z.unauth \in Nat, z.missed \in Nat,
         \A f \in {"initSent", "nonce", "helloSent", "helloVerified", "pendingHello",
                   "authenticated", "ready", "awaiting"} : z[f] \in BOOLEAN
  PROVE  Typed(z)
<1>1. \A f \in {"gather", "revision", "offered", "seen", "retries", "open", "negotiating",
                "jobs"} : z[f] = x[f]
  BY DEF Kept, Fields, HandshakeFields
<1> QED
  BY <1>1 DEF Typed

\* What was held back is sent.
LEMMA TalkDrain ==
  ASSUME NEW x, NEW s, NEW b, NEW y, NEW t, NEW c,
         Talk(x, s, b, y, t, c), x.authenticated
  PROVE  LET z == drain(x) IN
         /\ Talk(z, s, b, y, t, c) /\ Kept(x, z)
         /\ \A f \in Fields \ {"bulk", "queued"} : z[f] = x[f]
<1> DEFINE z == drain(x)
<1>0. z = drain(x)
  OBVIOUS
<1> HIDE DEF z
<1> SUFFICES /\ Talk(z, s, b, y, t, c) /\ Kept(x, z)
             /\ \A f \in Fields \ {"bulk", "queued"} : z[f] = x[f]
  BY DEF z
<1>1. CASE ~x.ready
  <2>1. z = x
    BY <1>0, <1>1 DEF drain
  <2> QED
    BY <2>1, KeptIsOrder
<1>2. CASE x.ready
  <2>1. z = [x EXCEPT !.bulk = x.bulk + x.queued, !.queued = 0]
    BY <1>0, <1>2 DEF drain, Talk
  <2>2. DOMAIN x = Fields
    BY DEF Talk, Typed, Shape
  <2>3. /\ Shape(z) /\ z.bulk = x.bulk + x.queued /\ z.queued = 0
        /\ \A f \in Fields \ {"bulk", "queued"} : z[f] = x[f]
    BY <2>1, <2>2 DEF Fields, Shape
  <2>4. Kept(x, z)
    BY <2>3 DEF Kept, HandshakeFields
  <2>5. SameEar(x, z) /\ SameMouth(x, z) /\ z.out = x.out /\ z.unauth = x.unauth
        /\ z.missed = x.missed /\ z.down = x.down
        /\ \A f \in {"initSent", "nonce", "helloSent", "helloVerified", "pendingHello",
                   "authenticated", "ready", "awaiting", "net", "open", "current"} : z[f] = x[f]
    BY <2>3 DEF SameEar, SameMouth, Fields
  <2>6. Typed(z)
    <3>1. Typed(x) /\ z.queued \in Nat /\ z.unauth \in Nat /\ z.missed \in Nat
      BY <2>3, <2>5 DEF Talk, Typed
    <3>2. \A f \in {"initSent", "nonce", "helloSent", "helloVerified", "pendingHello",
                   "authenticated", "ready", "awaiting"} : z[f] \in BOOLEAN
      BY <2>5, <3>1 DEF Typed
    <3> QED
      BY <2>3, <2>4, <3>1, <3>2, TypedIs
  <2>7. Flags(z) /\ Alive(z) /\ z.out \in Seq(Words)
    BY <2>5 DEF Talk, Flags, Alive
  <2>8. z.bulk \in Nat
    BY <2>3 DEF Talk, Typed
  <2>9. Channel(z, y, s, b)
    BY <2>5, ChannelFrame DEF Talk, SameMouth
  <2>10. Alive(y) => Channel(y, z, t \o z.out, c + z.bulk)
    <3> SUFFICES ASSUME Alive(y)
                 PROVE  Channel(y, z, t \o z.out, c + z.bulk)
      OBVIOUS
    <3>1. y.authenticated
      BY <1>2 DEF Talk, Channel
    <3>2. Channel(y, x, t \o x.out, c + x.bulk)
      BY DEF Talk
    <3>3. Channel(y, z, t \o x.out, c + x.bulk)
      BY <3>2, <2>5, ChannelFrame DEF SameEar
    <3> QED
      BY <3>1, <3>3, <2>5 DEF Channel
  <2> QED
    BY <2>3, <2>4, <2>6, <2>7, <2>8, <2>9, <2>10 DEF Talk
<1> QED
  BY <1>1, <1>2 DEF Talk, Typed

\* Two messages said together are said one after the other.
LEMMA SaidTwo ==
  ASSUME NEW o \in Seq(Words)
  PROVE  o \o <<"data", "READY">> = Append(Append(o, "data"), "READY")
<1>1. <<"data">> \in Seq(Words) /\ <<"READY">> \in Seq(Words) /\ "data" \in Words /\ "READY" \in Words
  BY DEF Words
<1>2. Append(o, "data") = o \o <<"data">> /\ Append(o, "data") \in Seq(Words)
  BY <1>1, AppendIsConcat, AppendProperties
<1>3. Append(Append(o, "data"), "READY") = (o \o <<"data">>) \o <<"READY">>
  BY <1>1, <1>2, AppendIsConcat
<1>4. (o \o <<"data">>) \o <<"READY">> = o \o (<<"data">> \o <<"READY">>)
  BY <1>1, ConcatAssociative
<1>5. <<"data">> \o <<"READY">> = <<"data", "READY">>
  <2> DEFINE u == <<"data">> \o <<"READY">>
             v == <<"data", "READY">>
  <2>1. v \in Seq(Words) /\ Len(v) = 2 /\ v[1] = "data" /\ v[2] = "READY"
    BY DEF Words
  <2>2. /\ Len(<<"data">>) = 1 /\ Len(<<"READY">>) = 1
        /\ <<"data">>[1] = "data" /\ <<"READY">>[1] = "READY"
    OBVIOUS
  <2>3. u \in Seq(Words) /\ Len(u) = 2 /\ u[1] = "data" /\ u[2] = "READY"
    BY <1>1, <2>2, ConcatProperties
  <2> HIDE DEF u, v
  <2>4. \A i \in 1..Len(u) : u[i] = v[i]
    BY <2>1, <2>3
  <2> QED
    BY <2>1, <2>3, <2>4, SeqEqual DEF u, v
<1> QED
  BY <1>3, <1>4, <1>5

\* What the handshake reads and writes.
Talking ==
  {"initSent", "nonce", "helloSent", "helloVerified", "pendingHello", "authenticated",
   "ready", "awaiting", "unauth", "missed", "net", "open", "current", "down", "signaling"}

\* The HELLO of the other end is verified by an end that has sent its own.
LEMMA TalkVerified ==
  ASSUME NEW x, NEW s, NEW b, NEW y, NEW t, NEW c,
         Talk(x, s, b, y, t, c), x.helloSent, s # <<>>, Head(s) = "HELLO"
  PROVE  LET z == maybeAuthenticated([x EXCEPT !.helloVerified = TRUE]) IN
         /\ Talk(z, Tail(s), b, y, t, c) /\ Kept(x, z)
         /\ z.authenticated = TRUE
         /\ \A f \in Talking \ {"helloVerified", "authenticated"} : z[f] = x[f]
<1> DEFINE z == maybeAuthenticated([x EXCEPT !.helloVerified = TRUE])
<1>0. z = maybeAuthenticated([x EXCEPT !.helloVerified = TRUE])
  OBVIOUS
<1> HIDE DEF z
<1> SUFFICES /\ Talk(z, Tail(s), b, y, t, c) /\ Kept(x, z)
             /\ z.authenticated = TRUE
             /\ \A f \in Talking \ {"helloVerified", "authenticated"} : z[f] = x[f]
  BY DEF z
<1> DEFINE w == [x EXCEPT !.helloVerified = TRUE, !.authenticated = TRUE, !.queued = 1,
                          !.out = @ \o <<"data", "READY">>]
<1>1. DOMAIN x = Fields /\ Alive(x) /\ Typed(x) /\ Flags(x)
  BY DEF Talk, Typed, Shape
<1>2. ~x.authenticated
  <2>1. Len(s) >= 1 /\ 1 \in 1..Len(s) /\ s[1] = "HELLO"
    BY WordTaken DEF Talk
  <2> QED
    BY <2>1 DEF Talk, Channel, Heard, Flags
<1>3. z = drain(w)
  BY <1>0, <1>1, <1>2 DEF maybeAuthenticated, Alive, Fields
<1>4. /\ Shape(w) /\ w.helloVerified = TRUE /\ w.authenticated = TRUE /\ w.queued = 1
      /\ w.out = x.out \o <<"data", "READY">>
      /\ \A f \in Fields \ {"helloVerified", "authenticated", "queued", "out"} : w[f] = x[f]
  BY <1>1, ZenonT(60) DEF Fields, Shape
<1> HIDE DEF w
<1>5. /\ Kept(x, w) /\ w.bulk = x.bulk
      /\ \A f \in Talking \ {"helloVerified", "authenticated"} : w[f] = x[f]
  BY <1>4 DEF Kept, HandshakeFields, Talking, Fields
<1>6. /\ w.initSent = x.initSent /\ w.nonce = x.nonce /\ w.helloSent = x.helloSent
      /\ w.pendingHello = x.pendingHello /\ w.missed = x.missed /\ w.ready = x.ready
      /\ w.down = x.down /\ w.unauth = x.unauth /\ w.awaiting = x.awaiting
      /\ w.net = x.net /\ w.open = x.open /\ w.current = x.current
  BY <1>5 DEF Talking
<1>7. Typed(w)
  <2>1. w.queued \in Nat /\ w.unauth \in Nat /\ w.missed \in Nat
    BY <1>1, <1>4, <1>6 DEF Typed
  <2>2. \A f \in {"initSent", "nonce", "helloSent", "helloVerified", "pendingHello",
                 "authenticated", "ready", "awaiting"} : w[f] \in BOOLEAN
    BY <1>1, <1>4, <1>6 DEF Typed
  <2> QED
    BY <1>1, <1>4, <1>5, <2>1, <2>2, TypedIs
<1>8. Flags(w) /\ Alive(w)
  BY <1>1, <1>4, <1>6 DEF Flags, Alive
<1>9. /\ x.out \in Seq(Words) /\ w.out = Append(Append(x.out, "data"), "READY")
      /\ "data" \in Words \ Greetings /\ "READY" \in Words \ Greetings
      /\ Append(x.out, "data") \in Seq(Words) /\ w.out \in Seq(Words)
  <2>1. /\ x.out \in Seq(Words) /\ "data" \in Words \ Greetings
        /\ "READY" \in Words \ Greetings
    BY DEF Talk, Words, Greetings
  <2> QED
    BY <2>1, <1>4, SaidTwo, AppendProperties
<1>10. Channel(w, y, Tail(s), b) /\ Tail(s) \in Seq(Words)
  BY <1>1, <1>4, <1>6, HearHello, WordTaken DEF Talk
<1>11. ASSUME Alive(y)
       PROVE  Channel(y, w, t \o w.out, c + w.bulk)
  <2>1. Channel(y, x, t \o x.out, c + x.bulk) /\ Flags(y) /\ t \in Seq(Words)
    BY <1>11 DEF Talk
  <2>2. Channel(y, w, t \o x.out, c + w.bulk)
    BY <2>1, <1>4, <1>5, <1>6, SayAuthenticated
  <2>3. y.helloSent
    <3>1. 1 \in 1..Len(s) /\ s[1] = "HELLO"
      BY WordTaken DEF Talk
    <3> QED
      BY <1>11, <3>1 DEF Talk, Channel
  <2>4. /\ t \o x.out \in Seq(Words)
        /\ t \o Append(x.out, "data") = Append(t \o x.out, "data")
        /\ t \o w.out = Append(t \o Append(x.out, "data"), "READY")
        /\ t \o Append(x.out, "data") \in Seq(Words)
    <3>1. \A o \in Seq(Words), m \in Words :
            t \o Append(o, m) = Append(t \o o, m) /\ t \o o \in Seq(Words)
      BY <2>1, SaidMore
    <3> QED
      BY <3>1, <1>9, Zenon
  <2>5. Channel(y, w, Append(t \o x.out, "data"), c + w.bulk)
    BY <2>1, <2>2, <2>3, <2>4, <1>4, <1>8, <1>9, SayFrame
  <2>6. Channel(y, w, Append(Append(t \o x.out, "data"), "READY"), c + w.bulk)
    BY <2>1, <2>3, <2>4, <2>5, <1>4, <1>8, <1>9, SayFrame
  <2> QED
    BY <2>4, <2>6
<1>12. Talk(w, Tail(s), b, y, t, c)
  BY <1>5, <1>7, <1>8, <1>9, <1>10, <1>11 DEF Talk
<1>13. /\ Talk(z, Tail(s), b, y, t, c) /\ Kept(w, z)
       /\ \A f \in Fields \ {"bulk", "queued"} : z[f] = w[f]
  <2>1. w.authenticated
    BY <1>4
  <2> QED
    BY <1>3, <1>12, <2>1, TalkDrain
<1>14. Kept(x, z)
  BY <1>5, <1>13, KeptIsOrder
<1>15. z.authenticated = TRUE /\ \A f \in Talking \ {"helloVerified", "authenticated"} : z[f] = x[f]
  BY <1>4, <1>5, <1>13 DEF Talking, Fields
<1> QED
  BY <1>13, <1>14, <1>15

\* An end that has the nonce and both descriptions sends its HELLO.
LEMMA TalkHello ==
  ASSUME NEW x, NEW s, NEW b, NEW y, NEW t, NEW c,
         Talk(x, s, b, y, t, c), ~x.pendingHello \/ x.signaling # "stable"
  PROVE  LET z == trySendHello(x) IN
         /\ Talk(z, s, b, y, t, c) /\ Kept(x, z)
         /\ z.helloSent <=> x.helloSent \/ (x.nonce /\ x.signaling = "stable")
         /\ \A f \in Talking \ {"helloSent"} : z[f] = x[f]
<1> DEFINE z == trySendHello(x)
<1>0. z = trySendHello(x)
  OBVIOUS
<1> HIDE DEF z
<1> SUFFICES /\ Talk(z, s, b, y, t, c) /\ Kept(x, z)
             /\ z.helloSent <=> x.helloSent \/ (x.nonce /\ x.signaling = "stable")
             /\ \A f \in Talking \ {"helloSent"} : z[f] = x[f]
  BY DEF z
<1>1. DOMAIN x = Fields /\ Alive(x) /\ Typed(x) /\ Flags(x)
  BY DEF Talk, Typed, Shape
<1>2. x.nonce => x.open /\ x.current # NoSession
  BY <1>1 DEF Flags
<1>3. CASE x.helloSent \/ ~(x.nonce /\ x.signaling = "stable")
  <2>1. z = x
    BY <1>0, <1>3 DEF trySendHello, Binding
  <2> QED
    BY <2>1, <1>3, KeptIsOrder
<1>4. CASE ~x.helloSent /\ x.nonce /\ x.signaling = "stable"
  <2> DEFINE w == [x EXCEPT !.helloSent = TRUE, !.out = Append(@, "HELLO")]
  <2>1. /\ Shape(w) /\ w.helloSent = TRUE /\ w.out = Append(x.out, "HELLO")
        /\ \A f \in Fields \ {"helloSent", "out"} : w[f] = x[f]
    BY <1>1 DEF Fields, Shape
  <2>2. z = maybeAuthenticated(w)
    BY <1>0, <1>1, <1>2, <1>4 DEF trySendHello, Binding
  <2> HIDE DEF w
  <2>3. /\ w.helloVerified = x.helloVerified /\ ~x.helloVerified
        /\ w.initSent = x.initSent /\ w.nonce = x.nonce /\ w.authenticated = x.authenticated
        /\ w.pendingHello = x.pendingHello /\ w.missed = x.missed /\ w.ready = x.ready
        /\ w.down = x.down /\ w.unauth = x.unauth /\ w.awaiting = x.awaiting
        /\ w.net = x.net /\ w.open = x.open /\ w.current = x.current /\ w.bulk = x.bulk
        /\ w.queued = x.queued
    BY <2>1, <1>1, <1>4 DEF Fields, Flags
  <2>4. z = w
    BY <2>2, <2>3 DEF maybeAuthenticated
  <2>5. Kept(x, w) /\ \A f \in Talking \ {"helloSent"} : w[f] = x[f]
    BY <2>1 DEF Kept, HandshakeFields, Talking, Fields
  <2>6. Typed(w)
    <3>1. w.queued \in Nat /\ w.unauth \in Nat /\ w.missed \in Nat
      BY <1>1, <2>3 DEF Typed
    <3>2. \A f \in {"initSent", "nonce", "helloSent", "helloVerified", "pendingHello",
                   "authenticated", "ready", "awaiting"} : w[f] \in BOOLEAN
      BY <1>1, <2>1, <2>3 DEF Typed
    <3> QED
      BY <1>1, <2>1, <2>5, <3>1, <3>2, TypedIs
  <2>7. Flags(w) /\ Alive(w)
    BY <1>1, <1>4, <2>1, <2>3 DEF Flags, Alive
  <2>8. Channel(w, y, s, b)
    <3>1. Channel(x, y, s, b)
      BY DEF Talk
    <3> QED
      BY <3>1, <2>1, <2>3, <1>4 DEF Channel, Heard
  <2>9. x.out \in Seq(Words) /\ "HELLO" \in Words /\ w.out \in Seq(Words)
    BY <2>1, AppendProperties DEF Talk, Words
  <2>10. ASSUME Alive(y)
         PROVE  Channel(y, w, t \o w.out, c + w.bulk)
    <3>1. Channel(y, x, t \o x.out, c + x.bulk) /\ t \in Seq(Words)
      BY <2>10 DEF Talk
    <3>2. t \o w.out = Append(t \o x.out, "HELLO") /\ t \o x.out \in Seq(Words)
      BY <3>1, <2>1, <2>9, SaidMore
    <3>3. x.initSent = TRUE
      <4>1. x.initSent
        BY <1>1, <1>2, <1>4 DEF Flags
      <4>2. x.initSent \in BOOLEAN
        BY <1>1 DEF Typed
      <4> QED
        BY <4>1, <4>2
    <3>4. Channel(y, w, Append(t \o x.out, "HELLO"), c + x.bulk)
      BY <3>1, <3>2, <3>3, <2>1, <2>3, <2>7, <1>1, <1>4, SayHello
    <3> QED
      BY <3>2, <3>4, <2>3
  <2>11. Talk(w, s, b, y, t, c)
    BY <2>3, <2>6, <2>7, <2>8, <2>9, <2>10 DEF Talk
  <2> QED
    BY <2>1, <2>4, <2>5, <2>11, <1>4
<1> QED
  BY <1>3, <1>4

\* Only what the channels read matters.
LEMMA TalkFrame ==
  ASSUME NEW x, NEW s, NEW b, NEW y, NEW t, NEW c, NEW z,
         Talk(x, s, b, y, t, c), Typed(z), z.out = x.out, z.bulk = x.bulk,
         \A f \in {"initSent", "nonce", "helloSent", "helloVerified", "pendingHello",
                   "authenticated", "ready", "missed", "net", "open", "down"} : z[f] = x[f],
         x.open => z.current # NoSession
  PROVE  Talk(z, s, b, y, t, c)
<1>1. /\ z.initSent = x.initSent /\ z.nonce = x.nonce /\ z.helloSent = x.helloSent
      /\ z.helloVerified = x.helloVerified /\ z.pendingHello = x.pendingHello
      /\ z.authenticated = x.authenticated /\ z.ready = x.ready /\ z.missed = x.missed
      /\ z.net = x.net /\ z.open = x.open /\ z.down = x.down
  OBVIOUS
<1>2. SameEar(x, z) /\ SameMouth(x, z) /\ SameEar(y, y) /\ SameMouth(y, y)
  BY <1>1 DEF SameEar, SameMouth
<1>3. Channel(z, y, s, b)
  BY <1>2, ChannelFrame DEF Talk
<1>4. Alive(y) => Flags(y) /\ Channel(y, z, t \o z.out, c + z.bulk)
  BY <1>2, ChannelFrame DEF Talk
<1>5. Flags(z) /\ Alive(z)
  BY <1>1 DEF Talk, Flags, Alive
<1> QED
  BY <1>3, <1>4, <1>5 DEF Talk

\* The nonce of the other end.
LEMMA TalkNonce ==
  ASSUME NEW x, NEW s, NEW b, NEW y, NEW t, NEW c,
         Talk(x, s, b, y, t, c), s # <<>>, Head(s) = "HELLO_INIT", x.open
  PROVE  LET z == channelOpened([x EXCEPT !.nonce = TRUE]) IN
         /\ Talk(z, Tail(s), b, y, t, c) /\ Kept(x, z) /\ z.nonce = TRUE
         /\ \A f \in Talking \ {"nonce", "helloSent"} : z[f] = x[f]
<1> DEFINE z == channelOpened([x EXCEPT !.nonce = TRUE])
           w == [x EXCEPT !.nonce = TRUE]
<1>1. DOMAIN x = Fields /\ Alive(x) /\ Typed(x) /\ Flags(x)
  BY DEF Talk, Typed, Shape
<1>2. /\ Shape(w) /\ w.nonce = TRUE /\ \A f \in Fields \ {"nonce"} : w[f] = x[f]
  BY <1>1 DEF Fields, Shape
<1>3. /\ w.initSent = x.initSent /\ w.helloSent = x.helloSent
      /\ w.helloVerified = x.helloVerified /\ w.pendingHello = x.pendingHello
      /\ w.authenticated = x.authenticated /\ w.ready = x.ready /\ w.missed = x.missed
      /\ w.net = x.net /\ w.open = x.open /\ w.down = x.down /\ w.current = x.current
      /\ w.out = x.out /\ w.bulk = x.bulk /\ w.queued = x.queued /\ w.unauth = x.unauth
      /\ w.awaiting = x.awaiting
  BY <1>2 DEF Fields
<1>4. z = trySendHello(w)
  BY <1>1, <1>2, <1>3 DEF channelOpened, Alive, Flags
<1> HIDE DEF z, w
<1>5. Channel(w, y, Tail(s), b) /\ ~x.nonce /\ Tail(s) \in Seq(Words)
  BY <1>1, <1>2, <1>3, HearInit, WordTaken DEF Talk
<1>6. ~w.pendingHello
  BY <1>1, <1>3, <1>5 DEF Flags
<1>7. Kept(x, w) /\ \A f \in Talking \ {"nonce"} : w[f] = x[f]
  BY <1>2 DEF Kept, HandshakeFields, Talking, Fields
<1>8. Typed(w)
  <2>1. w.queued \in Nat /\ w.unauth \in Nat /\ w.missed \in Nat
    BY <1>1, <1>3 DEF Typed
  <2>2. \A f \in {"initSent", "nonce", "helloSent", "helloVerified", "pendingHello",
                 "authenticated", "ready", "awaiting"} : w[f] \in BOOLEAN
    BY <1>1, <1>2, <1>3 DEF Typed
  <2> QED
    BY <1>1, <1>2, <1>7, <2>1, <2>2, TypedIs
<1>9. Flags(w) /\ Alive(w)
  BY <1>1, <1>2, <1>3 DEF Flags, Alive
<1>10. SameMouth(x, w) /\ SameEar(y, y)
  BY <1>3 DEF SameMouth, SameEar
<1>11. Alive(y) => Flags(y) /\ Channel(y, w, t \o w.out, c + w.bulk)
  BY <1>3, <1>10, ChannelFrame DEF Talk
<1>12. Talk(w, Tail(s), b, y, t, c)
  BY <1>3, <1>5, <1>8, <1>9, <1>11 DEF Talk
<1>13. /\ Talk(z, Tail(s), b, y, t, c) /\ Kept(w, z)
       /\ \A f \in Talking \ {"helloSent"} : z[f] = w[f]
  BY <1>4, <1>6, <1>12, TalkHello
<1>14. z.nonce = TRUE /\ \A f \in Talking \ {"nonce", "helloSent"} : z[f] = x[f]
  BY <1>2, <1>7, <1>13 DEF Talking
<1>15. Kept(x, z)
  BY <1>7, <1>13, KeptIsOrder
<1> QED
  BY <1>13, <1>14, <1>15 DEF z

\* The channels open.
LEMMA TalkOpened ==
  ASSUME NEW x, NEW s, NEW b, NEW y, NEW t, NEW c,
         Talk(x, s, b, y, t, c), x.current # NoSession,
         ~x.pendingHello \/ x.signaling # "stable"
  PROVE  LET z == channelOpened([x EXCEPT !.net = "connected", !.open = TRUE]) IN
         /\ Talk(z, s, b, y, t, c)
         /\ \A f \in Fields \ (HandshakeFields \cup {"net", "open"}) : z[f] = x[f]
         /\ \A f \in Talking \ {"net", "open", "initSent", "helloSent"} : z[f] = x[f]
<1> DEFINE z == channelOpened([x EXCEPT !.net = "connected", !.open = TRUE])
           v == [x EXCEPT !.net = "connected", !.open = TRUE]
           w == IF v.initSent THEN v
                ELSE [v EXCEPT !.initSent = TRUE, !.out = Append(@, "HELLO_INIT")]
<1>1. DOMAIN x = Fields /\ Alive(x) /\ Typed(x) /\ Flags(x)
  BY DEF Talk, Typed, Shape
<1>2. /\ Shape(v) /\ v.net = "connected" /\ v.open = TRUE
      /\ \A f \in Fields \ {"net", "open"} : v[f] = x[f]
  BY <1>1 DEF Fields, Shape
<1>3. z = trySendHello(w)
  BY <1>1, <1>2 DEF channelOpened, Alive, Fields
<1>4. /\ Shape(w) /\ w.initSent = TRUE /\ w.net = "connected" /\ w.open = TRUE
      /\ w.out = IF x.initSent THEN x.out ELSE Append(x.out, "HELLO_INIT")
      /\ \A f \in Fields \ {"net", "open", "initSent", "out"} : w[f] = x[f]
  <2>1. x.initSent \in BOOLEAN /\ v.initSent = x.initSent /\ v.out = x.out
    BY <1>1, <1>2 DEF Typed, Fields
  <2>2. CASE x.initSent
    <3>1. w = v
      BY <2>1, <2>2
    <3> HIDE DEF v, w
    <3> QED
      BY <2>1, <2>2, <3>1, <1>2 DEF Fields
  <2>3. CASE ~x.initSent
    <3>1. w = [v EXCEPT !.initSent = TRUE, !.out = Append(v.out, "HELLO_INIT")]
      BY <2>1, <2>3
    <3>2. DOMAIN v = Fields
      BY <1>2 DEF Shape
    <3> HIDE DEF v, w
    <3> QED
      BY <2>1, <2>3, <3>1, <3>2, <1>2 DEF Fields, Shape
  <2> QED
    BY <2>1, <2>2, <2>3
<1> HIDE DEF z, v, w
<1>5. /\ w.nonce = x.nonce /\ w.helloSent = x.helloSent
      /\ w.helloVerified = x.helloVerified /\ w.pendingHello = x.pendingHello
      /\ w.authenticated = x.authenticated /\ w.ready = x.ready /\ w.missed = x.missed
      /\ w.down = x.down /\ w.current = x.current /\ w.signaling = x.signaling
      /\ w.bulk = x.bulk /\ w.queued = x.queued /\ w.unauth = x.unauth
      /\ w.awaiting = x.awaiting
  BY <1>4 DEF Fields
<1>6. Typed(w)
  <2>1. /\ \A f \in {"gather", "revision", "offered", "seen", "retries", "negotiating",
                     "jobs"} : w[f] = x[f]
    BY <1>4 DEF Fields
  <2> QED
    BY <2>1, <1>1, <1>4, <1>5, ZenonT(60) DEF Typed
<1>7. Flags(w) /\ Alive(w)
  BY <1>1, <1>4, <1>5 DEF Flags, Alive
<1>8. "HELLO_INIT" \in Words /\ x.out \in Seq(Words) /\ w.out \in Seq(Words)
  BY <1>4, AppendProperties DEF Talk, Words
<1>9. Channel(w, y, s, b)
  <2>1. SameEar(x, w) /\ SameMouth(y, y)
    BY <1>5 DEF SameEar, SameMouth
  <2> QED
    BY <2>1, ChannelFrame DEF Talk
<1>10. ASSUME Alive(y)
       PROVE  Channel(y, w, t \o w.out, c + w.bulk)
  <2>1. Channel(y, x, t \o x.out, c + x.bulk) /\ t \in Seq(Words)
    BY <1>10 DEF Talk
  <2>2. CASE x.initSent
    <3>1. SameMouth(x, w) /\ SameEar(y, y)
      <4>1. x.initSent = TRUE
        BY <1>1, <2>2 DEF Typed
      <4> QED
        BY <4>1, <1>4, <1>5 DEF SameMouth, SameEar
    <3> QED
      BY <2>1, <2>2, <3>1, <1>4, <1>5, ChannelFrame
  <2>3. CASE ~x.initSent
    <3>1. t \o w.out = Append(t \o x.out, "HELLO_INIT") /\ t \o x.out \in Seq(Words)
      BY <2>1, <2>3, <1>4, <1>8, SaidMore
    <3>2. Channel(y, w, Append(t \o x.out, "HELLO_INIT"), c + x.bulk)
      BY <2>1, <2>3, <3>1, <1>1, <1>4, <1>5, <1>7, SayInit
    <3> QED
      BY <3>1, <3>2, <1>5
  <2> QED
    BY <2>2, <2>3
<1>11. Talk(w, s, b, y, t, c)
  BY <1>5, <1>6, <1>7, <1>8, <1>9, <1>10 DEF Talk
<1>12. /\ Talk(z, s, b, y, t, c) /\ Kept(w, z)
       /\ \A f \in Talking \ {"helloSent"} : z[f] = w[f]
  BY <1>3, <1>5, <1>11, TalkHello
<1>13. \A f \in Fields \ (HandshakeFields \cup {"net", "open"}) : z[f] = x[f]
  BY <1>4, <1>12 DEF Kept, HandshakeFields
<1>14. \A f \in Talking \ {"net", "open", "initSent", "helloSent"} : z[f] = x[f]
  BY <1>4, <1>12 DEF Talking, Fields
<1> QED
  BY <1>12, <1>13, <1>14 DEF z

\* What a step of the handshake may not undo.
Further(x, z) ==
  /\ z.nonce = x.nonce /\ z.unauth = x.unauth /\ z.missed = x.missed
  /\ x.authenticated \/ x.pendingHello => z.authenticated \/ z.pendingHello

\* The handshake neither counts a message nor loses a ping.
LEMMA FurtherCounts ==
  ASSUME NEW x, NEW z, Counts(x), Further(x, z)
  PROVE  Counts(z)
BY DEF Counts, Further

\* The state of the browser's connection changed: a HELLO that waited for it is heard.
LEMMA TalkState ==
  ASSUME NEW x, NEW s, NEW b, NEW y, NEW t, NEW c,
         Talk(x, s, b, y, t, c)
  PROVE  LET z == stateChanged(x) IN
         /\ Talk(z, s, b, y, t, c) /\ Kept(x, z) /\ Waits(z) /\ Further(x, z)
<1> DEFINE z == stateChanged(x)
           y0 == trySendHello(x)
           z0 == IF y0.signaling = "stable" /\ y0.pendingHello
                 THEN receiveControl([y0 EXCEPT !.pendingHello = FALSE], "HELLO")
                 ELSE y0
<1>0. z = IF z0.signaling = "stable" THEN [z0 EXCEPT !.needed = z0.restart] ELSE z0
  BY DEF stateChanged
<1>1. DOMAIN x = Fields /\ Alive(x) /\ Typed(x) /\ Flags(x)
  BY DEF Talk, Typed, Shape
<1> HIDE DEF z
<1>2. Talk(z0, s, b, y, t, c) /\ Kept(x, z0) /\ Waits(z0) /\ Further(x, z0)
  <2>1. CASE x.signaling = "stable" /\ x.pendingHello
    <3> DEFINE u == [x EXCEPT !.pendingHello = FALSE]
               v == [u EXCEPT !.helloSent = TRUE, !.out = Append(@, "HELLO")]
               w == [x EXCEPT !.helloSent = TRUE, !.out = Append(@, "HELLO")]
    <3>1. /\ x.nonce /\ x.open /\ x.current # NoSession /\ ~x.helloSent /\ ~x.helloVerified
          /\ ~x.authenticated
      BY <1>1, <2>1 DEF Flags
    <3>2. /\ Shape(u) /\ u.pendingHello = FALSE
          /\ \A f \in Fields \ {"pendingHello"} : u[f] = x[f]
      BY <1>1 DEF Fields, Shape
    <3>3. y0 = w
      <4>1. y0 = maybeAuthenticated(w)
        BY <1>1, <2>1, <3>1 DEF trySendHello, Binding
      <4>2. ~w.helloVerified
        BY <1>1, <3>1 DEF Fields
      <4> QED
        BY <4>1, <4>2 DEF maybeAuthenticated
    <3>4. w.signaling = "stable" /\ w.pendingHello
      BY <1>1, <2>1 DEF Fields
    <3>5. z0 = receiveControl([w EXCEPT !.pendingHello = FALSE], "HELLO")
      BY <3>3, <3>4
    <3>6. [w EXCEPT !.pendingHello = FALSE] = v
      BY <1>1 DEF Fields
    <3>7. v = trySendHello(u)
      <4>1. v = [u EXCEPT !.helloSent = TRUE, !.out = Append(u.out, "HELLO")]
        OBVIOUS
      <4> HIDE DEF u, v, w
      <4>2. DOMAIN u = Fields /\ u.down = x.down
        BY <3>2 DEF Shape, Fields
      <4>3. /\ ~u.helloSent /\ u.nonce /\ u.open /\ u.signaling = "stable"
            /\ u.current # NoSession /\ Alive(u) /\ ~u.helloVerified
        BY <1>1, <2>1, <3>1, <3>2 DEF Fields, Alive
      <4>4. trySendHello(u) = maybeAuthenticated(v)
        BY <4>1, <4>3 DEF trySendHello, Binding
      <4>5. ~v.helloVerified
        BY <4>1, <4>2, <4>3 DEF Fields
      <4> QED
        BY <4>4, <4>5 DEF maybeAuthenticated
    <3> HIDE DEF u, v, w, z0, y0
    <3>8. /\ u.initSent = x.initSent /\ u.nonce = x.nonce /\ u.helloSent = x.helloSent
          /\ u.helloVerified = x.helloVerified /\ u.authenticated = x.authenticated
          /\ u.ready = x.ready /\ u.missed = x.missed /\ u.net = x.net /\ u.open = x.open
          /\ u.down = x.down /\ u.current = x.current /\ u.out = x.out /\ u.bulk = x.bulk
          /\ u.queued = x.queued /\ u.unauth = x.unauth /\ u.awaiting = x.awaiting
          /\ u.signaling = "stable"
      BY <2>1, <3>2 DEF Fields
    <3>9. s = <<>> /\ Channel(u, y, <<"HELLO">>, b)
      BY <1>1, <2>1, <3>2, <3>8, HearAgain DEF Talk
    <3>10. Kept(x, u)
      BY <3>2 DEF Kept, HandshakeFields
    <3>11. Typed(u)
      <4>1. u.queued \in Nat /\ u.unauth \in Nat /\ u.missed \in Nat
        BY <1>1, <3>8 DEF Typed
      <4>2. \A f \in {"initSent", "nonce", "helloSent", "helloVerified", "pendingHello",
                     "authenticated", "ready", "awaiting"} : u[f] \in BOOLEAN
        BY <1>1, <3>2, <3>8 DEF Typed
      <4> QED
        BY <1>1, <3>2, <3>10, <4>1, <4>2, TypedIs
    <3>12. Flags(u) /\ Alive(u)
      BY <1>1, <3>2, <3>8 DEF Flags, Alive
    <3>13. Alive(y) => Flags(y) /\ Channel(y, u, t \o u.out, c + u.bulk)
      <4>1. SameMouth(x, u) /\ SameEar(y, y)
        BY <3>8 DEF SameMouth, SameEar
      <4> QED
        BY <4>1, <3>8, ChannelFrame DEF Talk
    <3>14. <<"HELLO">> \in Seq(Words) /\ <<"HELLO">> # <<>>
           /\ Head(<<"HELLO">>) = "HELLO" /\ Tail(<<"HELLO">>) = <<>>
      <4>1. "HELLO" \in Words
        BY DEF Words
      <4> QED
        BY <4>1
    <3>15. Talk(u, <<"HELLO">>, b, y, t, c)
      BY <3>8, <3>9, <3>11, <3>12, <3>13, <3>14 DEF Talk
    <3>16. /\ Talk(v, <<"HELLO">>, b, y, t, c) /\ Kept(u, v) /\ v.helloSent
           /\ \A f \in Talking \ {"helloSent"} : v[f] = u[f]
      <4>1. ~u.pendingHello /\ u.nonce
        BY <3>1, <3>2, <3>8
      <4> QED
        BY <3>7, <3>8, <3>15, <4>1, TalkHello
    <3>17. /\ v.nonce = x.nonce /\ v.unauth = x.unauth /\ v.missed = x.missed
           /\ v.authenticated = x.authenticated /\ v.pendingHello = FALSE
      BY <3>2, <3>8, <3>16 DEF Talking
    <3>18. z0 = maybeAuthenticated([v EXCEPT !.helloVerified = TRUE])
      <4>1. z0 = receiveHello(v)
        BY <3>1, <3>5, <3>6, <3>17 DEF receiveControl
      <4>2. trySendHello(v) = v
        BY <3>16 DEF trySendHello
      <4> QED
        BY <4>1, <4>2, <3>1, <3>16, <3>17 DEF receiveHello
    <3>19. /\ Talk(z0, <<>>, b, y, t, c) /\ Kept(v, z0) /\ z0.authenticated = TRUE
           /\ \A f \in Talking \ {"helloVerified", "authenticated"} : z0[f] = v[f]
      <4>1. PICK o : o = <<"HELLO">>
        OBVIOUS
      <4>2. o # <<>> /\ Head(o) = "HELLO" /\ Tail(o) = <<>> /\ Talk(v, o, b, y, t, c)
        BY <4>1, <3>14, <3>16
      <4>3. /\ Talk(z0, Tail(o), b, y, t, c) /\ Kept(v, z0) /\ z0.authenticated = TRUE
            /\ \A f \in Talking \ {"helloVerified", "authenticated"} : z0[f] = v[f]
        BY <4>2, <3>16, <3>18, TalkVerified
      <4> QED
        BY <4>2, <4>3
    <3>20. /\ z0.nonce = x.nonce /\ z0.unauth = x.unauth /\ z0.missed = x.missed
           /\ z0.pendingHello = FALSE
      BY <3>17, <3>19 DEF Talking
    <3>21. Kept(x, z0)
      BY <3>10, <3>16, <3>19, KeptIsOrder
    <3> QED
      BY <3>9, <3>19, <3>20, <3>21 DEF Waits, Further
  <2>2. CASE ~(x.signaling = "stable" /\ x.pendingHello)
    <3>1. /\ Talk(y0, s, b, y, t, c) /\ Kept(x, y0)
          /\ \A f \in Talking \ {"helloSent"} : y0[f] = x[f]
      BY <2>2, TalkHello
    <3> HIDE DEF y0
    <3>2. /\ y0.signaling = x.signaling /\ y0.pendingHello = x.pendingHello
          /\ y0.nonce = x.nonce /\ y0.unauth = x.unauth /\ y0.missed = x.missed
          /\ y0.authenticated = x.authenticated
      BY <3>1 DEF Talking
    <3>3. z0 = y0
      BY <3>2, <2>2
    <3> QED
      BY <3>1, <3>2, <3>3, <2>2 DEF Waits, Further
  <2> QED
    BY <2>1, <2>2
<1> HIDE DEF z0
<1>3. CASE z0.signaling # "stable"
  <2>1. z = z0
    BY <1>0, <1>3
  <2> QED
    BY <2>1, <1>2 DEF z
<1>4. CASE z0.signaling = "stable"
  <2>1. DOMAIN z0 = Fields /\ Typed(z0)
    BY <1>2 DEF Talk, Typed, Shape
  <2>2. /\ Shape(z) /\ \A f \in Fields \ {"needed"} : z[f] = z0[f]
    BY <1>0, <1>4, <2>1 DEF Fields, Shape
  <2>3. \A f \in {"gather", "revision", "offered", "seen", "retries", "queued", "unauth",
               "missed", "open", "initSent", "nonce", "helloSent", "helloVerified",
               "pendingHello", "authenticated", "ready", "awaiting", "negotiating",
               "jobs", "down", "net", "out", "bulk", "signaling", "current"} : z[f] = z0[f]
    BY <2>2 DEF Fields
  <2>4. Typed(z)
    BY <2>1, <2>2, <2>3 DEF Typed
  <2>5. Talk(z, s, b, y, t, c)
    <3>1. z.out = z0.out /\ z.bulk = z0.bulk /\ z.current = z0.current
      BY <2>3
    <3>2. z0.open => z0.current # NoSession
      BY <1>2 DEF Talk, Flags
    <3> QED
      BY <1>2, <2>3, <2>4, <3>1, <3>2, TalkFrame
  <2>6. Kept(z0, z)
    BY <2>2 DEF Kept, HandshakeFields
  <2>7. Kept(x, z)
    BY <2>6, <1>2, KeptIsOrder
  <2>8. Waits(z) /\ Further(x, z)
    BY <2>3, <1>2 DEF Waits, Further
  <2> QED
    BY <2>5, <2>7, <2>8 DEF z
<1> QED
  BY <1>3, <1>4

\* A word is heard, and something is said.
Listened(x, r) == [x EXCEPT !.missed = 0, !.awaiting = FALSE, !.ready = r]
Says(x, m) == [x EXCEPT !.out = Append(@, m)]

\* A message that is no greeting comes to an end that is authenticated.
LEMMA TalkFrameHeard ==
  ASSUME NEW x, NEW s, NEW b, NEW y, NEW t, NEW c, NEW r \in BOOLEAN,
         Talk(x, s, b, y, t, c), s # <<>>, Head(s) \notin Greetings
  PROVE  LET z == Listened(x, r) IN
         /\ Talk(z, Tail(s), b, y, t, c) /\ Kept(x, z) /\ z.authenticated /\ x.authenticated
         /\ z.missed = 0 /\ z.out = x.out
         /\ \A f \in Talking \ {"missed", "awaiting", "ready"} : z[f] = x[f]
<1> DEFINE z == Listened(x, r)
<1>1. DOMAIN x = Fields /\ Alive(x) /\ Typed(x) /\ Flags(x)
  BY DEF Talk, Typed, Shape
<1>2. /\ Shape(z) /\ z.missed = 0 /\ z.awaiting = FALSE /\ z.ready = r
      /\ \A f \in Fields \ {"missed", "awaiting", "ready"} : z[f] = x[f]
  BY <1>1 DEF Fields, Shape, Listened
<1> HIDE DEF z
<1>3. /\ z.initSent = x.initSent /\ z.helloSent = x.helloSent /\ z.nonce = x.nonce
      /\ z.helloVerified = x.helloVerified /\ z.pendingHello = x.pendingHello
      /\ z.authenticated = x.authenticated
      /\ z.net = x.net /\ z.open = x.open /\ z.down = x.down /\ z.current = x.current
      /\ z.out = x.out /\ z.bulk = x.bulk /\ z.queued = x.queued /\ z.unauth = x.unauth
  BY <1>2 DEF Fields
<1>4. Channel(x, y, s, b) /\ s \in Seq(Words)
  BY DEF Talk
<1>5. Tail(s) \in Seq(Words)
  BY <1>4, WordTaken
<1>6. Channel(z, y, Tail(s), b) /\ x.authenticated
  BY <1>1, <1>2, <1>3, <1>4, HearFrame
<1>7. Kept(x, z) /\ \A f \in Talking \ {"missed", "awaiting", "ready"} : z[f] = x[f]
  BY <1>2 DEF Kept, HandshakeFields, Talking, Fields
<1>8. Typed(z)
  <2>1. z.queued \in Nat /\ z.unauth \in Nat /\ z.missed \in Nat
    BY <1>1, <1>2, <1>3 DEF Typed
  <2>2. \A f \in {"initSent", "nonce", "helloSent", "helloVerified", "pendingHello",
                 "authenticated", "ready", "awaiting"} : z[f] \in BOOLEAN
    BY <1>1, <1>2, <1>3 DEF Typed
  <2> QED
    BY <1>1, <1>2, <1>7, <2>1, <2>2, TypedIs
<1>9. Flags(z) /\ Alive(z)
  BY <1>1, <1>3 DEF Flags, Alive
<1>10. Alive(y) => Flags(y) /\ Channel(y, z, t \o z.out, c + z.bulk)
  <2>1. SameMouth(x, z) /\ SameEar(y, y)
    BY <1>3 DEF SameMouth, SameEar
  <2> QED
    BY <2>1, <1>3, ChannelFrame DEF Talk
<1>11. Talk(z, Tail(s), b, y, t, c)
  BY <1>3, <1>5, <1>6, <1>8, <1>9, <1>10 DEF Talk
<1> QED
  BY <1>2, <1>3, <1>6, <1>7, <1>11 DEF z

\* A message from the bulk channel.
LEMMA TalkBulk ==
  ASSUME NEW x, NEW s, NEW b \in Nat, NEW y, NEW t, NEW c, Talk(x, s, b, y, t, c), b > 0
  PROVE  LET z == receiveData(x) IN
         /\ Talk(z, s, b - 1, y, t, c) /\ Kept(x, z) /\ z.authenticated
         /\ z.missed = 0 /\ z.out = x.out /\ z.bulk = x.bulk
         /\ \A f \in Talking \ {"missed", "awaiting"} : z[f] = x[f]
<1> DEFINE z == receiveData(x)
<1>1. DOMAIN x = Fields /\ Alive(x) /\ Typed(x) /\ Flags(x)
  BY DEF Talk, Typed, Shape
<1>2. x.authenticated
  BY DEF Talk, Channel
<1>3. z = [x EXCEPT !.missed = 0, !.awaiting = FALSE]
  BY <1>2 DEF receiveData, seenInbound
<1> HIDE DEF z
<1>4. /\ Shape(z) /\ z.missed = 0 /\ z.awaiting = FALSE
      /\ \A f \in Fields \ {"missed", "awaiting"} : z[f] = x[f]
  BY <1>1, <1>3 DEF Fields, Shape
<1>5. /\ z.initSent = x.initSent /\ z.helloSent = x.helloSent /\ z.nonce = x.nonce
      /\ z.helloVerified = x.helloVerified /\ z.pendingHello = x.pendingHello
      /\ z.authenticated = x.authenticated /\ z.ready = x.ready
      /\ z.net = x.net /\ z.open = x.open /\ z.down = x.down /\ z.current = x.current
      /\ z.out = x.out /\ z.bulk = x.bulk /\ z.queued = x.queued /\ z.unauth = x.unauth
  BY <1>4 DEF Fields
<1>6. Channel(z, y, s, b - 1)
  <2>1. Channel(x, y, s, b) /\ ~(z.missed > 0) /\ z.authenticated
    BY <1>2, <1>4, <1>5 DEF Talk
  <2>2. Heard(z) <=> Heard(x)
    BY <1>5 DEF Heard
  <2> QED
    BY <2>1, <2>2, <1>5 DEF Channel
<1>7. Kept(x, z) /\ \A f \in Talking \ {"missed", "awaiting"} : z[f] = x[f]
  BY <1>4 DEF Kept, HandshakeFields, Talking, Fields
<1>8. Typed(z)
  <2>1. z.queued \in Nat /\ z.unauth \in Nat /\ z.missed \in Nat
    BY <1>1, <1>4, <1>5 DEF Typed
  <2>2. \A f \in {"initSent", "nonce", "helloSent", "helloVerified", "pendingHello",
                 "authenticated", "ready", "awaiting"} : z[f] \in BOOLEAN
    BY <1>1, <1>4, <1>5 DEF Typed
  <2> QED
    BY <1>1, <1>4, <1>7, <2>1, <2>2, TypedIs
<1>9. Flags(z) /\ Alive(z)
  BY <1>1, <1>5 DEF Flags, Alive
<1>10. Alive(y) => Flags(y) /\ Channel(y, z, t \o z.out, c + z.bulk)
  <2>1. SameMouth(x, z) /\ SameEar(y, y)
    BY <1>5 DEF SameMouth, SameEar
  <2> QED
    BY <2>1, <1>5, ChannelFrame DEF Talk
<1>11. Talk(z, s, b - 1, y, t, c)
  BY <1>5, <1>6, <1>8, <1>9, <1>10 DEF Talk
<1> QED
  BY <1>2, <1>4, <1>5, <1>7, <1>11 DEF z

\* An authenticated end says something more.
LEMMA TalkSays ==
  ASSUME NEW x, NEW s, NEW b, NEW y, NEW t, NEW c, NEW m \in Words \ Greetings,
         Talk(x, s, b, y, t, c), x.authenticated
  PROVE  LET z == Says(x, m) IN
         /\ Talk(z, s, b, y, t, c) /\ Kept(x, z)
         /\ \A f \in Fields \ {"out"} : z[f] = x[f]
<1> DEFINE z == Says(x, m)
<1>1. DOMAIN x = Fields /\ Alive(x) /\ Typed(x) /\ Flags(x)
  BY DEF Talk, Typed, Shape
<1>2. /\ Shape(z) /\ z.out = Append(x.out, m) /\ \A f \in Fields \ {"out"} : z[f] = x[f]
  BY <1>1 DEF Fields, Shape, Says
<1> HIDE DEF z
<1>3. \A f \in {"gather", "revision", "offered", "seen", "retries", "queued", "unauth",
               "missed", "open", "initSent", "nonce", "helloSent", "helloVerified",
               "pendingHello", "authenticated", "ready", "awaiting", "negotiating",
               "jobs", "down", "net", "bulk", "current"} : z[f] = x[f]
  BY <1>2 DEF Fields
<1>4. Typed(z)
  BY <1>1, <1>2, <1>3 DEF Typed
<1>5. Flags(z) /\ Alive(z)
  BY <1>1, <1>3 DEF Flags, Alive
<1>6. /\ SameEar(x, z) /\ SameMouth(y, y) /\ SameMouth(x, z) /\ SameEar(y, y)
  BY <1>3 DEF SameEar, SameMouth
<1>7. Channel(z, y, s, b)
  BY <1>6, ChannelFrame DEF Talk
<1>8. x.out \in Seq(Words) /\ z.out \in Seq(Words) /\ m \in Words /\ m \notin Greetings
  BY <1>2, AppendProperties DEF Talk
<1>9. ASSUME Alive(y)
      PROVE  Channel(y, z, t \o z.out, c + z.bulk)
  <2>1. Channel(y, x, t \o x.out, c + x.bulk) /\ Flags(y) /\ t \in Seq(Words)
    BY <1>9 DEF Talk
  <2>2. Channel(y, z, t \o x.out, c + z.bulk)
    <3>1. z.bulk = x.bulk
      BY <1>3
    <3> QED
      BY <2>1, <3>1, <1>6, ChannelFrame
  <2>3. t \o z.out = Append(t \o x.out, m) /\ t \o x.out \in Seq(Words)
    BY <2>1, <1>2, <1>8, SaidMore
  <2>4. y.helloSent
    <3>1. x.helloVerified
      BY <1>1 DEF Flags
    <3> QED
      BY <3>1, <1>9 DEF Talk, Channel, Heard
  <2>5. z.authenticated
    BY <1>3
  <2> QED
    BY <2>1, <2>2, <2>3, <2>4, <2>5, <1>5, <1>8, SayFrame
<1>10. Kept(x, z) /\ z.bulk = x.bulk
  BY <1>2, <1>3 DEF Kept, HandshakeFields
<1>11. Talk(z, s, b, y, t, c)
  BY <1>4, <1>5, <1>7, <1>8, <1>9, <1>10 DEF Talk
<1> QED
  BY <1>2, <1>10, <1>11 DEF z

\* A message before authentication is counted; it changes nothing else.
LEMMA TalkCounted ==
  ASSUME NEW x, NEW s, NEW b, NEW y, NEW t, NEW c, Talk(x, s, b, y, t, c)
  PROVE  LET z == [x EXCEPT !.unauth = @ + 1] IN
         /\ Talk(z, s, b, y, t, c) /\ Kept(x, z) /\ z.unauth = x.unauth + 1
         /\ z.unauth \in Nat /\ \A f \in Talking \ {"unauth"} : z[f] = x[f]
<1> DEFINE z == [x EXCEPT !.unauth = @ + 1]
<1>1. DOMAIN x = Fields /\ Alive(x) /\ Typed(x) /\ Flags(x)
  BY DEF Talk, Typed, Shape
<1>2. /\ Shape(z) /\ z.unauth = x.unauth + 1 /\ \A f \in Fields \ {"unauth"} : z[f] = x[f]
  BY <1>1 DEF Fields, Shape
<1> HIDE DEF z
<1>3. x.unauth \in Nat /\ z.unauth \in Nat
  BY <1>1, <1>2 DEF Typed
<1>4. \A f \in {"gather", "revision", "offered", "seen", "retries", "queued",
               "missed", "open", "initSent", "nonce", "helloSent", "helloVerified",
               "pendingHello", "authenticated", "ready", "awaiting", "negotiating",
               "jobs", "down", "net", "bulk", "out", "current"} : z[f] = x[f]
  BY <1>2 DEF Fields
<1>5. Typed(z)
  BY <1>1, <1>2, <1>3, <1>4 DEF Typed
<1>6. Talk(z, s, b, y, t, c)
  <2>1. z.out = x.out /\ z.bulk = x.bulk /\ z.current = x.current
    BY <1>4
  <2>2. x.open => z.current # NoSession
    BY <1>1, <2>1 DEF Flags
  <2> QED
    BY <1>4, <1>5, <2>1, <2>2, TalkFrame
<1>7. Kept(x, z) /\ \A f \in Talking \ {"unauth"} : z[f] = x[f]
  BY <1>2 DEF Kept, HandshakeFields, Talking, Fields
<1> QED
  BY <1>2, <1>3, <1>6, <1>7 DEF z

\* The HELLO of the other end.
LEMMA TalkReceived ==
  ASSUME NEW x, NEW s, NEW b, NEW y, NEW t, NEW c,
         Talk(x, s, b, y, t, c), s # <<>>, Head(s) = "HELLO", Waits(x)
  PROVE  LET z == receiveHello(x) IN
         /\ Talk(z, Tail(s), b, y, t, c) /\ Kept(x, z) /\ Waits(z)
         /\ z.authenticated \/ z.pendingHello
         /\ z.nonce = x.nonce /\ z.missed = x.missed /\ ~x.authenticated /\ x.nonce
         /\ ~x.pendingHello
<1> DEFINE z == receiveHello(x)
           w == trySendHello(x)
<1>1. DOMAIN x = Fields /\ Alive(x) /\ Typed(x) /\ Flags(x) /\ s \in Seq(Words)
  BY DEF Talk, Typed, Shape
<1>2. x.nonce /\ ~Heard(x)
  <2>1. 1 \in 1..Len(s) /\ s[1] = "HELLO"
    BY <1>1, WordTaken
  <2> QED
    BY <2>1 DEF Talk, Channel
<1>3. ~x.authenticated /\ ~x.pendingHello
  BY <1>1, <1>2 DEF Flags, Heard
<1>4. z = CASE w.helloSent -> maybeAuthenticated([w EXCEPT !.helloVerified = TRUE])
            [] ~w.helloSent /\ w.signaling # "stable" -> [w EXCEPT !.pendingHello = TRUE]
            [] OTHER -> fail(w, "fingerprint-unsupported")
  BY <1>2 DEF receiveHello
<1>5. /\ Talk(w, s, b, y, t, c) /\ Kept(x, w)
      /\ w.helloSent <=> x.helloSent \/ (x.nonce /\ x.signaling = "stable")
      /\ \A f \in Talking \ {"helloSent"} : w[f] = x[f]
  BY <1>3, TalkHello
<1> HIDE DEF z, w
<1>6. /\ w.nonce = x.nonce /\ w.missed = x.missed /\ w.pendingHello = x.pendingHello
      /\ w.signaling = x.signaling /\ w.authenticated = x.authenticated
  BY <1>5 DEF Talking
<1>7. CASE w.helloSent
  <2>1. z = maybeAuthenticated([w EXCEPT !.helloVerified = TRUE])
    BY <1>4, <1>7
  <2>2. /\ Talk(z, Tail(s), b, y, t, c) /\ Kept(w, z) /\ z.authenticated = TRUE
        /\ \A f \in Talking \ {"helloVerified", "authenticated"} : z[f] = w[f]
    BY <1>5, <1>7, <2>1, TalkVerified
  <2>3. z.nonce = x.nonce /\ z.missed = x.missed /\ z.pendingHello = x.pendingHello
    BY <1>6, <2>2 DEF Talking
  <2>4. Kept(x, z)
    BY <1>5, <2>2, KeptIsOrder
  <2> QED
    BY <1>2, <1>3, <2>2, <2>3, <2>4 DEF Waits, z
<1>8. CASE ~w.helloSent
  <2>1. x.signaling # "stable" /\ w.signaling # "stable"
    BY <1>2, <1>5, <1>6, <1>8
  <2>2. z = [w EXCEPT !.pendingHello = TRUE]
    BY <1>4, <1>8, <2>1
  <2>3. DOMAIN w = Fields /\ Typed(w) /\ Flags(w) /\ Alive(w)
    BY <1>5 DEF Talk, Typed, Shape
  <2>4. /\ Shape(z) /\ z.pendingHello = TRUE
        /\ \A f \in Fields \ {"pendingHello"} : z[f] = w[f]
    BY <2>2, <2>3 DEF Fields, Shape
  <2>5. /\ z.initSent = w.initSent /\ z.helloSent = w.helloSent /\ z.nonce = w.nonce
        /\ z.helloVerified = w.helloVerified /\ z.authenticated = w.authenticated
        /\ z.ready = w.ready /\ z.missed = w.missed /\ z.awaiting = w.awaiting
        /\ z.net = w.net /\ z.open = w.open /\ z.down = w.down /\ z.current = w.current
        /\ z.out = w.out /\ z.bulk = w.bulk /\ z.queued = w.queued /\ z.unauth = w.unauth
        /\ z.signaling = w.signaling
    BY <2>4 DEF Fields
  <2>6. Kept(w, z)
    BY <2>4 DEF Kept, HandshakeFields
  <2>7. Kept(x, z)
    BY <1>5, <2>6, KeptIsOrder
  <2>8. Typed(z)
    <3>1. z.queued \in Nat /\ z.unauth \in Nat /\ z.missed \in Nat
      BY <2>3, <2>5 DEF Typed
    <3>2. \A f \in {"initSent", "nonce", "helloSent", "helloVerified", "pendingHello",
                   "authenticated", "ready", "awaiting"} : z[f] \in BOOLEAN
      BY <2>3, <2>4, <2>5 DEF Typed
    <3> QED
      BY <2>3, <2>4, <2>6, <3>1, <3>2, TypedIs
  <2>9. Flags(z) /\ Alive(z)
    BY <2>3, <2>4, <2>5, <1>2, <1>6, <1>8 DEF Flags, Alive
  <2>10. Channel(z, y, Tail(s), b) /\ Tail(s) \in Seq(Words)
    <3>1. Channel(w, y, s, b)
      BY <1>5 DEF Talk
    <3>2. Channel(z, y, Tail(s), b)
      BY <1>1, <1>8, <2>3, <2>4, <2>5, <3>1, HearHello
    <3> QED
      BY <3>2, <1>1, WordTaken
  <2>11. Alive(y) => Flags(y) /\ Channel(y, z, t \o z.out, c + z.bulk)
    <3>1. SameMouth(w, z) /\ SameEar(y, y)
      BY <2>5 DEF SameMouth, SameEar
    <3> QED
      BY <3>1, <1>5, <2>5, ChannelFrame DEF Talk
  <2>12. Talk(z, Tail(s), b, y, t, c)
    BY <1>5, <2>5, <2>8, <2>9, <2>10, <2>11 DEF Talk
  <2>13. Waits(z) /\ z.pendingHello /\ z.nonce = x.nonce /\ z.missed = x.missed
    BY <2>1, <2>4, <2>5, <1>6 DEF Waits
  <2> QED
    BY <1>2, <1>3, <2>7, <2>12, <2>13 DEF z
<1> QED
  BY <1>7, <1>8

\* The next message of the game channel.
LEMMA TalkHeard ==
  ASSUME NEW x, NEW s, NEW b, NEW y, NEW t, NEW c,
         Talk(x, s, b, y, t, c), s # <<>>, x.open, Counts(x), Waits(x)
  PROVE  LET z == receive(x, Head(s)) IN
         Talk(z, Tail(s), b, y, t, c) /\ Kept(x, z) /\ Counts(z) /\ Waits(z)
<1> DEFINE m == Head(s)
           z == receive(x, m)
<1>1. /\ DOMAIN x = Fields /\ Alive(x) /\ Typed(x) /\ Flags(x) /\ s \in Seq(Words)
      /\ x.unauth \in Nat /\ x.ready \in BOOLEAN
  BY DEF Talk, Typed, Shape
<1>2. m \in Words
  BY <1>1, WordTaken
<1>3. ASSUME NEW r \in BOOLEAN, m \notin Greetings
      PROVE  LET u == Listened(x, r) IN
             /\ Talk(u, Tail(s), b, y, t, c) /\ Kept(x, u) /\ Counts(u) /\ Waits(u)
             /\ x.authenticated /\ u.authenticated /\ u.out = x.out
  <2> DEFINE u == Listened(x, r)
  <2>1. /\ Talk(u, Tail(s), b, y, t, c) /\ Kept(x, u) /\ u.authenticated /\ x.authenticated
        /\ u.missed = 0 /\ u.out = x.out
        /\ \A f \in Talking \ {"missed", "awaiting", "ready"} : u[f] = x[f]
    <3>1. r \in BOOLEAN /\ Head(s) \notin Greetings
      BY <1>3
    <3> HIDE DEF m
    <3> QED
      BY <3>1, TalkFrameHeard
  <2> HIDE DEF u
  <2>2. u.nonce = x.nonce /\ u.pendingHello = x.pendingHello /\ u.signaling = x.signaling
    BY <2>1 DEF Talking
  <2>3. Counts(u) /\ Waits(u)
    BY <1>1, <2>1, <2>2 DEF Counts, Waits, Flags
  <2> QED
    BY <2>1, <2>3 DEF u
<1>4. seenInbound(x) = Listened(x, x.ready)
  BY <1>1 DEF seenInbound, Listened, Fields, Shape
<1>5. CASE m = "data"
  <2>1. m \notin Greetings
    BY <1>5 DEF Greetings
  <2>2. x.authenticated
    BY <1>1, <1>3, <2>1
  <2>3. z = seenInbound(x)
    BY <1>1, <1>5, <2>2 DEF receive, receiveData
  <2> QED
    BY <1>1, <1>3, <1>4, <2>1, <2>3
<1>6. CASE m = "PONG"
  <2>1. m \notin Greetings
    BY <1>6 DEF Greetings
  <2>2. x.authenticated
    BY <1>1, <1>3, <2>1
  <2>3. z = seenInbound(x)
    BY <1>1, <1>6, <2>2 DEF receive, receiveControl
  <2> QED
    BY <1>1, <1>3, <1>4, <2>1, <2>3
<1>7. CASE m = "READY"
  <2> DEFINE u == Listened(x, TRUE)
  <2>1. m \notin Greetings
    BY <1>7 DEF Greetings
  <2>2. /\ Talk(u, Tail(s), b, y, t, c) /\ Kept(x, u) /\ Counts(u) /\ Waits(u)
        /\ x.authenticated /\ u.authenticated
    BY <1>3, <2>1
  <2>3. seenInbound([x EXCEPT !.ready = TRUE]) = u
    BY <1>1 DEF seenInbound, Listened, Fields, Shape
  <2>4. [x EXCEPT !.ready = TRUE].authenticated = x.authenticated
    BY <1>1 DEF Fields
  <2>5. z = drain(u)
    BY <1>1, <1>7, <2>2, <2>3 DEF receive, receiveControl
  <2> HIDE DEF u, z
  <2>6. /\ Talk(z, Tail(s), b, y, t, c) /\ Kept(u, z)
        /\ \A f \in Fields \ {"bulk", "queued"} : z[f] = u[f]
    BY <2>2, <2>5, TalkDrain
  <2>7. Kept(x, z)
    BY <2>2, <2>6, KeptIsOrder
  <2>8. Counts(z) /\ Waits(z)
    <3>1. /\ z.nonce = u.nonce /\ z.unauth = u.unauth /\ z.authenticated = u.authenticated
          /\ z.pendingHello = u.pendingHello /\ z.missed = u.missed
          /\ z.signaling = u.signaling
      BY <2>6 DEF Fields
    <3> QED
      BY <3>1, <2>2 DEF Counts, Waits
  <2> QED
    BY <2>6, <2>7, <2>8 DEF z, m
<1>8. CASE m = "PING"
  <2> DEFINE u == Listened(x, x.ready)
  <2>1. m \notin Greetings
    BY <1>8 DEF Greetings
  <2>2. /\ Talk(u, Tail(s), b, y, t, c) /\ Kept(x, u) /\ Counts(u) /\ Waits(u)
        /\ x.authenticated /\ u.authenticated
    BY <1>1, <1>3, <2>1
  <2>3. z = Says(u, "PONG")
    <3>1. z = [seenInbound(x) EXCEPT !.out = Append(@, "PONG")]
      BY <1>1, <1>8, <2>2 DEF receive, receiveControl
    <3>2. seenInbound(x) = u
      BY <1>4
    <3> QED
      BY <3>1, <3>2 DEF Says
  <2> HIDE DEF u, z
  <2>4. "PONG" \in Words \ Greetings
    BY DEF Words, Greetings
  <2>5. /\ Talk(z, Tail(s), b, y, t, c) /\ Kept(u, z)
        /\ \A f \in Fields \ {"out"} : z[f] = u[f]
    BY <2>2, <2>3, <2>4, TalkSays
  <2>6. Kept(x, z)
    BY <2>2, <2>5, KeptIsOrder
  <2>7. Counts(z) /\ Waits(z)
    <3>1. /\ z.nonce = u.nonce /\ z.unauth = u.unauth /\ z.authenticated = u.authenticated
          /\ z.pendingHello = u.pendingHello /\ z.missed = u.missed
          /\ z.signaling = u.signaling
      BY <2>5 DEF Fields
    <3> QED
      BY <3>1, <2>2 DEF Counts, Waits
  <2> QED
    BY <2>5, <2>6, <2>7 DEF z, m
<1>9. CASE m \in Greetings
  <2> DEFINE w == [x EXCEPT !.unauth = @ + 1]
  <2>1. /\ Talk(w, s, b, y, t, c) /\ Kept(x, w) /\ w.unauth = x.unauth + 1
        /\ w.unauth \in Nat /\ \A f \in Talking \ {"unauth"} : w[f] = x[f]
    BY TalkCounted
  <2>2. /\ ~x.authenticated /\ ~x.pendingHello
        /\ m = "HELLO_INIT" => ~x.nonce
    <3>1. 1 \in 1..Len(s) /\ s[1] = m
      BY <1>1, WordTaken
    <3>2. ~x.nonce \/ ~Heard(x)
      BY <1>9, <3>1 DEF Talk, Channel, Greetings
    <3>3. m = "HELLO_INIT" => ~x.nonce
      BY <3>1 DEF Talk, Channel
    <3> QED
      BY <1>1, <3>2, <3>3 DEF Heard, Flags
  <2>3. x.unauth <= 1 /\ x.unauth # UnauthLimit
    BY <1>1, <2>2, Limits DEF Counts
  <2>4. z = receiveControl(w, m)
    BY <1>1, <1>9, <2>2, <2>3 DEF receive, Greetings
  <2> HIDE DEF w, z, m
  <2>5. /\ w.nonce = x.nonce /\ w.missed = x.missed /\ w.pendingHello = x.pendingHello
        /\ w.signaling = x.signaling /\ w.authenticated = x.authenticated
        /\ w.open = x.open
    BY <2>1 DEF Talking
  <2>6. Waits(w) /\ x.missed < 3
    BY <2>5 DEF Waits, Counts
  <2>7. CASE m = "HELLO_INIT"
    <3>1. z = channelOpened([w EXCEPT !.nonce = TRUE])
      BY <2>2, <2>4, <2>5, <2>7 DEF receiveControl
    <3>2. /\ Talk(z, Tail(s), b, y, t, c) /\ Kept(w, z) /\ z.nonce = TRUE
          /\ \A f \in Talking \ {"nonce", "helloSent"} : z[f] = w[f]
      <4>1. Head(s) = "HELLO_INIT" /\ w.open
        BY <2>5, <2>7 DEF m
      <4> QED
        BY <2>1, <3>1, <4>1, TalkNonce
    <3>3. /\ z.unauth = w.unauth /\ z.missed = w.missed /\ z.pendingHello = w.pendingHello
          /\ z.authenticated = w.authenticated
      BY <3>2 DEF Talking
    <3>4. x.unauth = 0
      BY <2>2, <2>7 DEF Counts
    <3>5. Counts(z) /\ Waits(z)
      BY <2>1, <2>2, <2>5, <2>6, <3>2, <3>3, <3>4 DEF Counts, Waits
    <3>6. Kept(x, z)
      BY <2>1, <3>2, KeptIsOrder
    <3> QED
      BY <3>2, <3>5, <3>6 DEF z, m
  <2>8. CASE m = "HELLO"
    <3>1. z = receiveHello(w)
      BY <2>2, <2>4, <2>5, <2>8 DEF receiveControl
    <3>2. /\ Talk(z, Tail(s), b, y, t, c) /\ Kept(w, z) /\ Waits(z)
          /\ z.authenticated \/ z.pendingHello
          /\ z.nonce = w.nonce /\ z.missed = w.missed /\ w.nonce
      BY <2>1, <2>6, <2>8, <3>1, TalkReceived DEF m
    <3>3. Counts(z)
      BY <2>5, <2>6, <3>2 DEF Counts
    <3>4. Kept(x, z)
      BY <2>1, <3>2, KeptIsOrder
    <3> QED
      BY <3>2, <3>3, <3>4 DEF z, m
  <2> QED
    BY <1>9, <2>7, <2>8 DEF Greetings
<1> QED
  BY <1>2, <1>5, <1>6, <1>7, <1>8, <1>9 DEF Words, Greetings

-----------------------------------------------------------------------------
(* The invariant, seen from an end that acts. *)

\* There are two ends: each is the other one's peer, and one of them is polite.
LEMMA TwoPeers ==
  ASSUME NEW e \in Ends
  PROVE  /\ Peer(e) \in Ends /\ Peer(e) # e /\ Peer(Peer(e)) = e
         /\ Ends = {e, Peer(e)} /\ Polite \in {e, Peer(e)}
<1>1. IsFiniteSet(Ends \ {e}) /\ Cardinality(Ends \ {e}) = 1
  <2>1. IsFiniteSet(Ends) /\ Cardinality(Ends) = 2
    BY TwoEnds
  <2>2. Cardinality(Ends \ {e}) = Cardinality(Ends) - 1
    BY <2>1, FS_RemoveElement
  <2> QED
    BY <2>1, <2>2, FS_RemoveElement
<1>2. PICK p : Ends \ {e} = {p}
  BY <1>1, FS_Singleton
<1>3. p \in Ends /\ p # e /\ Ends = {e, p}
  BY <1>2
<1>4. Peer(e) = p
  BY <1>3 DEF Peer
<1>5. Peer(p) = e
  BY <1>3 DEF Peer
<1> QED
  BY <1>3, <1>4, <1>5, TwoEnds

\* What an end may do next: it goes on as z, with ours and said on their way to it.
Lossless == "lost" \notin troubles
GoesOn(e, z, ours, said, b) ==
  LET p == Peer(e) IN
  /\ Talk(z, said, b, end[p], game[p], bulk[p]) /\ Counts(z) /\ Waits(z)
  /\ z.post \in Seq(Signal) /\ ours \in Seq(Signal)
  /\ Link(e, z, ours, p, end[p], signals[p] \o z.post, Lossless)
Here(e) == Context(e, end[e], signals[e], Peer(e), end[Peer(e)], signals[Peer(e)])

\* The invariant gives an acting end all that GoesOn asks for, before it acts.
LEMMA Present ==
  ASSUME Inv, NEW e \in Ends, Up(e)
  PROVE  /\ Here(e) /\ GoesOn(e, end[e], signals[e], game[e], bulk[e])
         /\ Link(e, end[e], signals[e], Peer(e), end[Peer(e)], signals[Peer(e)], Lossless)
         /\ Silent(end[e]) /\ signals[Peer(e)] \in Seq(Signal)
<1> DEFINE p == Peer(e)
           x == end[e]
           y == end[p]
<1>1. /\ p \in Ends /\ p # e /\ Peer(p) = e /\ Polite \in {e, p}
  BY TwoPeers
<1> HIDE DEF p
<1>2. /\ signals[e] \in Seq(Signal) /\ signals[p] \in Seq(Signal)
      /\ game[e] \in Seq(Words) /\ game[p] \in Seq(Words)
      /\ bulk[e] \in Nat /\ bulk[p] \in Nat
  BY <1>1 DEF Inv, TypeOK
<1>3. /\ Typed(x) /\ Silent(x) /\ Flags(x) /\ Counts(x) /\ Waits(x)
      /\ Channel(x, y, game[e], bulk[e]) /\ Own(e, x, signals[e])
      /\ Alive(y) => Pair(e, x, signals[e], y, signals[p], Lossless)
  BY DEF Inv, Living, Lossless, Up, p
<1>4. ASSUME Alive(y)
      PROVE  /\ Typed(y) /\ Flags(y) /\ Channel(y, x, game[p], bulk[p])
             /\ Own(p, y, signals[p]) /\ Pair(p, y, signals[p], x, signals[e], Lossless)
  <2>1. Up(p)
    BY <1>4 DEF Up
  <2> QED
    BY <2>1, <1>1 DEF Inv, Living, Lossless, Up
<1>5. Context(e, x, signals[e], p, y, signals[p])
  BY <1>1, <1>2, <1>3, <1>4 DEF Context
<1>6. Link(e, x, signals[e], p, y, signals[p], Lossless)
  BY <1>3, <1>4 DEF Link
<1>7. /\ x.out = <<>> /\ x.bulk = 0 /\ x.post = <<>>
      /\ x.out \in Seq(Words) /\ x.post \in Seq(Signal)
      /\ game[p] \o x.out = game[p] /\ signals[p] \o x.post = signals[p]
      /\ bulk[p] + x.bulk = bulk[p] /\ x.bulk \in Nat
  <2>1. x.out = <<>> /\ x.bulk = 0 /\ x.post = <<>>
    BY <1>3 DEF Silent
  <2>2. <<>> \in Seq(Words) /\ <<>> \in Seq(Signal)
    OBVIOUS
  <2>3. game[p] \o <<>> = game[p] /\ signals[p] \o <<>> = signals[p]
    BY <1>2, ConcatEmptySeq
  <2> QED
    BY <2>1, <2>2, <2>3, <1>2
<1>8. Talk(x, game[e], bulk[e], y, game[p], bulk[p])
  BY <1>2, <1>3, <1>4, <1>7 DEF Talk, Up
<1>9. GoesOn(e, x, signals[e], game[e], bulk[e])
  BY <1>2, <1>3, <1>6, <1>7, <1>8 DEF GoesOn, p
<1> QED
  BY <1>2, <1>3, <1>5, <1>6, <1>9 DEF Here, p

\* What was said and posted is handed over: the end goes on as w.
HandsOver(z, w) ==
  /\ Shape(w) /\ Silent(w)
  /\ \A f \in Fields \ {"out", "bulk", "post"} : w[f] = z[f]

\* Once what it said and posted is handed over, an end is silent, and sound.
LEMMA HandedOver ==
  ASSUME NEW z, NEW w, NEW y, NEW s, NEW t, NEW b, NEW c, Talk(z, s, b, y, t, c),
         Counts(z), Waits(z), HandsOver(z, w)
  PROVE  /\ Alive(w) /\ Typed(w) /\ Silent(w) /\ Flags(w) /\ Counts(w) /\ Waits(w)
         /\ SameLink(z, w) /\ w.retries = z.retries
         /\ SameEar(z, w) /\ SameMouth(z, w)
         /\ Channel(w, y, s, b)
         /\ Alive(y) => Channel(y, w, t \o z.out, c + z.bulk)
<1>1. Typed(z) /\ Flags(z) /\ Alive(z) /\ Channel(z, y, s, b)
  BY DEF Talk
<1>2. /\ w.signaling = z.signaling /\ w.current = z.current /\ w.net = z.net
      /\ w.open = z.open /\ w.revision = z.revision /\ w.offered = z.offered
      /\ w.seen = z.seen /\ w.jobs = z.jobs /\ w.stage = z.stage /\ w.gather = z.gather
      /\ w.negotiating = z.negotiating /\ w.retries = z.retries
      /\ w.initSent = z.initSent /\ w.nonce = z.nonce /\ w.helloSent = z.helloSent
      /\ w.helloVerified = z.helloVerified /\ w.pendingHello = z.pendingHello
      /\ w.authenticated = z.authenticated /\ w.ready = z.ready /\ w.queued = z.queued
      /\ w.unauth = z.unauth /\ w.missed = z.missed /\ w.awaiting = z.awaiting
      /\ w.down = z.down
  BY DEF HandsOver, Fields
<1>3. Shape(w) /\ Silent(w)
  BY DEF HandsOver
<1>4. Typed(w)
  BY <1>1, <1>2, <1>3 DEF Typed
<1>5. Flags(w) /\ Counts(w) /\ Waits(w) /\ Alive(w)
  BY <1>1, <1>2 DEF Flags, Counts, Waits, Alive
<1>6. SameLink(z, w) /\ SameEar(z, w) /\ SameMouth(z, w)
  BY <1>2 DEF SameLink, SameEar, SameMouth
<1>7. Channel(w, y, s, b)
  <2>1. SameMouth(y, y)
    BY DEF SameMouth
  <2> QED
    BY <2>1, <1>1, <1>6, ChannelFrame
<1>8. ASSUME Alive(y)
      PROVE  Channel(y, w, t \o z.out, c + z.bulk)
  <2>1. SameEar(y, y)
    BY DEF SameEar
  <2>2. Channel(y, z, t \o z.out, c + z.bulk)
    BY <1>8 DEF Talk
  <2> QED
    BY <2>1, <2>2, <1>6, ChannelFrame
<1> QED
  BY <1>2, <1>3, <1>4, <1>5, <1>6, <1>7, <1>8

\* The state that follows.
Typing ==
  /\ DOMAIN end' = Ends /\ signals' \in [Ends -> Seq(Signal)]
  /\ game' \in [Ends -> Seq(Words)] /\ bulk' \in [Ends -> Nat]

\* An end goes on as z: the invariant holds of the state that hands over z's messages.
LEMMA LivesOn ==
  ASSUME Inv, NEW e \in Ends, Up(e), NEW z, NEW ours, NEW said, NEW b \in Nat,
         GoesOn(e, z, ours, said, b), HandsOver(z, end'[e]), Typing,
         end'[Peer(e)] = end[Peer(e)],
         signals'[e] = ours, game'[e] = said, bulk'[e] = b,
         IF Up(Peer(e))
         THEN /\ signals'[Peer(e)] = signals[Peer(e)] \o z.post
              /\ game'[Peer(e)] = game[Peer(e)] \o z.out
              /\ bulk'[Peer(e)] = bulk[Peer(e)] + z.bulk
         ELSE /\ signals'[Peer(e)] = signals[Peer(e)] /\ game'[Peer(e)] = game[Peer(e)]
              /\ bulk'[Peer(e)] = bulk[Peer(e)],
         troubles' = troubles
  PROVE  Inv'
<1> DEFINE p == Peer(e)
           y == end[p]
           w == end'[e]
<1>1. /\ p \in Ends /\ p # e /\ Peer(p) = e /\ Ends = {e, p} /\ Polite \in {e, p}
  BY TwoPeers
<1>2. TypeOK'
  BY DEF Typing, TypeOK
<1>3. /\ Talk(z, said, b, y, game[p], bulk[p]) /\ Counts(z) /\ Waits(z)
      /\ z.post \in Seq(Signal) /\ ours \in Seq(Signal)
      /\ Link(e, z, ours, p, y, signals[p] \o z.post, Lossless)
  BY DEF GoesOn
<1>4. /\ Alive(w) /\ Typed(w) /\ Silent(w) /\ Flags(w) /\ Counts(w) /\ Waits(w)
      /\ SameLink(z, w) /\ w.retries = z.retries
      /\ SameEar(z, w) /\ SameMouth(z, w)
      /\ Channel(w, y, said, b)
      /\ Alive(y) => Channel(y, w, game[p] \o z.out, bulk[p] + z.bulk)
  <2> HIDE DEF p, w
  <2>1. HandsOver(z, w)
    BY DEF w
  <2> QED
    BY <1>3, <2>1, HandedOver
<1>5. Link(e, w, ours, p, y, signals[p] \o z.post, Lossless)
  <2>1. signals[p] \in Seq(Signal)
    BY <1>1 DEF Inv, TypeOK
  <2>2. signals[p] \o z.post \in Seq(Signal)
    BY <2>1, <1>3, ConcatProperties
  <2>3. Typed(z)
    BY <1>3 DEF Talk
  <2>4. Alive(y) => Typed(y)
    BY <1>1 DEF Inv, Living, Up
  <2>5. Context(e, z, ours, p, y, signals[p] \o z.post)
    BY <1>1, <1>3, <2>2, <2>3, <2>4 DEF Context
  <2>6. w.retries \in Nat /\ w.retries <= z.retries
    BY <1>4 DEF Typed
  <2> HIDE DEF p, w, y
  <2> QED
    BY <1>3, <1>4, <2>5, <2>6, LinkFrame
<1>6. end'[e] = w /\ end'[p] = y /\ Lossless' = Lossless
  BY DEF Lossless
<1> HIDE DEF w, p, y
<1>7. Up(e)' /\ (Up(p)' <=> Alive(y)) /\ (Up(p) <=> Alive(y))
  BY <1>4, <1>6 DEF Up, y
<1>8. signals'[e] = ours /\ game'[e] = said /\ bulk'[e] = b
  OBVIOUS
<1>9. CASE Alive(y)
  <2>1. /\ signals'[p] = signals[p] \o z.post /\ game'[p] = game[p] \o z.out
        /\ bulk'[p] = bulk[p] + z.bulk
    BY <1>7, <1>9 DEF p
  <2>2. Living(p)
    BY <1>1, <1>7, <1>9 DEF Inv
  <2>3. Typed(y) /\ Silent(y) /\ Flags(y) /\ Counts(y) /\ Waits(y)
    BY <2>2 DEF Living, y
  <2>4. /\ Own(e, w, signals'[e]) /\ Own(p, y, signals'[p])
        /\ Pair(e, w, signals'[e], y, signals'[p], Lossless)
        /\ Pair(p, y, signals'[p], w, signals'[e], Lossless)
    BY <1>5, <1>8, <1>9, <2>1 DEF Link
  <2>5. Channel(w, y, game'[e], bulk'[e]) /\ Channel(y, w, game'[p], bulk'[p])
    BY <1>4, <1>8, <1>9, <2>1
  <2>6. Living(e)'
    BY <1>1, <1>4, <1>6, <2>4, <2>5 DEF Living, Lossless, p
  <2>7. Living(p)'
    BY <1>1, <1>4, <1>6, <2>3, <2>4, <2>5 DEF Living, Lossless
  <2> QED
    BY <1>1, <1>2, <1>7, <1>9, <2>6, <2>7 DEF Inv
<1>10. CASE ~Alive(y)
  <2>1. /\ signals'[p] = signals[p] /\ game'[p] = game[p] /\ bulk'[p] = bulk[p]
    BY <1>7, <1>10 DEF p
  <2>2. Closed(p)
    BY <1>1, <1>7, <1>10 DEF Inv
  <2>3. y.down # "ping-timeout"
    BY <1>1, <2>2 DEF Closed, y
  <2>4. Closed(p)'
    BY <1>1, <1>6, <2>1, <2>2, <2>3 DEF Closed, y
  <2>5. Own(e, w, signals'[e])
    BY <1>5, <1>8 DEF Link
  <2>6. Living(e)'
    BY <1>1, <1>4, <1>6, <1>8, <1>10, <2>5 DEF Living, p
  <2> QED
    BY <1>1, <1>2, <1>7, <1>10, <2>4, <2>6 DEF Inv
<1> QED
  BY <1>9, <1>10

\* An end closes: nothing of it goes on, and the other end is on its own.
LEMMA Dies ==
  ASSUME Inv, NEW e \in Ends, Up(e), NEW reason \in Reasons,
         reason = "ping-timeout" => ~Up(Peer(e)),
         end'[e].down = reason, Typing, end'[Peer(e)] = end[Peer(e)],
         signals'[e] = <<>>, game'[e] = <<>>, bulk'[e] = 0,
         game'[Peer(e)] = game[Peer(e)], bulk'[Peer(e)] = bulk[Peer(e)],
         \/ signals'[Peer(e)] = signals[Peer(e)]
         \/ Up(Peer(e)) /\ signals[Peer(e)] # <<>>
            /\ signals'[Peer(e)] = Front(signals[Peer(e)])
  PROVE  Inv'
<1> DEFINE p == Peer(e)
           y == end[p]
           w == end'[e]
<1>1. /\ p \in Ends /\ p # e /\ Peer(p) = e /\ Ends = {e, p}
  BY TwoPeers
<1>2. TypeOK'
  BY DEF Typing, TypeOK
<1>3. w.down = reason /\ ~Alive(w) /\ ~Up(e)'
  BY DEF Reasons, Alive, Up
<1>4. end'[p] = y /\ (Up(p)' <=> Up(p)) /\ (Up(p) <=> Alive(y))
  BY DEF Up
<1>5. game'[p] = game[p] /\ bulk'[p] = bulk[p]
  OBVIOUS
<1>6. Closed(e)'
  BY <1>4 DEF Closed
<1> HIDE DEF p, w, y
<1>7. CASE Up(p)
  <2>1. Living(p)
    BY <1>1, <1>7 DEF Inv
  <2>2. /\ Typed(y) /\ Silent(y) /\ Flags(y) /\ Counts(y) /\ Waits(y)
        /\ Channel(y, end[e], game[p], bulk[p]) /\ Own(p, y, signals[p])
    BY <1>1, <2>1 DEF Living, y
  <2>3. Channel(y, w, game[p], bulk[p])
    BY <1>3, <2>2, ChannelDead
  <2>4. Own(p, y, signals'[p])
    <3>1. CASE signals'[p] = signals[p]
      BY <2>2, <3>1
    <3>2. CASE signals[p] # <<>> /\ signals'[p] = Front(signals[p])
      <4>1. signals[p] \in Seq(Signal)
        BY <1>1 DEF Inv, TypeOK
      <4> QED
        BY <2>2, <3>2, <4>1, LinkCut
    <3> QED
      BY <3>1, <3>2 DEF p
  <2>5. Living(p)'
    BY <1>1, <1>3, <1>4, <1>5, <2>2, <2>3, <2>4 DEF Living, w
  <2> QED
    BY <1>1, <1>2, <1>3, <1>4, <1>6, <1>7, <2>5 DEF Inv
<1>8. CASE ~Up(p)
  <2>1. Closed(p)
    BY <1>1, <1>8 DEF Inv
  <2>2. y.down # "ping-timeout"
    BY <1>1, <2>1 DEF Closed, y
  <2>3. signals'[p] = signals[p]
    BY <1>8 DEF p
  <2>4. Closed(p)'
    BY <1>1, <1>4, <1>5, <2>1, <2>2, <2>3 DEF Closed, y
  <2> QED
    BY <1>1, <1>2, <1>3, <1>4, <1>6, <1>8, <2>4 DEF Inv
<1> QED
  BY <1>7, <1>8

\* Install hands over what an end says and posts.
LEMMA Reacting ==
  ASSUME Inv, NEW e \in Ends, Up(e), NEW z, NEW ours, NEW said,
         GoesOn(e, z, ours, said, bulk[e]), Install(e, z, ours, said), troubles' = troubles
  PROVE  Inv'
<1> DEFINE p == Peer(e)
           w == [z EXCEPT !.out = <<>>, !.bulk = 0, !.post = <<>>]
<1>1. p \in Ends /\ p # e
  BY TwoPeers
<1>2. /\ Alive(z) /\ DOMAIN z = Fields /\ z.out \in Seq(Words) /\ z.bulk \in Nat
      /\ said \in Seq(Words) /\ ours \in Seq(Signal) /\ z.post \in Seq(Signal)
  BY DEF GoesOn, Talk, Typed, Shape
<1>3. HandsOver(z, w)
  BY <1>2 DEF HandsOver, Silent, Shape, Fields
<1> HIDE DEF w
<1>4. /\ DOMAIN end = Ends /\ signals \in [Ends -> Seq(Signal)]
      /\ game \in [Ends -> Seq(Words)] /\ bulk \in [Ends -> Nat]
  BY DEF Inv, TypeOK
<1>5. end' = [end EXCEPT ![e] = w]
  BY DEF Install, w
<1>6. DOMAIN end' = Ends /\ end'[e] = w /\ end'[p] = end[p]
  BY <1>1, <1>4, <1>5
<1> HIDE DEF p
<1>7. signals[p] \o z.post \in Seq(Signal) /\ game[p] \o z.out \in Seq(Words)
  BY <1>1, <1>2, <1>4, ConcatProperties
<1>8. /\ signals' = [signals EXCEPT ![e] = ours,
                       ![p] = IF Up(p) THEN @ \o z.post ELSE @]
      /\ game' = [game EXCEPT ![e] = said, ![p] = IF Up(p) THEN @ \o z.out ELSE @]
      /\ bulk' = [bulk EXCEPT ![p] = IF Up(p) THEN @ + z.bulk ELSE @]
  <2>1. bulk = [bulk EXCEPT ![e] = @]
    BY <1>4
  <2> QED
    BY <1>1, <1>2, <1>4, <2>1 DEF Install, Up, p
<1>9. /\ signals'[e] = ours /\ game'[e] = said /\ bulk'[e] = bulk[e]
      /\ signals'[p] = (IF Up(p) THEN signals[p] \o z.post ELSE signals[p])
      /\ game'[p] = (IF Up(p) THEN game[p] \o z.out ELSE game[p])
      /\ bulk'[p] = (IF Up(p) THEN bulk[p] + z.bulk ELSE bulk[p])
  BY <1>1, <1>4, <1>8
<1>10. Typing
  <2>1. signals' \in [Ends -> Seq(Signal)]
    BY <1>2, <1>4, <1>7, <1>8
  <2>2. game' \in [Ends -> Seq(Words)]
    BY <1>2, <1>4, <1>7, <1>8
  <2>3. bulk' \in [Ends -> Nat]
    BY <1>1, <1>2, <1>4, <1>8, SMTT(30)
  <2> QED
    BY <1>6, <2>1, <2>2, <2>3 DEF Typing
<1>11. bulk[e] \in Nat
  BY <1>4
<1> QED
  BY <1>3, <1>6, <1>9, <1>10, <1>11, LivesOn DEF p

\* An end that fails says nothing any more.
LEMMA Closing ==
  ASSUME Inv, NEW e \in Ends, Up(e), NEW z, NEW ours, NEW said, NEW reason \in Reasons,
         reason = "ping-timeout" => ~Up(Peer(e)),
         z = fail(end[e], reason), Install(e, z, ours, said)
  PROVE  Inv'
<1> DEFINE p == Peer(e)
           x == end[e]
           w == [z EXCEPT !.out = <<>>, !.bulk = 0, !.post = <<>>]
<1>1. p \in Ends /\ p # e
  BY TwoPeers
<1>2. x.out = <<>> /\ x.bulk = 0 /\ x.post = <<>> /\ Alive(x)
  BY DEF Inv, Living, Silent, Up
<1>3. z = [NewEnd EXCEPT !.down = reason, !.out = x.out, !.bulk = x.bulk, !.post = x.post]
  BY <1>2 DEF fail
<1>4. /\ z.down = reason /\ z.out = <<>> /\ z.bulk = 0 /\ z.post = <<>> /\ w.down = reason
  BY <1>2, <1>3 DEF NewEnd
<1>5. ~Alive(z)
  BY <1>4 DEF Alive, Reasons
<1> HIDE DEF w, p, x
<1>6. /\ DOMAIN end = Ends /\ signals \in [Ends -> Seq(Signal)]
      /\ game \in [Ends -> Seq(Words)] /\ bulk \in [Ends -> Nat]
  BY DEF Inv, TypeOK
<1>7. end' = [end EXCEPT ![e] = w]
  BY DEF Install, w
<1>8. DOMAIN end' = Ends /\ end'[e] = w /\ end'[p] = end[p]
  BY <1>1, <1>6, <1>7
<1>9. signals[p] \o <<>> = signals[p] /\ game[p] \o <<>> = game[p] /\ bulk[p] + 0 = bulk[p]
  BY <1>1, <1>6, ConcatEmptySeq
<1>10. /\ signals' = [signals EXCEPT ![e] = <<>>]
       /\ game' = [game EXCEPT ![e] = <<>>] /\ bulk' = [bulk EXCEPT ![e] = 0]
  <2>1. /\ (IF Alive(end[p]) THEN signals[p] \o z.post ELSE signals[p]) = signals[p]
        /\ (IF Alive(end[p]) THEN game[p] \o z.out ELSE game[p]) = game[p]
        /\ (IF Alive(end[p]) THEN bulk[p] + z.bulk ELSE bulk[p]) = bulk[p]
    BY <1>4, <1>9
  <2>2. /\ signals' = [signals EXCEPT ![e] = <<>>, ![p] = signals[p]]
        /\ game' = [game EXCEPT ![e] = <<>>, ![p] = game[p]]
        /\ bulk' = [bulk EXCEPT ![e] = 0, ![p] = bulk[p]]
    BY <1>1, <1>5, <1>6, <2>1 DEF Install, p
  <2>3. signals' = [signals EXCEPT ![e] = <<>>]
    BY <1>1, <1>6, <2>2
  <2>4. game' = [game EXCEPT ![e] = <<>>]
    BY <1>1, <1>6, <2>2
  <2>5. bulk' = [bulk EXCEPT ![e] = 0]
    BY <1>1, <1>6, <2>2
  <2> QED
    BY <2>3, <2>4, <2>5
<1>11. Typing
  <2>1. signals' \in [Ends -> Seq(Signal)]
    BY <1>6, <1>10
  <2>2. game' \in [Ends -> Seq(Words)]
    BY <1>6, <1>10
  <2>3. bulk' \in [Ends -> Nat]
    BY <1>6, <1>10
  <2> QED
    BY <1>8, <2>1, <2>2, <2>3 DEF Typing
<1>12. /\ signals'[e] = <<>> /\ game'[e] = <<>> /\ bulk'[e] = 0
       /\ signals'[p] = signals[p] /\ game'[p] = game[p] /\ bulk'[p] = bulk[p]
  BY <1>1, <1>6, <1>10
<1>13. end'[e].down = reason
  BY <1>4, <1>8
<1> QED
  BY <1>8, <1>11, <1>12, <1>13, Dies DEF p

\* A change outside the handshake.
Apart(x, z) ==
  /\ Shape(z) /\ \A f \in (HandshakeFields \ {"needed"}) \cup {"net", "open", "down"} :
                   z[f] = x[f]
  /\ z.gather \in Nat /\ z.revision \in Nat /\ z.offered \in Nat /\ z.seen \in Nat
  /\ z.retries \in Nat /\ z.negotiating \in BOOLEAN /\ z.jobs \in Seq(Signal)
  /\ x.open => z.current # NoSession

\* A change outside the handshake leaves the channels in order.
LEMMA TalkApart ==
  ASSUME NEW x, NEW s, NEW b, NEW y, NEW t, NEW c, NEW z,
         Talk(x, s, b, y, t, c), Apart(x, z)
  PROVE  /\ Talk(z, s, b, y, t, c)
         /\ Counts(x) => Counts(z)
         /\ Waits(x) /\ z.signaling = x.signaling => Waits(z)
         /\ z.pendingHello = x.pendingHello /\ z.open = x.open
<1>1. /\ z.initSent = x.initSent /\ z.nonce = x.nonce /\ z.helloSent = x.helloSent
      /\ z.helloVerified = x.helloVerified /\ z.pendingHello = x.pendingHello
      /\ z.authenticated = x.authenticated /\ z.ready = x.ready /\ z.queued = x.queued
      /\ z.unauth = x.unauth /\ z.missed = x.missed /\ z.awaiting = x.awaiting
      /\ z.out = x.out /\ z.bulk = x.bulk
      /\ z.net = x.net /\ z.open = x.open /\ z.down = x.down
  BY DEF Apart, HandshakeFields
<1>2. Typed(x)
  BY DEF Talk
<1>3. Typed(z)
  BY <1>1, <1>2 DEF Apart, Typed
<1>4. Talk(z, s, b, y, t, c)
  BY <1>1, <1>3, TalkFrame DEF Apart
<1> QED
  BY <1>1, <1>4 DEF Counts, Waits

\* An end goes on when nothing the link reads has changed.
LEMMA GoesOnLinked ==
  ASSUME Inv, NEW e \in Ends, Up(e), NEW z, NEW said, NEW b,
         Talk(z, said, b, end[Peer(e)], game[Peer(e)], bulk[Peer(e)]),
         Counts(z), Waits(z), SameLink(end[e], z), z.retries \in Nat,
         z.retries <= end[e].retries, z.post = <<>>
  PROVE  GoesOn(e, z, signals[e], said, b)
<1> DEFINE p == Peer(e)
<1>1. /\ Here(e) /\ signals[p] \in Seq(Signal) /\ signals[e] \in Seq(Signal)
      /\ Link(e, end[e], signals[e], p, end[p], signals[p], Lossless)
  BY Present DEF Inv, TypeOK
<1> HIDE DEF p
<1>2. Link(e, z, signals[e], p, end[p], signals[p], Lossless)
  BY <1>1, LinkFrame DEF Here, p
<1>3. signals[p] \o z.post = signals[p] /\ z.post \in Seq(Signal)
  <2>1. signals[p] \o <<>> = signals[p] /\ <<>> \in Seq(Signal)
    BY <1>1, ConcatEmptySeq
  <2> QED
    BY <2>1
<1> QED
  BY <1>1, <1>2, <1>3 DEF GoesOn, p

\* The handshake changes nothing the link reads.
LEMMA KeptLink ==
  ASSUME NEW x, NEW z, Kept(x, z), Typed(x)
  PROVE  /\ SameLink(x, z) /\ z.retries = x.retries /\ z.retries \in Nat
         /\ z.retries <= x.retries /\ z.post = x.post
<1>1. /\ z.signaling = x.signaling /\ z.current = x.current /\ z.revision = x.revision
      /\ z.offered = x.offered /\ z.seen = x.seen /\ z.jobs = x.jobs /\ z.stage = x.stage
      /\ z.negotiating = x.negotiating /\ z.retries = x.retries /\ z.post = x.post
  BY DEF Kept, Fields, HandshakeFields
<1>2. x.retries \in Nat
  BY DEF Typed
<1> QED
  BY <1>1, <1>2 DEF SameLink

\* Only the handshake changes.
LEMMA GoesOnKept ==
  ASSUME Inv, NEW e \in Ends, Up(e), NEW z, NEW said, NEW b,
         Talk(z, said, b, end[Peer(e)], game[Peer(e)], bulk[Peer(e)]),
         Counts(z), Waits(z), Kept(end[e], z)
  PROVE  GoesOn(e, z, signals[e], said, b)
<1>1. Typed(end[e]) /\ end[e].post = <<>>
  BY DEF Inv, Living, Silent
<1>2. /\ SameLink(end[e], z) /\ z.retries \in Nat /\ z.retries <= end[e].retries
      /\ z.post = <<>>
  BY <1>1, KeptLink
<1> QED
  BY <1>2, GoesOnLinked

\* Nothing of the handshake and of the descriptions changes.
LEMMA GoesOnApart ==
  ASSUME Inv, NEW e \in Ends, Up(e), NEW z, Apart(end[e], z), SameLink(end[e], z),
         z.retries <= end[e].retries, z.post = <<>>
  PROVE  GoesOn(e, z, signals[e], game[e], bulk[e])
<1>1. /\ Talk(end[e], game[e], bulk[e], end[Peer(e)], game[Peer(e)], bulk[Peer(e)])
      /\ Counts(end[e]) /\ Waits(end[e])
  BY Present DEF GoesOn
<1>2. z.signaling = end[e].signaling /\ z.retries \in Nat
  BY DEF SameLink, Apart
<1>3. /\ Talk(z, game[e], bulk[e], end[Peer(e)], game[Peer(e)], bulk[Peer(e)])
      /\ Counts(z) /\ Waits(z)
  BY <1>1, <1>2, TalkApart
<1> QED
  BY <1>2, <1>3, GoesOnLinked

-----------------------------------------------------------------------------
(* Messages. *)

\* The next message of the game channel is delivered.
LEMMA InvReceiveControl ==
  ASSUME Inv, NEW e \in Ends, ReceiveControl(e)
  PROVE  Inv'
<1> DEFINE p == Peer(e)
           x == end[e]
           s == game[e]
           z == receive(x, Head(s))
<1>1. s # <<>> /\ x.net = "connected"
  BY DEF ReceiveControl
<1>2. Up(e)
  BY <1>1 DEF Inv, Closed
<1>3. Talk(x, s, bulk[e], end[p], game[p], bulk[p]) /\ Counts(x) /\ Waits(x)
  BY <1>2, Present DEF GoesOn
<1>4. x.open
  BY <1>1, <1>3 DEF Talk, Flags
<1>5. /\ Install(e, z, signals[e], Tail(s)) /\ troubles' = troubles
  BY DEF ReceiveControl
<1> HIDE DEF z
<1>6. /\ Talk(z, Tail(s), bulk[e], end[p], game[p], bulk[p]) /\ Kept(x, z)
      /\ Counts(z) /\ Waits(z)
  <2> HIDE DEF p, x, s
  <2> QED
    BY <1>1, <1>3, <1>4, TalkHeard DEF z
<1>7. GoesOn(e, z, signals[e], Tail(s), bulk[e])
  BY <1>2, <1>6, GoesOnKept
<1> QED
  BY <1>2, <1>5, <1>7, Reacting

\* The next message of the bulk channel is delivered; it is never one too many.
LEMMA InvReceiveBulk ==
  ASSUME Inv, NEW e \in Ends, ReceiveBulk(e)
  PROVE  Inv'
<1> DEFINE p == Peer(e)
           x == end[e]
           z == receiveData(x)
<1>1. bulk[e] > 0
  BY DEF ReceiveBulk
<1>2. Up(e)
  BY <1>1 DEF Inv, Closed
<1>3. /\ Talk(x, game[e], bulk[e], end[p], game[p], bulk[p]) /\ Counts(x) /\ Waits(x)
      /\ Silent(x)
  BY <1>2, Present DEF GoesOn
<1>4. /\ DOMAIN end = Ends /\ signals \in [Ends -> Seq(Signal)]
      /\ game \in [Ends -> Seq(Words)] /\ bulk \in [Ends -> Nat] /\ bulk[e] \in Nat
      /\ p \in Ends /\ p # e
  BY TwoPeers DEF Inv, TypeOK
<1>5. /\ end' = [end EXCEPT ![e] = z]
      /\ bulk' = [bulk EXCEPT ![e] = IF Alive(z) THEN @ - 1 ELSE 0]
      /\ signals' = [signals EXCEPT ![e] = IF Alive(z) THEN @ ELSE <<>>]
      /\ game' = [game EXCEPT ![e] = IF Alive(z) THEN @ ELSE <<>>]
      /\ troubles' = troubles
  BY DEF ReceiveBulk
<1> HIDE DEF z, x
<1>6. /\ Talk(z, game[e], bulk[e] - 1, end[p], game[p], bulk[p]) /\ Kept(x, z)
      /\ z.authenticated /\ z.missed = 0 /\ z.out = x.out /\ z.bulk = x.bulk
      /\ \A f \in Talking \ {"missed", "awaiting"} : z[f] = x[f]
  <2> HIDE DEF p
  <2> QED
    BY <1>1, <1>3, <1>4, TalkBulk DEF z
<1>7. Counts(z) /\ Waits(z)
  <2>1. /\ z.nonce = x.nonce /\ z.pendingHello = x.pendingHello
        /\ z.signaling = x.signaling /\ z.unauth = x.unauth
    BY <1>6 DEF Talking
  <2> QED
    BY <1>3, <1>6, <2>1 DEF Counts, Waits
<1>8. GoesOn(e, z, signals[e], game[e], bulk[e] - 1)
  BY <1>2, <1>6, <1>7, GoesOnKept DEF x
<1>9. HandsOver(z, z) /\ z.out = <<>> /\ z.bulk = 0 /\ z.post = <<>>
  <2>1. Typed(x)
    BY <1>3 DEF Talk
  <2>2. z.post = x.post
    BY <1>6, <2>1, KeptLink
  <2> QED
    BY <1>3, <1>6, <2>2 DEF HandsOver, Silent, Talk, Typed
<1>10. Alive(z) /\ bulk[e] - 1 \in Nat
  BY <1>1, <1>4, <1>6 DEF Talk
<1>11. /\ end'[e] = z /\ end'[p] = end[p] /\ bulk'[e] = bulk[e] - 1 /\ bulk'[p] = bulk[p]
       /\ signals' = signals /\ game' = game
  BY <1>4, <1>5, <1>10
<1>12. Typing
  <2>1. bulk' \in [Ends -> Nat]
    BY <1>4, <1>5, <1>10
  <2>2. DOMAIN end' = Ends
    BY <1>4, <1>5
  <2> QED
    BY <1>4, <1>11, <2>1, <2>2 DEF Typing
<1>13. /\ signals[p] \o z.post = signals[p] /\ game[p] \o z.out = game[p]
       /\ bulk[p] + z.bulk = bulk[p]
  <2>1. signals[p] \o <<>> = signals[p] /\ game[p] \o <<>> = game[p] /\ bulk[p] + 0 = bulk[p]
    BY <1>4, ConcatEmptySeq
  <2> QED
    BY <1>9, <2>1
<1>14. IF Up(p)
       THEN /\ signals'[p] = signals[p] \o z.post /\ game'[p] = game[p] \o z.out
            /\ bulk'[p] = bulk[p] + z.bulk
       ELSE /\ signals'[p] = signals[p] /\ game'[p] = game[p] /\ bulk'[p] = bulk[p]
  BY <1>11, <1>13
<1>15. /\ HandsOver(z, end'[e]) /\ end'[p] = end[p]
       /\ signals'[e] = signals[e] /\ game'[e] = game[e] /\ troubles' = troubles
  BY <1>5, <1>9, <1>11
<1> HIDE DEF p
<1> QED
  BY <1>2, <1>8, <1>10, <1>11, <1>12, <1>14, <1>15, LivesOn, Zenon DEF p

\* An end counts that it heard nothing, or waits for an answer.
Waiting(x, n) == [x EXCEPT !.missed = n, !.awaiting = TRUE]

\* To wait for an answer disturbs nothing, if misses are counted of a dead peer only.
LEMMA TalkWaiting ==
  ASSUME NEW x, NEW s, NEW b, NEW y, NEW t, NEW c, NEW n \in Nat,
         Talk(x, s, b, y, t, c), n > 0 => ~Alive(y)
  PROVE  LET z == Waiting(x, n) IN
         /\ Talk(z, s, b, y, t, c) /\ Kept(x, z) /\ z.missed = n
         /\ \A f \in Talking \ {"missed", "awaiting"} : z[f] = x[f]
<1> DEFINE z == Waiting(x, n)
<1>1. DOMAIN x = Fields /\ Alive(x) /\ Typed(x) /\ Flags(x)
  BY DEF Talk, Typed, Shape
<1>2. /\ Shape(z) /\ z.missed = n /\ z.awaiting = TRUE
      /\ \A f \in Fields \ {"missed", "awaiting"} : z[f] = x[f]
  BY <1>1 DEF Fields, Shape, Waiting
<1> HIDE DEF z
<1>3. /\ z.initSent = x.initSent /\ z.helloSent = x.helloSent /\ z.nonce = x.nonce
      /\ z.helloVerified = x.helloVerified /\ z.pendingHello = x.pendingHello
      /\ z.authenticated = x.authenticated /\ z.ready = x.ready
      /\ z.net = x.net /\ z.open = x.open /\ z.down = x.down /\ z.current = x.current
      /\ z.out = x.out /\ z.bulk = x.bulk /\ z.queued = x.queued /\ z.unauth = x.unauth
  BY <1>2 DEF Fields
<1>4. Channel(z, y, s, b)
  <2>1. Channel(x, y, s, b) /\ (Heard(z) <=> Heard(x))
    BY <1>3 DEF Talk, Heard
  <2> QED
    BY <2>1, <1>2, <1>3 DEF Channel
<1>5. Kept(x, z) /\ \A f \in Talking \ {"missed", "awaiting"} : z[f] = x[f]
  BY <1>2 DEF Kept, HandshakeFields, Talking, Fields
<1>6. Typed(z)
  <2>1. z.queued \in Nat /\ z.unauth \in Nat /\ z.missed \in Nat
    BY <1>1, <1>2, <1>3 DEF Typed
  <2>2. \A f \in {"initSent", "nonce", "helloSent", "helloVerified", "pendingHello",
                 "authenticated", "ready", "awaiting"} : z[f] \in BOOLEAN
    BY <1>1, <1>2, <1>3 DEF Typed
  <2> QED
    BY <1>1, <1>2, <1>5, <2>1, <2>2, TypedIs
<1>7. Flags(z) /\ Alive(z)
  BY <1>1, <1>3 DEF Flags, Alive
<1>8. Alive(y) => Flags(y) /\ Channel(y, z, t \o z.out, c + z.bulk)
  <2>1. SameMouth(x, z) /\ SameEar(y, y)
    BY <1>3 DEF SameMouth, SameEar
  <2> QED
    BY <2>1, <1>3, ChannelFrame DEF Talk
<1>9. Talk(z, s, b, y, t, c)
  BY <1>3, <1>4, <1>6, <1>7, <1>8 DEF Talk
<1> QED
  BY <1>2, <1>5, <1>9 DEF z

\* A ping is sent, or the third missing answer closes the link: the peer is gone.
LEMMA InvPing ==
  ASSUME Inv, NEW e \in Ends, Ping(e)
  PROVE  Inv'
<1> DEFINE p == Peer(e)
           x == end[e]
           late == x.awaiting /\ x.net = "connected"
           n == IF late THEN x.missed + 1 ELSE x.missed
           z == ping(x)
<1>1. /\ Up(e) /\ x.authenticated
      /\ late => ~Up(p)
      /\ Install(e, z, signals[e], game[e]) /\ troubles' = troubles
  BY DEF Ping, Answerable, Reacts
<1>2. /\ Talk(x, game[e], bulk[e], end[p], game[p], bulk[p]) /\ Counts(x) /\ Waits(x)
      /\ GoesOn(e, x, signals[e], game[e], bulk[e])
  BY <1>1, Present DEF GoesOn
<1>3. /\ DOMAIN x = Fields /\ Shape(x) /\ Alive(x) /\ x.missed \in Nat /\ x.missed < 3
      /\ x.missed > 0 => ~Alive(end[p])
  BY <1>2 DEF Talk, Typed, Shape, Counts, Channel
<1>4. n \in Nat /\ (n > 0 => ~Alive(end[p]))
  BY <1>1, <1>3 DEF Up
<1> HIDE DEF p, x
<1>5. CASE x.net = "disconnected" /\ ~x.grace
  <2>1. z = fail(x, "disconnected-timeout")
    BY <1>3, <1>5 DEF ping
  <2>2. "disconnected-timeout" \in Reasons /\ "disconnected-timeout" # "ping-timeout"
    BY DEF Reasons
  <2> HIDE DEF z
  <2> QED
    BY <1>1, <2>1, <2>2, Closing DEF x
<1>6. CASE x.net = "connected" /\ n >= 3
  <2>1. late
    BY <1>3, <1>6
  <2>2. z = fail([x EXCEPT !.missed = @ + 1], "ping-timeout")
    BY <1>3, <1>6, <2>1 DEF ping, Fields
  <2>3. fail([x EXCEPT !.missed = @ + 1], "ping-timeout") = fail(x, "ping-timeout")
    <3> DEFINE u == [x EXCEPT !.missed = @ + 1]
    <3>1. u.down = x.down /\ u.out = x.out /\ u.bulk = x.bulk /\ u.post = x.post
      BY <1>3 DEF Fields
    <3> HIDE DEF u
    <3>2. fail(u, "ping-timeout") = fail(x, "ping-timeout")
      BY <1>3, <3>1 DEF fail, Alive
    <3> QED
      BY <3>2 DEF u
  <2>4. z = fail(x, "ping-timeout") /\ "ping-timeout" \in Reasons /\ ~Up(p)
    BY <1>1, <2>1, <2>2, <2>3 DEF Reasons
  <2> HIDE DEF z
  <2> QED
    BY <1>1, <2>4, Closing DEF x, p
<1>7. CASE x.net = "connected" /\ ~(n >= 3)
  <2>1. z = Says(Waiting(x, n), "PING")
    <3>1. CASE late
      <4>1. [x EXCEPT !.missed = @ + 1].missed = x.missed + 1
        BY <1>3 DEF Fields
      <4>2. ping(x) = [[x EXCEPT !.missed = @ + 1] EXCEPT
                         !.awaiting = TRUE, !.out = Append(@, "PING")]
        BY <1>3, <1>7, <3>1, <4>1 DEF ping
      <4>3. @ = [x EXCEPT !.missed = x.missed + 1, !.awaiting = TRUE,
                         !.out = Append(x.out, "PING")]
        BY <1>3 DEF Fields
      <4>4. Says(Waiting(x, n), "PING")
              = [x EXCEPT !.missed = x.missed + 1, !.awaiting = TRUE,
                          !.out = Append(x.out, "PING")]
        BY <1>3, <3>1 DEF Says, Waiting, Fields
      <4> QED
        BY <4>2, <4>3, <4>4
    <3>2. CASE ~late
      <4>1. ping(x) = [x EXCEPT !.awaiting = TRUE, !.out = Append(@, "PING")]
        BY <1>3, <1>7, <3>2 DEF ping
      <4>2. Waiting(x, n) = [x EXCEPT !.awaiting = TRUE]
        BY <1>3, <3>2 DEF Waiting, Shape, Fields
      <4>3. Says(Waiting(x, n), "PING") =
              [x EXCEPT !.awaiting = TRUE, !.out = Append(@, "PING")]
        BY <1>3, <4>2 DEF Says, Fields
      <4> QED
        BY <4>1, <4>3
    <3> QED
      BY <3>1, <3>2
  <2> HIDE DEF z
  <2>2. n < 3
    BY <1>4, <1>7
  <2> HIDE DEF n
  <2> DEFINE u == Waiting(x, n)
  <2>3. /\ Talk(u, game[e], bulk[e], end[p], game[p], bulk[p]) /\ Kept(x, u) /\ u.missed = n
        /\ \A f \in Talking \ {"missed", "awaiting"} : u[f] = x[f]
    <3>1. n \in Nat /\ (n > 0 => ~Alive(end[p]))
      BY <1>4
    <3>2. Talk(x, game[e], bulk[e], end[p], game[p], bulk[p])
      BY <1>2
    <3> QED
      BY <3>1, <3>2, TalkWaiting
  <2> HIDE DEF u
  <2>4. /\ u.authenticated = x.authenticated /\ u.nonce = x.nonce
        /\ u.pendingHello = x.pendingHello /\ u.signaling = x.signaling
        /\ u.unauth = x.unauth
    BY <2>3 DEF Talking
  <2>5. "PING" \in Words \ Greetings
    BY DEF Words, Greetings
  <2>6. /\ Talk(z, game[e], bulk[e], end[p], game[p], bulk[p]) /\ Kept(u, z)
        /\ \A f \in Fields \ {"out"} : z[f] = u[f]
    <3>1. u.authenticated
      BY <1>1, <2>4 DEF x
    <3>2. z = Says(u, "PING")
      BY <2>1 DEF u
    <3> QED
      BY <2>3, <2>5, <3>1, <3>2, TalkSays
  <2>7. Counts(z) /\ Waits(z)
    <3>1. /\ z.nonce = u.nonce /\ z.unauth = u.unauth /\ z.authenticated = u.authenticated
          /\ z.pendingHello = u.pendingHello /\ z.missed = u.missed
          /\ z.signaling = u.signaling
      BY <2>6 DEF Fields
    <3> QED
      BY <3>1, <1>2, <2>2, <2>3, <2>4 DEF Counts, Waits
  <2>8. Kept(x, z)
    BY <2>3, <2>6, KeptIsOrder
  <2>9. GoesOn(e, z, signals[e], game[e], bulk[e])
    BY <1>1, <2>6, <2>7, <2>8, GoesOnKept DEF x, p
  <2> QED
    BY <1>1, <2>9, Reacting
<1>8. CASE x.net # "connected" /\ ~(x.net = "disconnected" /\ ~x.grace)
  <2>1. z = x
    BY <1>3, <1>8 DEF ping
  <2> HIDE DEF z
  <2> QED
    BY <1>1, <1>2, <2>1, Reacting
<1> QED
  BY <1>5, <1>6, <1>7, <1>8

-----------------------------------------------------------------------------
(* Signals, and the queue of descriptions. *)

\* An end that changes outside the handshake and then posts keeps the invariant.
LEMMA ApartReacts ==
  ASSUME Inv, NEW e \in Ends, Up(e), NEW z, Apart(end[e], z), z.signaling = end[e].signaling,
         NEW ours \in Seq(Signal), z.post \in Seq(Signal),
         Link(e, z, ours, Peer(e), end[Peer(e)], signals[Peer(e)] \o z.post, Lossless),
         Install(e, z, ours, game[e]), troubles' = troubles
  PROVE  Inv'
<1>1. /\ Talk(end[e], game[e], bulk[e], end[Peer(e)], game[Peer(e)], bulk[Peer(e)])
      /\ Counts(end[e]) /\ Waits(end[e])
  BY Present DEF GoesOn
<1>2. /\ Talk(z, game[e], bulk[e], end[Peer(e)], game[Peer(e)], bulk[Peer(e)])
      /\ Counts(z) /\ Waits(z)
  BY <1>1, TalkApart
<1>3. GoesOn(e, z, ours, game[e], bulk[e])
  BY <1>2 DEF GoesOn
<1> QED
  BY <1>3, Reacting

\* What a change of some fields of an end leaves alone.
LEMMA ApartIs ==
  ASSUME NEW x, NEW z, Typed(x), Shape(z), z.gather \in Nat, z.negotiating \in BOOLEAN,
         z.jobs \in Seq(Signal), z.revision \in Nat,
         \A f \in Fields \ {"needed", "restart", "carries", "grace", "gather", "heard",
                            "ignored", "early", "negotiating", "jobs", "revision",
                            "stage", "post"} : z[f] = x[f],
         Flags(x)
  PROVE  /\ Apart(x, z) /\ z.signaling = x.signaling /\ z.current = x.current
         /\ z.offered = x.offered /\ z.seen = x.seen /\ z.retries = x.retries
<1>1. /\ z.signaling = x.signaling /\ z.current = x.current /\ z.offered = x.offered
      /\ z.seen = x.seen /\ z.retries = x.retries
  BY DEF Fields
<1>2. \A f \in (HandshakeFields \ {"needed"}) \cup {"net", "open", "down"} : z[f] = x[f]
  BY DEF Fields, HandshakeFields
<1>3. x.offered \in Nat /\ x.seen \in Nat /\ x.retries \in Nat
  BY DEF Typed
<1>4. x.open => z.current # NoSession
  BY <1>1 DEF Flags
<1> QED
  BY <1>1, <1>2, <1>3, <1>4 DEF Apart

\* The types of an end that acts, and of what is on its way.
LEMMA PresentTyped ==
  ASSUME Inv, NEW e \in Ends, Up(e)
  PROVE  LET x == end[e] IN
         /\ Typed(x) /\ Flags(x) /\ DOMAIN x = Fields /\ Shape(x) /\ Alive(x)
         /\ x.jobs \in Seq(Signal) /\ x.out = <<>> /\ x.bulk = 0 /\ x.post = <<>>
         /\ signals[e] \in Seq(Signal) /\ signals[Peer(e)] \in Seq(Signal)
         /\ signals[Peer(e)] \o <<>> = signals[Peer(e)]
         /\ Peer(e) \in Ends
<1>1. LET x == end[e] IN Talk(x, game[e], bulk[e], end[Peer(e)], game[Peer(e)], bulk[Peer(e)])
                         /\ Silent(x)
  BY Present DEF GoesOn
<1>2. signals[e] \in Seq(Signal) /\ signals[Peer(e)] \in Seq(Signal) /\ Peer(e) \in Ends
  BY TwoPeers DEF Inv, TypeOK
<1>3. signals[Peer(e)] \o <<>> = signals[Peer(e)]
  BY <1>2, ConcatEmptySeq
<1> QED
  BY <1>1, <1>2, <1>3 DEF Talk, Typed, Shape, Silent

\* The queue has room: the limit on descriptions is never reached.
LEMMA RoomInQueue ==
  ASSUME Inv, NEW e \in Ends, Up(e)
  PROVE  ~(Len(end[e].jobs) >= MaxPending)
<1>1. Typed(end[e]) /\ Own(e, end[e], signals[e]) /\ signals[e] \in Seq(Signal)
  BY DEF Inv, Living, TypeOK
<1>2. Len(end[e].jobs) <= OfferRetries + 6 /\ Len(end[e].jobs) \in Nat
  <2>1. Len(end[e].jobs) <= OfferRetries + 6
    BY <1>1, QueueIsShort
  <2>2. end[e].jobs \in Seq(Signal)
    BY <1>1 DEF Typed
  <2> QED
    BY <2>1, <2>2
<1> QED
  BY <1>2, Limits

\* A signal arrives: a description finds room in the queue, a candidate is applied or
\* kept.
LEMMA InvReceiveSignal ==
  ASSUME Inv, NEW e \in Ends, ReceiveSignal(e)
  PROVE  Inv'
<1> DEFINE p == Peer(e)
           x == end[e]
           s == signals[e]
           m == Head(s)
           z == IF IsDescription(m) THEN enqueueDescription(x, m)
                ELSE receiveCandidate(x, m)
<1>1. s # <<>> /\ Install(e, z, Tail(s), game[e]) /\ troubles' = troubles
  BY DEF ReceiveSignal
<1>2. Up(e)
  BY <1>1 DEF Inv, Closed
<1>3. /\ Typed(x) /\ Flags(x) /\ DOMAIN x = Fields /\ Shape(x) /\ Alive(x)
      /\ x.jobs \in Seq(Signal) /\ x.post = <<>> /\ s \in Seq(Signal)
      /\ signals[p] \o <<>> = signals[p]
  BY <1>2, PresentTyped
<1>4. /\ Context(e, x, s, p, end[p], signals[p])
      /\ Link(e, x, s, p, end[p], signals[p], Lossless)
  BY <1>2, Present DEF Here
<1>5. ~(Len(x.jobs) >= MaxPending)
  BY <1>2, RoomInQueue
<1>6. m \in Signal /\ Tail(s) \in Seq(Signal)
  BY <1>1, <1>3, TailIndex
<1>7. <<>> \in Seq(Signal)
  OBVIOUS
<1>8. SUFFICES /\ Apart(x, z) /\ z.signaling = x.signaling /\ z.post = <<>>
               /\ Link(e, z, Tail(s), p, end[p], signals[p], Lossless)
  <2> HIDE DEF z, s
  <2> QED
    BY <1>1, <1>2, <1>3, <1>6, <1>7, <1>8, ApartReacts
<1> HIDE DEF p, x, s, m
<1>9. CASE IsDescription(m)
  <2>1. z = [x EXCEPT !.jobs = Append(@, m)]
    BY <1>3, <1>5, <1>9 DEF enqueueDescription
  <2> HIDE DEF z
  <2>2. /\ Shape(z) /\ z.jobs = Append(x.jobs, m)
        /\ \A f \in Fields \ {"jobs"} : z[f] = x[f]
    BY <1>3, <2>1 DEF Fields, Shape
  <2>3. Append(x.jobs, m) \in Seq(Signal) /\ x.gather \in Nat /\ x.negotiating \in BOOLEAN
        /\ x.revision \in Nat
    BY <1>3, <1>6, AppendProperties DEF Typed
  <2>4. /\ z.gather = x.gather /\ z.negotiating = x.negotiating /\ z.revision = x.revision
        /\ z.stage = x.stage /\ z.post = x.post
    BY <2>2 DEF Fields
  <2>5. /\ Apart(x, z) /\ z.signaling = x.signaling /\ z.current = x.current
        /\ z.offered = x.offered /\ z.seen = x.seen /\ z.retries = x.retries
    BY <1>3, <2>2, <2>3, <2>4, ApartIs
  <2>6. Link(e, z, Tail(s), p, end[p], signals[p], Lossless)
    BY <1>1, <1>4, <1>9, <2>2, <2>4, <2>5, LinkQueued DEF m
  <2> QED
    BY <1>3, <2>4, <2>5, <2>6
<1>10. CASE ~IsDescription(m)
  <2>1. /\ Shape(z) /\ \A f \in Fields \ {"heard", "early"} : z[f] = x[f]
    <3>1. z = receiveCandidate(x, m)
      BY <1>10
    <3>2. \/ z = x \/ z = addCandidates(x, {m}) \/ z = [x EXCEPT !.early = @ \cup {m}]
      BY <3>1 DEF receiveCandidate
    <3>3. CASE z = x
      BY <1>3, <3>3
    <3>4. CASE z = addCandidates(x, {m})
      <4>1. z = x \/ z = [x EXCEPT !.heard = TRUE]
        BY <3>4 DEF addCandidates
      <4> HIDE DEF z
      <4> QED
        BY <1>3, <4>1 DEF Shape, Fields
    <3>5. CASE z = [x EXCEPT !.early = @ \cup {m}]
      <4> HIDE DEF z
      <4> QED
        BY <1>3, <3>5 DEF Shape, Fields
    <3> HIDE DEF z
    <3> QED
      BY <3>2, <3>3, <3>4, <3>5
  <2> HIDE DEF z
  <2>2. /\ z.gather = x.gather /\ z.negotiating = x.negotiating /\ z.revision = x.revision
        /\ z.stage = x.stage /\ z.post = x.post /\ z.jobs = x.jobs
    BY <2>1 DEF Fields
  <2>3. x.gather \in Nat /\ x.negotiating \in BOOLEAN /\ x.revision \in Nat
    BY <1>3 DEF Typed
  <2>4. /\ Apart(x, z) /\ z.signaling = x.signaling /\ z.current = x.current
        /\ z.offered = x.offered /\ z.seen = x.seen /\ z.retries = x.retries
    BY <1>3, <2>1, <2>2, <2>3, ApartIs
  <2>5. Link(e, z, Tail(s), p, end[p], signals[p], Lossless)
    BY <1>1, <1>4, <1>10, <2>2, <2>4, LinkCandidate DEF m, SameLink
  <2> QED
    BY <1>3, <2>2, <2>4, <2>5
<1> QED
  BY <1>9, <1>10

\* The browser asks for a negotiation: the only one in the queue.
LEMMA InvNegotiationNeeded ==
  ASSUME Inv, NEW e \in Ends, NegotiationNeeded(e)
  PROVE  Inv'
<1> DEFINE p == Peer(e)
           x == end[e]
           s == signals[e]
           v == [x EXCEPT !.needed = FALSE]
           u == [v EXCEPT !.negotiating = TRUE]
           z == IF v.negotiating \/ (e # origin /\ ~v.authenticated) THEN v
                ELSE enqueueDescription(u, NegotiateJob)
<1>1. Up(e) /\ Install(e, z, s, game[e]) /\ troubles' = troubles
  BY DEF NegotiationNeeded, Reacts
<1>2. /\ Typed(x) /\ Flags(x) /\ DOMAIN x = Fields /\ Shape(x) /\ Alive(x)
      /\ x.jobs \in Seq(Signal) /\ x.post = <<>> /\ s \in Seq(Signal)
      /\ signals[p] \o <<>> = signals[p]
  BY <1>1, PresentTyped
<1>3. /\ Context(e, x, s, p, end[p], signals[p])
      /\ Link(e, x, s, p, end[p], signals[p], Lossless)
  BY <1>1, Present DEF Here
<1>4. ~(Len(x.jobs) >= MaxPending)
  BY <1>1, RoomInQueue
<1>5. <<>> \in Seq(Signal)
  OBVIOUS
<1>6. SUFFICES /\ Apart(x, z) /\ z.signaling = x.signaling /\ z.post = <<>>
               /\ Link(e, z, s, p, end[p], signals[p], Lossless)
  <2> HIDE DEF z, s
  <2> QED
    BY <1>1, <1>2, <1>5, <1>6, ApartReacts
<1> HIDE DEF p, x, s
<1>7. x.gather \in Nat /\ x.negotiating \in BOOLEAN /\ x.revision \in Nat
      /\ x.retries \in Nat
  BY <1>2 DEF Typed
<1>8. v.negotiating = x.negotiating /\ v.authenticated = x.authenticated
  BY <1>2 DEF Fields
<1>9. CASE z = v
  <2>1. Shape(v) /\ \A f \in Fields \ {"needed"} : v[f] = x[f]
    BY <1>2 DEF Shape, Fields
  <2> HIDE DEF v, z
  <2>2. /\ v.gather = x.gather /\ v.negotiating = x.negotiating /\ v.revision = x.revision
        /\ v.stage = x.stage /\ v.post = x.post /\ v.jobs = x.jobs
    BY <2>1 DEF Fields
  <2>3. /\ Apart(x, v) /\ v.signaling = x.signaling /\ v.current = x.current
        /\ v.offered = x.offered /\ v.seen = x.seen /\ v.retries = x.retries
    BY <1>2, <1>7, <2>1, <2>2, ApartIs
  <2>4. SameLink(x, v) /\ v.retries \in Nat /\ v.retries <= x.retries
    BY <1>7, <2>2, <2>3 DEF SameLink
  <2>5. Link(e, v, s, p, end[p], signals[p], Lossless)
    BY <1>3, <2>4, LinkFrame
  <2> QED
    BY <1>2, <1>9, <2>2, <2>3, <2>5
<1>10. CASE z # v
  <2>1. ~x.negotiating /\ z = enqueueDescription(u, NegotiateJob)
    BY <1>8, <1>10
  <2>2. /\ Shape(u) /\ DOMAIN u = Fields /\ u.negotiating = TRUE
        /\ \A f \in Fields \ {"needed", "negotiating"} : u[f] = x[f]
    BY <1>2 DEF Shape, Fields
  <2> HIDE DEF u, v, z
  <2>3. u.down = x.down /\ u.jobs = x.jobs
    BY <2>2 DEF Fields
  <2>4. z = [u EXCEPT !.jobs = Append(@, NegotiateJob)]
    BY <1>2, <1>4, <2>1, <2>3 DEF enqueueDescription, Alive
  <2>5. /\ Shape(z) /\ z.jobs = Append(x.jobs, NegotiateJob) /\ z.negotiating = TRUE
        /\ \A f \in Fields \ {"needed", "negotiating", "jobs"} : z[f] = x[f]
    <3>1. Shape(z) /\ z.jobs = Append(u.jobs, NegotiateJob)
          /\ \A f \in Fields \ {"jobs"} : z[f] = u[f]
      BY <2>2, <2>4 DEF Shape, Fields
    <3>2. z.negotiating = u.negotiating
      BY <3>1 DEF Fields
    <3> QED
      BY <2>2, <2>3, <3>1, <3>2
  <2>6. NegotiateJob \in Signal
    BY DEF NegotiateJob, Description, Signal, Kinds
  <2>7. z.jobs \in Seq(Signal) /\ z.negotiating \in BOOLEAN
    BY <1>2, <2>5, <2>6, AppendProperties
  <2>8. /\ z.gather = x.gather /\ z.revision = x.revision /\ z.stage = x.stage
        /\ z.post = x.post
    BY <2>5 DEF Fields
  <2>9. /\ Apart(x, z) /\ z.signaling = x.signaling /\ z.current = x.current
        /\ z.offered = x.offered /\ z.seen = x.seen /\ z.retries = x.retries
    BY <1>2, <1>7, <2>5, <2>7, <2>8, ApartIs
  <2>10. Link(e, z, s, p, end[p], signals[p], Lossless)
    <3>1. z.negotiating
      BY <2>5
    <3> QED
      BY <1>3, <2>1, <2>5, <2>8, <2>9, <3>1, LinkNegotiate
  <2> QED
    BY <1>2, <2>8, <2>9, <2>10
<1> QED
  BY <1>9, <1>10

\* A candidate is gathered and posted.
LEMMA InvIceCandidate ==
  ASSUME Inv, NEW e \in Ends, IceCandidate(e)
  PROVE  Inv'
<1> DEFINE p == Peer(e)
           x == end[e]
           s == signals[e]
           m == Candidate(x.revision, x.gather)
           z == [x EXCEPT !.gather = 0, !.post = <<m>>]
<1>1. Up(e) /\ Install(e, z, s, game[e]) /\ troubles' = troubles
  BY DEF IceCandidate, Reacts
<1>2. /\ Typed(x) /\ Flags(x) /\ DOMAIN x = Fields /\ Shape(x) /\ s \in Seq(Signal)
  BY <1>1, PresentTyped
<1>3. /\ Context(e, x, s, p, end[p], signals[p])
      /\ Link(e, x, s, p, end[p], signals[p], Lossless)
  BY <1>1, Present DEF Here
<1>4. x.gather \in Nat /\ x.negotiating \in BOOLEAN /\ x.revision \in Nat
      /\ x.jobs \in Seq(Signal)
  BY <1>2 DEF Typed
<1>5. m \in Signal /\ ~IsDescription(m) /\ <<m>> \in Seq(Signal)
  BY <1>4 DEF Candidate, Signal, Kinds, IsDescription
<1>6. /\ Shape(z) /\ z.gather = 0 /\ z.post = <<m>>
      /\ \A f \in Fields \ {"gather", "post"} : z[f] = x[f]
  BY <1>2 DEF Shape, Fields
<1> HIDE DEF p, x, s, m, z
<1>7. /\ z.jobs = x.jobs /\ z.revision = x.revision /\ z.stage = x.stage
      /\ z.negotiating = x.negotiating
  BY <1>6 DEF Fields
<1>71. z.gather \in Nat /\ z.negotiating \in BOOLEAN /\ z.jobs \in Seq(Signal)
       /\ z.revision \in Nat
  BY <1>4, <1>6, <1>7
<1>8. /\ Apart(x, z) /\ z.signaling = x.signaling /\ z.current = x.current
      /\ z.offered = x.offered /\ z.seen = x.seen /\ z.retries = x.retries
  BY <1>2, <1>6, <1>71, ApartIs
<1>9. SameLink(x, z)
  BY <1>7, <1>8 DEF SameLink
<1>10. Link(e, z, s, p, end[p], signals[p] \o <<m>>, Lossless)
  BY <1>3, <1>5, <1>8, <1>9, LinkPosted
<1> QED
  BY <1>1, <1>2, <1>5, <1>6, <1>8, <1>10, ApartReacts DEF p, x, s

\* The first offer is sent again.
LEMMA InvRetryOffer ==
  ASSUME Inv, NEW e \in Ends, RetryOffer(e)
  PROVE  Inv'
<1> DEFINE p == Peer(e)
           x == end[e]
           s == signals[e]
           r == Restarts(x)
           m == Description("offer", 1, r)
           z == IF awaitingInitialAnswer(x)
                THEN [x EXCEPT !.retries = @ - 1, !.post = <<m>>]
                ELSE [x EXCEPT !.retries = 0]
<1>1. Up(e) /\ x.retries > 0 /\ Install(e, z, s, game[e]) /\ troubles' = troubles
  BY DEF RetryOffer, Reacts
<1>2. /\ Typed(x) /\ Flags(x) /\ DOMAIN x = Fields /\ Shape(x) /\ s \in Seq(Signal)
      /\ x.post = <<>> /\ signals[p] \o <<>> = signals[p]
  BY <1>1, PresentTyped
<1>3. /\ Context(e, x, s, p, end[p], signals[p])
      /\ Link(e, x, s, p, end[p], signals[p], Lossless)
  BY <1>1, Present DEF Here
<1>4. /\ x.gather \in Nat /\ x.negotiating \in BOOLEAN /\ x.revision \in Nat
      /\ x.jobs \in Seq(Signal) /\ x.offered \in Nat /\ x.seen \in Nat /\ x.retries \in Nat
  BY <1>2 DEF Typed
<1>5. r \in Nat /\ m \in Signal /\ <<m>> \in Seq(Signal) /\ <<>> \in Seq(Signal)
  BY DEF Restarts, Description, Signal, Kinds
<1>6. /\ Shape(z) /\ z.retries \in Nat /\ z.retries < x.retries
      /\ \A f \in Fields \ {"retries", "post"} : z[f] = x[f]
  <2>1. CASE awaitingInitialAnswer(x)
    <3>1. z = [x EXCEPT !.retries = x.retries - 1, !.post = <<m>>]
      BY <2>1
    <3>2. x.retries - 1 \in Nat /\ x.retries - 1 < x.retries
      BY <1>1, <1>4
    <3> HIDE DEF z
    <3> QED
      BY <1>2, <3>1, <3>2 DEF Shape, Fields
  <2>2. CASE ~awaitingInitialAnswer(x)
    <3>1. z = [x EXCEPT !.retries = 0]
      BY <2>2
    <3> HIDE DEF z
    <3> QED
      BY <1>1, <1>2, <1>4, <3>1 DEF Shape, Fields
  <2> QED
    BY <2>1, <2>2
<1>7. IF awaitingInitialAnswer(x) THEN z.retries = x.retries - 1 /\ z.post = <<m>>
      ELSE z.retries = 0 /\ z.post = x.post
  BY <1>2 DEF Fields
<1> HIDE DEF p, x, s, m, z, r
<1>8. /\ z.jobs = x.jobs /\ z.revision = x.revision /\ z.stage = x.stage
      /\ z.negotiating = x.negotiating /\ z.signaling = x.signaling
      /\ z.current = x.current /\ z.offered = x.offered /\ z.seen = x.seen
      /\ z.gather = x.gather
  BY <1>6 DEF Fields
<1>9. Apart(x, z) /\ SameLink(x, z)
  <2>1. \A f \in (HandshakeFields \ {"needed"}) \cup {"net", "open", "down"} : z[f] = x[f]
    BY <1>6 DEF Fields, HandshakeFields
  <2>2. x.open => z.current # NoSession
    BY <1>2, <1>8 DEF Flags
  <2> QED
    BY <1>4, <1>6, <1>8, <2>1, <2>2 DEF Apart, SameLink
<1>10. CASE awaitingInitialAnswer(x)
  <2>1. x.offered = 1 /\ x.revision = 1 /\ z.retries = x.retries - 1 /\ z.post = <<m>>
    BY <1>7, <1>10 DEF awaitingInitialAnswer
  <2>2. m = Description("offer", 1, r)
    BY DEF m
  <2>3. x.retries > 0
    BY <1>1
  <2>4. Link(e, z, s, p, end[p], signals[p] \o <<m>>, Lossless)
    BY <1>3, <1>5, <1>9, <2>1, <2>2, <2>3, LinkRetry
  <2> QED
    BY <1>1, <1>2, <1>5, <1>8, <1>9, <2>1, <2>4, ApartReacts DEF p, x, s
<1>11. CASE ~awaitingInitialAnswer(x)
  <2>1. z.post = <<>> /\ z.retries <= x.retries
    BY <1>2, <1>4, <1>6, <1>7, <1>11
  <2>2. Link(e, z, s, p, end[p], signals[p], Lossless)
    BY <1>3, <1>6, <1>9, <2>1, LinkFrame
  <2>3. Link(e, z, s, p, end[p], signals[p] \o z.post, Lossless) /\ z.post \in Seq(Signal)
    BY <1>2, <1>5, <2>1, <2>2
  <2> QED
    BY <1>1, <1>2, <1>8, <1>9, <2>3, ApartReacts DEF p, x, s
<1> QED
  BY <1>10, <1>11

\* The grace of a broken connection ends, with an ICE restart.
LEMMA InvGraceEnds ==
  ASSUME Inv, NEW e \in Ends, GraceEnds(e)
  PROVE  Inv'
<1> DEFINE x == end[e]
           z == [x EXCEPT !.grace = FALSE, !.restart = TRUE,
                          !.needed = x.signaling = "stable"]
<1>1. Up(e) /\ Install(e, z, signals[e], game[e]) /\ troubles' = troubles
  BY DEF GraceEnds, Reacts
<1>2. /\ Typed(x) /\ Flags(x) /\ DOMAIN x = Fields /\ Shape(x) /\ x.post = <<>>
  BY <1>1, PresentTyped
<1>3. /\ Shape(z) /\ \A f \in Fields \ {"grace", "restart", "needed"} : z[f] = x[f]
  BY <1>2 DEF Shape, Fields
<1> HIDE DEF z, x
<1>4. /\ z.jobs = x.jobs /\ z.revision = x.revision /\ z.stage = x.stage
      /\ z.negotiating = x.negotiating /\ z.gather = x.gather /\ z.post = x.post
  BY <1>3 DEF Fields
<1>5. /\ x.gather \in Nat /\ x.negotiating \in BOOLEAN /\ x.revision \in Nat
      /\ x.jobs \in Seq(Signal) /\ x.retries \in Nat
  BY <1>2 DEF Typed
<1>6. /\ Apart(x, z) /\ z.signaling = x.signaling /\ z.current = x.current
      /\ z.offered = x.offered /\ z.seen = x.seen /\ z.retries = x.retries
  BY <1>2, <1>3, <1>4, <1>5, ApartIs
<1>7. SameLink(x, z) /\ z.retries <= x.retries /\ z.post = <<>>
  BY <1>2, <1>4, <1>5, <1>6 DEF SameLink
<1>8. GoesOn(e, z, signals[e], game[e], bulk[e])
  BY <1>1, <1>6, <1>7, GoesOnApart DEF x
<1> QED
  BY <1>1, <1>8, Reacting

\* The channels open at both ends: both have descriptions in force.
LEMMA InvOpenChannels ==
  ASSUME Inv, NEW e \in Ends, OpenChannels(e)
  PROVE  Inv'
<1> DEFINE p == Peer(e)
           x == end[e]
           z == channelOpened([x EXCEPT !.net = "connected", !.open = TRUE])
<1>1. /\ Up(e) /\ x.current # NoSession
      /\ Install(e, z, signals[e], game[e]) /\ troubles' = troubles
  BY DEF OpenChannels, Connected, Reacts
<1>2. /\ Talk(x, game[e], bulk[e], end[p], game[p], bulk[p]) /\ Counts(x) /\ Waits(x)
      /\ Silent(x)
  BY <1>1, Present DEF GoesOn
<1>3. Typed(x) /\ x.post = <<>>
  BY <1>2 DEF Talk, Silent
<1>4. ~x.pendingHello \/ x.signaling # "stable"
  BY <1>2 DEF Waits
<1> HIDE DEF z, x, p
<1>5. /\ Talk(z, game[e], bulk[e], end[p], game[p], bulk[p])
      /\ \A f \in Fields \ (HandshakeFields \cup {"net", "open"}) : z[f] = x[f]
      /\ \A f \in Talking \ {"net", "open", "initSent", "helloSent"} : z[f] = x[f]
  BY <1>1, <1>2, <1>4, TalkOpened DEF z, x
<1>6. /\ z.nonce = x.nonce /\ z.unauth = x.unauth /\ z.missed = x.missed
      /\ z.authenticated = x.authenticated /\ z.pendingHello = x.pendingHello
      /\ z.signaling = x.signaling
  BY <1>5 DEF Talking
<1>7. Counts(z) /\ Waits(z)
  BY <1>2, <1>6 DEF Counts, Waits
<1>8. /\ z.current = x.current /\ z.revision = x.revision
      /\ z.offered = x.offered /\ z.seen = x.seen /\ z.jobs = x.jobs /\ z.stage = x.stage
      /\ z.negotiating = x.negotiating /\ z.retries = x.retries /\ z.post = x.post
  BY <1>5 DEF Fields, HandshakeFields
<1>9. SameLink(x, z) /\ z.retries \in Nat /\ z.retries <= x.retries /\ z.post = <<>>
  BY <1>3, <1>6, <1>8 DEF SameLink, Typed
<1>10. GoesOn(e, z, signals[e], game[e], bulk[e])
  BY <1>1, <1>5, <1>7, <1>9, GoesOnLinked DEF x, p
<1> QED
  BY <1>1, <1>10, Reacting

-----------------------------------------------------------------------------
(* Troubles, and the ends of a link. *)

\* The network changes at both ends, which say nothing.
LEMMA InvNetwork ==
  ASSUME Inv, NEW from \in {"connected", "disconnected"}, NEW to, NEW grace,
         Network(from, to, grace), Lossless' = Lossless
  PROVE  Inv'
<1>1. /\ DOMAIN end = Ends /\ signals \in [Ends -> Seq(Signal)]
      /\ game \in [Ends -> Seq(Words)] /\ bulk \in [Ends -> Nat]
  BY DEF Inv, TypeOK
<1>2. /\ signals' = signals /\ game' = game /\ bulk' = bulk /\ DOMAIN end' = Ends
      /\ \A q \in Ends : end'[q] = IF Up(q) /\ end[q].net = from
                                  THEN [end[q] EXCEPT !.net = to, !.grace = grace]
                                  ELSE end[q]
  BY DEF Network
<1>3. ASSUME NEW q \in Ends, Up(q)
      PROVE  /\ Typed(end'[q]) /\ Silent(end'[q]) /\ Flags(end'[q]) /\ Counts(end'[q])
             /\ Waits(end'[q]) /\ SameLink(end[q], end'[q]) /\ SameEar(end[q], end'[q])
             /\ SameMouth(end[q], end'[q]) /\ end'[q].retries = end[q].retries
             /\ Alive(end'[q])
  <2> DEFINE x == end[q]
             z == end'[q]
  <2>1. Typed(x) /\ Silent(x) /\ Flags(x) /\ Counts(x) /\ Waits(x) /\ Alive(x)
    BY <1>3 DEF Inv, Living, Up
  <2>2. DOMAIN x = Fields /\ Shape(x)
    BY <2>1 DEF Typed, Shape
  <2>3. z = IF x.net = from THEN [x EXCEPT !.net = to, !.grace = grace] ELSE x
    BY <1>2, <1>3
  <2> HIDE DEF x, z
  <2>4. /\ Shape(z) /\ \A f \in Fields \ {"net", "grace"} : z[f] = x[f]
        /\ z.net # "new" => x.net # "new"
    <3>1. CASE x.net = from
      <4>1. z = [x EXCEPT !.net = to, !.grace = grace] /\ x.net # "new"
        BY <2>3, <3>1
      <4> QED
        BY <2>2, <4>1 DEF Shape, Fields
    <3>2. CASE x.net # from
      BY <2>2, <2>3, <3>2
    <3> QED
      BY <3>1, <3>2
  <2>5. /\ z.signaling = x.signaling /\ z.current = x.current
        /\ z.open = x.open /\ z.revision = x.revision /\ z.offered = x.offered
        /\ z.seen = x.seen /\ z.jobs = x.jobs /\ z.stage = x.stage /\ z.gather = x.gather
        /\ z.negotiating = x.negotiating /\ z.retries = x.retries
        /\ z.initSent = x.initSent /\ z.nonce = x.nonce /\ z.helloSent = x.helloSent
        /\ z.helloVerified = x.helloVerified /\ z.pendingHello = x.pendingHello
        /\ z.authenticated = x.authenticated /\ z.ready = x.ready /\ z.queued = x.queued
        /\ z.unauth = x.unauth /\ z.missed = x.missed /\ z.awaiting = x.awaiting
        /\ z.down = x.down /\ z.out = x.out /\ z.bulk = x.bulk /\ z.post = x.post
    BY <2>4 DEF Fields
  <2>6. Typed(z)
    BY <2>1, <2>4, <2>5 DEF Typed
  <2>7. Silent(z) /\ Flags(z) /\ Counts(z) /\ Waits(z) /\ Alive(z)
    BY <2>1, <2>4, <2>5 DEF Silent, Flags, Counts, Waits, Alive
  <2>8. SameLink(x, z) /\ SameEar(x, z) /\ SameMouth(x, z)
    BY <2>5 DEF SameLink, SameEar, SameMouth
  <2> QED
    BY <2>5, <2>6, <2>7, <2>8 DEF x, z
<1>4. ASSUME NEW q \in Ends, ~Up(q)
      PROVE  end'[q] = end[q]
  BY <1>2, <1>4
<1>5. \A q \in Ends : Up(q)' <=> Up(q)
  BY <1>3, <1>4 DEF Up
<1>6. ASSUME NEW q \in Ends, Up(q)
      PROVE  Living(q)'
  <2> DEFINE p == Peer(q)
             x == end[q]
             y == end[p]
             z == end'[q]
             w == end'[p]
             s == signals[q]
             t == signals[p]
  <2>1. p \in Ends /\ Peer(p) = q /\ p # q /\ Polite \in {q, p}
    BY TwoPeers
  <2>2. /\ Typed(z) /\ Silent(z) /\ Flags(z) /\ Counts(z) /\ Waits(z) /\ SameLink(x, z)
        /\ SameEar(x, z) /\ z.retries = x.retries /\ z.retries \in Nat
        /\ z.retries <= x.retries /\ Alive(z)
    <3> HIDE DEF p, x, z
    <3>1. Typed(z) /\ z.retries = x.retries
      BY <1>3, <1>6 DEF x, z
    <3>2. z.retries \in Nat /\ z.retries <= x.retries
      BY <3>1 DEF Typed
    <3> QED
      BY <1>3, <1>6, <3>1, <3>2 DEF x, z
  <2>3. Channel(x, y, game[q], bulk[q]) /\ SameMouth(y, w)
    <3>1. SameMouth(y, w)
      <4>1. CASE Up(p)
        BY <1>3, <2>1, <4>1
      <4>2. CASE ~Up(p)
        BY <1>4, <2>1, <4>2 DEF SameMouth
      <4> QED
        BY <4>1, <4>2
    <3> QED
      BY <1>6, <3>1 DEF Inv, Living
  <2>4. /\ Context(q, x, s, p, y, t) /\ Link(q, x, s, p, y, t, Lossless)
        /\ s \in Seq(Signal) /\ t \in Seq(Signal)
    BY <1>1, <1>6, <2>1, Present DEF Here
  <2>5. Alive(w) <=> Alive(y)
    BY <1>5, <2>1 DEF Up
  <2> HIDE DEF p, x, y, z, w, s, t
  <2>6. Channel(z, w, game[q], bulk[q])
    BY <2>2, <2>3, ChannelFrame
  <2>7. Link(q, z, s, p, y, t, Lossless)
    BY <2>2, <2>4, LinkFrame
  <2>8. Own(q, z, s)
    BY <2>7 DEF Link
  <2>9. ASSUME Alive(y)
        PROVE  Pair(q, z, s, w, t, Lossless)
    <3>1. Link(p, y, t, q, z, s, Lossless)
      BY <2>2, <2>7, <2>9 DEF Link
    <3>2. Up(p)
      BY <2>9 DEF Up, y
    <3>3. Typed(w) /\ Typed(y) /\ SameLink(y, w) /\ w.retries = y.retries
      BY <1>3, <2>1, <2>4, <2>9, <3>2 DEF y, w, Context
    <3>4. w.retries \in Nat /\ w.retries <= y.retries
      BY <3>3 DEF Typed
    <3>5. Context(p, y, t, q, z, s)
      BY <2>1, <2>2, <2>4, <3>3 DEF Context
    <3>6. Link(p, w, t, q, z, s, Lossless)
      BY <3>1, <3>3, <3>4, <3>5, LinkFrame
    <3> QED
      BY <2>2, <3>6 DEF Link
  <2>10. /\ end'[q] = z /\ end'[Peer(q)] = w /\ signals'[q] = s /\ signals'[Peer(q)] = t
         /\ game'[q] = game[q] /\ bulk'[q] = bulk[q] /\ (Lossless' <=> Lossless)
    BY <1>2 DEF z, w, s, t, p
  <2>11. /\ Channel(z, w, game'[q], bulk'[q]) /\ Own(q, z, signals'[q])
         /\ Alive(w) => Pair(q, z, signals'[q], w, signals'[Peer(q)], Lossless')
    <3>1. Lossless' = Lossless
      OBVIOUS
    <3> QED
      BY <2>5, <2>6, <2>8, <2>9, <2>10, <3>1
  <2> QED
    BY <2>2, <2>10, <2>11 DEF Living, Lossless
<1>7. ASSUME NEW q \in Ends, ~Up(q)
      PROVE  Closed(q)'
  <2>1. Closed(q) /\ end'[q] = end[q] /\ Peer(q) \in Ends
    BY <1>4, <1>7, TwoPeers DEF Inv
  <2>2. Up(Peer(q))' <=> Up(Peer(q))
    BY <1>5, <2>1
  <2> QED
    BY <1>2, <2>1, <2>2 DEF Closed
<1>8. TypeOK'
  BY <1>1, <1>2 DEF TypeOK
<1> QED
  BY <1>5, <1>6, <1>7, <1>8 DEF Inv

\* The connection breaks for a while,
LEMMA InvDisconnected ==
  ASSUME Inv, NEW e \in Ends, Disconnected(e)
  PROVE  Inv'
<1>1. Lossless' = Lossless
  BY DEF Disconnected, Trouble, Lossless
<1>2. Network("connected", "disconnected", TRUE)
  BY DEF Disconnected
<1> QED
  BY <1>1, <1>2, InvNetwork

\* and comes back.
LEMMA InvReconnected ==
  ASSUME Inv, NEW e \in Ends, Reconnected(e)
  PROVE  Inv'
<1>1. Lossless' = Lossless
  BY DEF Reconnected, Lossless
<1>2. Network("disconnected", "connected", FALSE)
  BY DEF Reconnected
<1> QED
  BY <1>1, <1>2, InvNetwork

\* The signaling loses a signal: from now on nobody is promised an answer.
LEMMA InvLoseSignal ==
  ASSUME Inv, NEW e \in Ends, LoseSignal(e)
  PROVE  Inv'
<1> DEFINE p == Peer(e)
           x == end[e]
           y == end[p]
           s == signals[e]
           t == signals[p]
<1>1. /\ s # <<>> /\ signals' = [signals EXCEPT ![e] = Tail(s)]
      /\ end' = end /\ game' = game /\ bulk' = bulk /\ ~Lossless'
  BY DEF LoseSignal, Trouble, Lossless
<1>2. Up(e)
  BY <1>1 DEF Inv, Closed
<1>3. p \in Ends /\ Peer(p) = e /\ p # e /\ Ends = {e, p}
  BY TwoPeers
<1>4. /\ Context(e, x, s, p, y, t) /\ Link(e, x, s, p, y, t, Lossless)
      /\ signals \in [Ends -> Seq(Signal)] /\ s \in Seq(Signal)
  BY <1>2, Present DEF Here, Inv, TypeOK
<1>5. Tail(s) \in Seq(Signal)
  BY <1>1, <1>4, TailIndex
<1>6. signals' \in [Ends -> Seq(Signal)] /\ signals'[e] = Tail(s) /\ signals'[p] = t
  BY <1>1, <1>3, <1>4, <1>5
<1>7. TypeOK'
  BY <1>1, <1>6 DEF Inv, TypeOK
<1>8. Link(e, x, Tail(s), p, y, t, FALSE)
  <2> HIDE DEF p, x, y, s, t
  <2> QED
    BY <1>1, <1>4, LinkLose
<1>9. (Up(e)' <=> Up(e)) /\ (Up(p)' <=> Up(p))
  BY <1>1 DEF Up
<1>10. Living(e)'
  <2>1. /\ Typed(x) /\ Silent(x) /\ Flags(x) /\ Counts(x) /\ Waits(x)
        /\ Channel(x, y, game[e], bulk[e])
    BY <1>2 DEF Inv, Living
  <2>2. Own(e, x, Tail(s)) /\ (Alive(y) => Pair(e, x, Tail(s), y, t, FALSE))
    BY <1>8 DEF Link
  <2>3. ("lost" \notin troubles') = FALSE
    BY <1>1 DEF Lossless
  <2> HIDE DEF s, t
  <2> QED
    BY <1>1, <1>6, <2>1, <2>2, <2>3 DEF Living
<1>11. CASE Up(p)
  <2>1. /\ Typed(y) /\ Silent(y) /\ Flags(y) /\ Counts(y) /\ Waits(y)
        /\ Channel(y, x, game[p], bulk[p])
    BY <1>3, <1>11 DEF Inv, Living
  <2>2. Own(p, y, t) /\ (Alive(x) => Pair(p, y, t, x, Tail(s), FALSE))
    BY <1>8, <1>11 DEF Link, Up
  <2>3. ("lost" \notin troubles') = FALSE
    BY <1>1 DEF Lossless
  <2> HIDE DEF s, t
  <2>4. Living(p)'
    BY <1>1, <1>3, <1>6, <2>1, <2>2, <2>3 DEF Living
  <2> QED
    BY <1>2, <1>3, <1>7, <1>9, <1>10, <1>11, <2>4 DEF Inv
<1>12. CASE ~Up(p)
  <2>1. Closed(p)'
    BY <1>1, <1>3, <1>6, <1>9, <1>12 DEF Inv, Closed
  <2> QED
    BY <1>2, <1>3, <1>7, <1>9, <1>10, <1>12, <2>1 DEF Inv
<1> QED
  BY <1>11, <1>12

\* The last signal of an end never left, and the end is closed.
LEMMA InvSendFails ==
  ASSUME Inv, NEW e \in Ends, SendFails(e)
  PROVE  Inv'
<1> DEFINE p == Peer(e)
           z == fail(end[e], "signal-error")
<1>1. /\ Up(e) /\ signals[p] # <<>> /\ end' = [end EXCEPT ![e] = z]
      /\ signals' = [signals EXCEPT ![e] = <<>>, ![p] = Front(@)]
      /\ game' = [game EXCEPT ![e] = <<>>] /\ bulk' = [bulk EXCEPT ![e] = 0]
  BY DEF SendFails
<1>2. p \in Ends /\ p # e
  BY TwoPeers
<1>3. /\ DOMAIN end = Ends /\ signals \in [Ends -> Seq(Signal)]
      /\ game \in [Ends -> Seq(Words)] /\ bulk \in [Ends -> Nat]
  BY DEF Inv, TypeOK
<1>4. Up(p)
  BY <1>1, <1>2 DEF Inv, Closed
<1>5. z.down = "signal-error"
  BY <1>1 DEF fail, NewEnd, Up
<1> HIDE DEF p, z
<1>6. Front(signals[p]) \in Seq(Signal)
  BY <1>1, <1>2, <1>3, FrontIndex
<1>7. end'[e].down = "signal-error" /\ end'[p] = end[p] /\ DOMAIN end' = Ends
  BY <1>1, <1>2, <1>3, <1>5
<1>8. /\ signals'[e] = <<>> /\ signals'[p] = Front(signals[p])
      /\ game'[e] = <<>> /\ game'[p] = game[p] /\ bulk'[e] = 0 /\ bulk'[p] = bulk[p]
  BY <1>1, <1>2, <1>3
<1>9. Typing
  <2>1. signals' \in [Ends -> Seq(Signal)]
    <3> DEFINE f == Front(signals[p])
    <3>1. signals' = [signals EXCEPT ![e] = <<>>, ![p] = f]
      BY <1>1
    <3>2. f \in Seq(Signal) /\ <<>> \in Seq(Signal)
      BY <1>6
    <3> HIDE DEF f
    <3> QED
      BY <1>2, <1>3, <3>1, <3>2
  <2>2. game' \in [Ends -> Seq(Words)] /\ bulk' \in [Ends -> Nat]
    BY <1>1, <1>3
  <2> QED
    BY <1>7, <2>1, <2>2 DEF Typing
<1>10. "signal-error" \in Reasons
  BY DEF Reasons
<1> QED
  BY <1>1, <1>4, <1>7, <1>8, <1>9, <1>10, Dies DEF p

\* An end goes without a word, its deadline passes, or it sees the channels closed.
LEMMA InvEnds ==
  ASSUME Inv, NEW e \in Ends, Vanish(e) \/ DeadlinePasses(e) \/ ChannelClosed(e)
  PROVE  Inv'
<1>1. /\ Up(e)
      /\ \E reason \in {"vanished", "timeout", "channel-closed"} :
           Install(e, fail(end[e], reason), signals[e], game[e])
  BY DEF Vanish, DeadlinePasses, ChannelClosed, Reacts
<1>2. PICK reason \in {"vanished", "timeout", "channel-closed"} :
        Install(e, fail(end[e], reason), signals[e], game[e])
  BY <1>1
<1>3. reason \in Reasons /\ reason # "ping-timeout"
  BY DEF Reasons
<1> QED
  BY <1>1, <1>2, <1>3, Closing

-----------------------------------------------------------------------------
(* The jobs. *)

\* The head of the queue leaves it.
LEMMA DoneIs ==
  ASSUME NEW x, Shape(x), Alive(x), x.jobs \in Seq(Signal), x.jobs # <<>>
  PROVE  LET z == done(x) IN
         /\ Shape(z) /\ z.jobs = Tail(x.jobs) /\ z.jobs \in Seq(Signal) /\ z.stage = "idle"
         /\ \A f \in Fields \ {"jobs", "stage"} : z[f] = x[f]
<1> DEFINE z == done(x)
<1>1. DOMAIN x = Fields
  BY DEF Shape
<1>2. z = [x EXCEPT !.jobs = Tail(x.jobs), !.stage = "idle"]
  BY DEF done
<1>3. Tail(x.jobs) \in Seq(Signal)
  BY TailIndex
<1> HIDE DEF z
<1>4. /\ Shape(z) /\ z.jobs = Tail(x.jobs) /\ z.stage = "idle"
      /\ \A f \in Fields \ {"jobs", "stage"} : z[f] = x[f]
  BY <1>1, <1>2 DEF Shape, Fields
<1> QED
  BY <1>3, <1>4 DEF z

\* A step of an idle end: nothing is said or posted.
LEMMA JobReacts ==
  ASSUME Inv, NEW e \in Ends, Up(e), NEW z, Shape(z), z.jobs \in Seq(Signal),
         z.negotiating \in BOOLEAN, z.revision \in Nat,
         \A f \in Fields \ {"ignored", "early", "negotiating", "jobs", "revision", "stage"} :
           z[f] = end[e][f],
         Link(e, z, signals[e], Peer(e), end[Peer(e)], signals[Peer(e)], Lossless),
         Install(e, z, signals[e], game[e]), troubles' = troubles
  PROVE  Inv'
<1> DEFINE x == end[e]
<1>1. /\ Typed(x) /\ Flags(x) /\ x.post = <<>> /\ signals[e] \in Seq(Signal)
      /\ signals[Peer(e)] \o <<>> = signals[Peer(e)]
  BY PresentTyped
<1>2. z.gather \in Nat /\ z.post = <<>>
  BY <1>1 DEF Typed, Fields
<1>3. Apart(x, z) /\ z.signaling = x.signaling
  <2>1. \A f \in Fields \ {"needed", "restart", "carries", "grace", "gather", "heard",
                           "ignored", "early", "negotiating", "jobs", "revision",
                           "stage", "post"} : z[f] = x[f]
    BY DEF Fields
  <2> HIDE DEF x
  <2> QED
    BY <1>1, <1>2, <2>1, ApartIs
<1>4. <<>> \in Seq(Signal)
  OBVIOUS
<1>5. /\ Link(e, z, signals[e], Peer(e), end[Peer(e)], signals[Peer(e)] \o z.post, Lossless)
      /\ z.post \in Seq(Signal)
  BY <1>1, <1>2, <1>4
<1> QED
  BY <1>1, <1>3, <1>5, ApartReacts

\* A job is begun: an offer, a description to apply, one refused, or a negotiation too
\* late.
LEMMA InvStartJob ==
  ASSUME Inv, NEW e \in Ends, StartJob(e)
  PROVE  Inv'
<1> DEFINE p == Peer(e)
           x == end[e]
           s == signals[e]
           z == start(x, e)
<1>1. /\ Up(e) /\ x.stage = "idle" /\ x.jobs # <<>>
      /\ Install(e, z, s, game[e]) /\ troubles' = troubles
  BY DEF StartJob, Reacts
<1>2. /\ Typed(x) /\ Flags(x) /\ DOMAIN x = Fields /\ Shape(x) /\ Alive(x)
      /\ x.jobs \in Seq(Signal)
  BY <1>1, PresentTyped
<1>3. /\ Context(e, x, s, p, end[p], signals[p])
      /\ Link(e, x, s, p, end[p], signals[p], Lossless)
  BY <1>1, Present DEF Here
<1>4. /\ x.negotiating \in BOOLEAN /\ x.revision \in Nat /\ x.revision + 1 \in Nat
      /\ x.seen \in Nat
  BY <1>2 DEF Typed
<1>5. SUFFICES /\ Shape(z) /\ z.jobs \in Seq(Signal) /\ z.negotiating \in BOOLEAN
               /\ z.revision \in Nat
               /\ \A f \in Fields \ {"ignored", "early", "negotiating", "jobs", "revision",
                                     "stage"} : z[f] = x[f]
               /\ Link(e, z, s, p, end[p], signals[p], Lossless)
  <2> HIDE DEF z
  <2> QED
    BY <1>1, <1>5, JobReacts
<1> HIDE DEF p, x, s
<1>6. CASE Head(x.jobs).kind = "negotiate" /\ x.signaling # "stable"
  <2> DEFINE u == [x EXCEPT !.negotiating = FALSE]
  <2>1. z = done(u)
    BY <1>6 DEF start, startNegotiate
  <2>2. Shape(u) /\ u.negotiating = FALSE /\ \A f \in Fields \ {"negotiating"} : u[f] = x[f]
    BY <1>2 DEF Shape, Fields
  <2> HIDE DEF u, z
  <2>3. u.jobs = x.jobs /\ u.down = x.down
    BY <2>2 DEF Fields
  <2>4. /\ Shape(z) /\ z.jobs = Tail(x.jobs) /\ z.jobs \in Seq(Signal) /\ z.stage = "idle"
        /\ \A f \in Fields \ {"jobs", "stage"} : z[f] = u[f]
    <3>1. Alive(u) /\ u.jobs \in Seq(Signal) /\ u.jobs # <<>>
      BY <1>1, <1>2, <2>3 DEF Alive, x
    <3> QED
      BY <2>1, <2>2, <2>3, <3>1, DoneIs
  <2>5. /\ z.negotiating = FALSE /\ z.signaling = x.signaling /\ z.current = x.current
        /\ z.revision = x.revision /\ z.offered = x.offered /\ z.seen = x.seen
        /\ z.retries = x.retries
    BY <2>2, <2>4 DEF Fields
  <2>6. Link(e, z, s, p, end[p], signals[p], Lossless)
    BY <1>1, <1>3, <1>6, <2>4, <2>5, LinkUnstable DEF x
  <2> QED
    BY <1>4, <2>2, <2>4, <2>5, <2>6
<1>7. CASE Head(x.jobs).kind = "negotiate" /\ x.signaling = "stable"
  <2>1. z = [x EXCEPT !.revision = @ + 1, !.stage = "offer"]
    BY <1>7 DEF start, startNegotiate
  <2> HIDE DEF z
  <2>2. /\ Shape(z) /\ z.revision = x.revision + 1 /\ z.stage = "offer"
        /\ \A f \in Fields \ {"revision", "stage"} : z[f] = x[f]
    BY <1>2, <2>1 DEF Shape, Fields
  <2>3. /\ z.negotiating = x.negotiating /\ z.signaling = x.signaling
        /\ z.current = x.current /\ z.jobs = x.jobs /\ z.offered = x.offered
        /\ z.seen = x.seen /\ z.retries = x.retries
    BY <2>2 DEF Fields
  <2>4. Link(e, z, s, p, end[p], signals[p], Lossless)
    BY <1>1, <1>3, <1>7, <2>2, <2>3, LinkStart DEF x
  <2> QED
    BY <1>2, <1>4, <2>2, <2>3, <2>4
<1>8. CASE Head(x.jobs).kind # "negotiate"
  <2> DEFINE m == Head(x.jobs)
  <2>1. z = startSignal(x, m, e)
    BY <1>8 DEF start
  <2>2. Works(e, x) /\ Queue(x)
    BY <1>3 DEF Link, Own
  <2>3. m.kind \in {"offer", "answer"} /\ m.revision \in Nat /\ m \in Signal
    <3>1. Head(x.jobs) = x.jobs[1] /\ 1 \in 1..Len(x.jobs) /\ Head(x.jobs) \in Signal
      BY <1>1, <1>2, TailIndex DEF x
    <3>2. m.kind # "candidate"
      BY <2>2, <3>1 DEF Queue
    <3> QED
      BY <1>8, <3>1, <3>2 DEF Signal, Kinds
  <2> HIDE DEF z
  <2>4. IsDescription(m)
    BY <2>3 DEF IsDescription
  <2>5. m.kind = "answer" => x.signaling = "local" /\ m.reply = x.offered /\ Fresh(x, m)
    BY <1>1, <1>3, <2>4, NextDescription DEF x
  <2>6. ~StrayAnswer(x, m)
    BY <2>5 DEF StrayAnswer
  <2>7. ASSUME NEW u, z = done(u), Shape(u), m.kind = "offer",
               ~Fresh(x, m) \/ (e # Polite /\ x.offered # 0),
               \A f \in Fields \ {"ignored", "early"} : u[f] = x[f]
        PROVE  /\ Shape(z) /\ z.jobs \in Seq(Signal) /\ z.negotiating \in BOOLEAN
               /\ z.revision \in Nat
               /\ \A f \in Fields \ {"ignored", "early", "negotiating", "jobs", "revision",
                                     "stage"} : z[f] = x[f]
               /\ Link(e, z, s, p, end[p], signals[p], Lossless)
    <3>1. u.jobs = x.jobs /\ u.down = x.down
      BY <2>7 DEF Fields
    <3>2. /\ Shape(z) /\ z.jobs = Tail(x.jobs) /\ z.jobs \in Seq(Signal) /\ z.stage = "idle"
          /\ \A f \in Fields \ {"jobs", "stage"} : z[f] = u[f]
      <4>1. Alive(u) /\ u.jobs \in Seq(Signal) /\ u.jobs # <<>>
        BY <1>1, <1>2, <3>1 DEF Alive, x
      <4> QED
        BY <2>7, <3>1, <4>1, DoneIs
    <3>3. /\ z.negotiating = x.negotiating /\ z.signaling = x.signaling
          /\ z.current = x.current /\ z.revision = x.revision /\ z.offered = x.offered
          /\ z.seen = x.seen /\ z.retries = x.retries
      BY <2>7, <3>2 DEF Fields
    <3>4. Link(e, z, s, p, end[p], signals[p], Lossless)
      BY <1>1, <1>3, <2>7, <3>2, <3>3, LinkDrop DEF x
    <3> QED
      BY <1>4, <2>7, <3>2, <3>3, <3>4
  <2>8. CASE m.revision <= x.seen
    <3>1. ~Fresh(x, m)
      BY <1>4, <2>3, <2>8 DEF Fresh
    <3>2. m.kind = "offer"
      BY <2>3, <2>5, <3>1
    <3>3. z = done(x)
      BY <1>4, <2>1, <2>3, <2>8 DEF startSignal
    <3> QED
      BY <1>2, <2>7, <3>1, <3>2, <3>3
  <2>9. CASE m.revision > x.seen /\ Collides(x, m, e)
    <3> DEFINE u == ignore(x, m)
    <3>1. z = done(u)
      BY <1>4, <2>1, <2>3, <2>9 DEF startSignal
    <3>2. Shape(u) /\ \A f \in Fields \ {"ignored", "early"} : u[f] = x[f]
      BY <1>2 DEF ignore, Shape, Fields
    <3>3. m.kind = "offer" /\ x.signaling # "stable" /\ e # Polite
      BY <2>9 DEF Collides
    <3>4. x.offered # 0
      BY <1>1, <2>2, <3>3 DEF Works, x
    <3> HIDE DEF u
    <3> QED
      BY <2>7, <3>1, <3>2, <3>3, <3>4
  <2>10. CASE m.revision > x.seen /\ ~Collides(x, m, e)
    <3>1. z = [x EXCEPT !.stage = "remote"]
      BY <1>4, <2>1, <2>3, <2>6, <2>10 DEF startSignal
    <3>2. /\ Shape(z) /\ z.stage = "remote" /\ \A f \in Fields \ {"stage"} : z[f] = x[f]
      BY <1>2, <3>1 DEF Shape, Fields
    <3>3. /\ z.negotiating = x.negotiating /\ z.signaling = x.signaling
          /\ z.current = x.current /\ z.jobs = x.jobs /\ z.offered = x.offered
          /\ z.seen = x.seen /\ z.retries = x.retries /\ z.revision = x.revision
      BY <3>2 DEF Fields
    <3>4. Fresh(x, m) /\ (m.kind = "offer" /\ e # Polite => x.signaling = "stable")
      BY <2>10 DEF Fresh, Collides
    <3>5. Link(e, z, s, p, end[p], signals[p], Lossless)
      BY <1>1, <1>3, <2>4, <3>2, <3>3, <3>4, LinkApply DEF x
    <3> QED
      BY <1>2, <1>4, <3>2, <3>3, <3>5
  <2> QED
    BY <1>4, <2>3, <2>8, <2>9, <2>10
<1> QED
  BY <1>6, <1>7, <1>8

\* What a job leaves alone while it ends.
Settles(w, z) ==
  /\ z.signaling = w.signaling /\ z.current = w.current /\ z.revision = w.revision
  /\ z.offered = w.offered /\ z.seen = w.seen /\ z.retries = w.retries
  /\ z.negotiating = w.negotiating /\ z.post = w.post

\* The job is over.
LEMMA TalkDone ==
  ASSUME NEW w, NEW s, NEW b, NEW y, NEW t, NEW c, Talk(w, s, b, y, t, c),
         Counts(w), Waits(w), w.jobs # <<>>
  PROVE  LET z == done(w) IN
         /\ Talk(z, s, b, y, t, c) /\ Counts(z) /\ Waits(z)
         /\ z.jobs = Tail(w.jobs) /\ z.stage = "idle" /\ Settles(w, z)
<1> DEFINE z == done(w)
<1>1. Typed(w) /\ Shape(w) /\ Alive(w) /\ Flags(w) /\ w.jobs \in Seq(Signal)
  BY DEF Talk, Typed
<1>2. /\ Shape(z) /\ z.jobs = Tail(w.jobs) /\ z.jobs \in Seq(Signal) /\ z.stage = "idle"
      /\ \A f \in Fields \ {"jobs", "stage"} : z[f] = w[f]
  BY <1>1, DoneIs
<1> HIDE DEF z
<1>3. /\ Settles(w, z) /\ z.gather = w.gather
  BY <1>2 DEF Fields, Settles
<1>4. Apart(w, z) /\ z.signaling = w.signaling
  <2>1. w.gather \in Nat /\ w.negotiating \in BOOLEAN /\ w.revision \in Nat
    BY <1>1 DEF Typed
  <2>2. z.gather \in Nat /\ z.negotiating \in BOOLEAN /\ z.revision \in Nat
    BY <1>3, <2>1 DEF Settles
  <2>3. \A f \in Fields \ {"needed", "restart", "carries", "grace", "gather", "heard",
                           "ignored", "early", "negotiating", "jobs", "revision",
                           "stage", "post"} : z[f] = w[f]
    BY <1>2 DEF Fields
  <2> QED
    BY <1>1, <1>2, <2>2, <2>3, ApartIs
<1>5. Talk(z, s, b, y, t, c) /\ Counts(z) /\ Waits(z)
  BY <1>4, TalkApart
<1> QED
  BY <1>2, <1>3, <1>5 DEF z

\* A description is in force: early candidates, and a HELLO, may go now.
LEMMA TalkFinished ==
  ASSUME NEW w, NEW s, NEW b, NEW y, NEW t, NEW c, Talk(w, s, b, y, t, c),
         Counts(w), Waits(w), w.jobs # <<>>
  PROVE  LET z == done(trySendHello(takeEarly(w))) IN
         /\ Talk(z, s, b, y, t, c) /\ Counts(z) /\ Waits(z)
         /\ z.jobs = Tail(w.jobs) /\ z.stage = "idle" /\ Settles(w, z)
<1> DEFINE v == takeEarly(w)
           h == trySendHello(v)
           z == done(h)
<1>1. Typed(w) /\ Shape(w) /\ DOMAIN w = Fields /\ Flags(w)
  BY DEF Talk, Typed, Shape
<1>2. Shape(v) /\ \A f \in Fields \ {"heard", "early"} : v[f] = w[f]
  <2> DEFINE C == {k \in w.early : k.revision = w.seen}
             u == addCandidates(w, C)
  <2>1. u = w \/ u = [w EXCEPT !.heard = TRUE]
    BY DEF addCandidates
  <2>2. v = [u EXCEPT !.early = {}]
    BY DEF takeEarly
  <2> HIDE DEF u, v
  <2>3. DOMAIN u = Fields /\ \A f \in Fields \ {"heard"} : u[f] = w[f]
    BY <1>1, <2>1 DEF Fields, Shape
  <2> QED
    BY <2>2, <2>3 DEF Shape, Fields
<1> HIDE DEF v
<1>3. Settles(w, v) /\ v.jobs = w.jobs /\ v.gather = w.gather
  BY <1>2 DEF Fields, Settles
<1>4. Apart(w, v) /\ v.signaling = w.signaling
  <2>1. w.gather \in Nat /\ w.negotiating \in BOOLEAN /\ w.revision \in Nat
        /\ w.jobs \in Seq(Signal)
    BY <1>1 DEF Typed
  <2>2. v.gather \in Nat /\ v.negotiating \in BOOLEAN /\ v.revision \in Nat
        /\ v.jobs \in Seq(Signal)
    BY <1>3, <2>1 DEF Settles
  <2>3. \A f \in Fields \ {"needed", "restart", "carries", "grace", "gather", "heard",
                           "ignored", "early", "negotiating", "jobs", "revision",
                           "stage", "post"} : v[f] = w[f]
    BY <1>2 DEF Fields
  <2> QED
    BY <1>1, <1>2, <2>2, <2>3, ApartIs
<1>5. Talk(v, s, b, y, t, c) /\ Counts(v) /\ Waits(v)
  BY <1>4, TalkApart
<1>6. /\ Talk(h, s, b, y, t, c) /\ Kept(v, h)
      /\ \A f \in Talking \ {"helloSent"} : h[f] = v[f]
  <2>1. ~v.pendingHello \/ v.signaling # "stable"
    BY <1>5 DEF Waits
  <2> QED
    BY <1>5, <2>1, TalkHello
<1> HIDE DEF h
<1>7. Counts(h) /\ Waits(h)
  <2>1. /\ h.nonce = v.nonce /\ h.unauth = v.unauth /\ h.authenticated = v.authenticated
        /\ h.pendingHello = v.pendingHello /\ h.missed = v.missed
        /\ h.signaling = v.signaling
    BY <1>6 DEF Talking
  <2> QED
    BY <1>5, <2>1 DEF Counts, Waits
<1>8. Settles(v, h) /\ h.jobs = v.jobs
  BY <1>6 DEF Kept, Fields, HandshakeFields, Settles
<1>9. h.jobs # <<>> /\ h.jobs = w.jobs
  BY <1>3, <1>8
<1>10. /\ Talk(z, s, b, y, t, c) /\ Counts(z) /\ Waits(z)
       /\ z.jobs = Tail(h.jobs) /\ z.stage = "idle" /\ Settles(h, z)
  BY <1>6, <1>7, <1>9, TalkDone
<1> HIDE DEF z
<1>11. Settles(w, z)
  BY <1>3, <1>8, <1>10 DEF Settles
<1> QED
  BY <1>9, <1>10, <1>11 DEF z, h, v

\* A description changes the state of the browser's connection.
LEMMA TalkChanged ==
  ASSUME NEW x, NEW s, NEW b, NEW y, NEW t, NEW c, NEW v, Talk(x, s, b, y, t, c),
         Counts(x), Apart(x, v)
  PROVE  LET z == stateChanged(v) IN
         /\ Talk(z, s, b, y, t, c) /\ Counts(z) /\ Waits(z) /\ Alive(z)
         /\ Settles(v, z) /\ z.jobs = v.jobs /\ z.stage = v.stage /\ z.gather = v.gather
<1> DEFINE z == stateChanged(v)
<1>1. Talk(v, s, b, y, t, c) /\ Counts(v)
  BY TalkApart
<1>2. Talk(z, s, b, y, t, c) /\ Kept(v, z) /\ Waits(z) /\ Further(v, z)
  BY <1>1, TalkState
<1> HIDE DEF z
<1>3. Counts(z)
  BY <1>1, <1>2, FurtherCounts
<1>4. Settles(v, z) /\ z.jobs = v.jobs /\ z.stage = v.stage /\ z.gather = v.gather
  BY <1>2 DEF Kept, Fields, HandshakeFields, Settles
<1>5. Alive(z)
  BY <1>2 DEF Talk
<1> QED
  BY <1>2, <1>3, <1>4, <1>5 DEF z

\* A job that says and posts what it has to keeps the invariant.
LEMMA JobGoesOn ==
  ASSUME Inv, NEW e \in Ends, Up(e), NEW z, z.post \in Seq(Signal),
         Talk(z, game[e], bulk[e], end[Peer(e)], game[Peer(e)], bulk[Peer(e)]),
         Counts(z), Waits(z),
         Link(e, z, signals[e], Peer(e), end[Peer(e)], signals[Peer(e)] \o z.post, Lossless),
         Install(e, z, signals[e], game[e]), troubles' = troubles
  PROVE  Inv'
<1>1. signals[e] \in Seq(Signal)
  BY DEF Inv, TypeOK
<1>2. GoesOn(e, z, signals[e], game[e], bulk[e])
  BY <1>1 DEF GoesOn
<1> QED
  BY <1>2, Reacting

\* What an end that works on a job knows.
LEMMA JobContext ==
  ASSUME Inv, NEW e \in Ends, Up(e), end[e].stage # "idle"
  PROVE  LET x == end[e] IN
         /\ Typed(x) /\ Flags(x) /\ DOMAIN x = Fields /\ Shape(x) /\ Alive(x)
         /\ x.jobs \in Seq(Signal) /\ x.jobs # <<>> /\ x.post = <<>> /\ Works(e, x)
         /\ Context(e, x, signals[e], Peer(e), end[Peer(e)], signals[Peer(e)])
         /\ Link(e, x, signals[e], Peer(e), end[Peer(e)], signals[Peer(e)], Lossless)
         /\ Talk(x, game[e], bulk[e], end[Peer(e)], game[Peer(e)], bulk[Peer(e)])
         /\ Counts(x) /\ Waits(x)
         /\ signals[Peer(e)] \o <<>> = signals[Peer(e)]
         /\ x.revision \in Nat /\ x.offered \in Nat /\ x.seen \in Nat /\ x.retries \in Nat
         /\ x.gather \in Nat /\ x.negotiating \in BOOLEAN /\ gathered(x) \in Nat
<1> DEFINE x == end[e]
<1>1. /\ Typed(x) /\ Flags(x) /\ DOMAIN x = Fields /\ Shape(x) /\ Alive(x)
      /\ x.jobs \in Seq(Signal) /\ x.post = <<>>
      /\ signals[Peer(e)] \o <<>> = signals[Peer(e)]
  BY PresentTyped
<1>2. /\ Context(e, x, signals[e], Peer(e), end[Peer(e)], signals[Peer(e)])
      /\ Link(e, x, signals[e], Peer(e), end[Peer(e)], signals[Peer(e)], Lossless)
      /\ Talk(x, game[e], bulk[e], end[Peer(e)], game[Peer(e)], bulk[Peer(e)])
      /\ Counts(x) /\ Waits(x)
  BY Present DEF Here, GoesOn
<1>3. Works(e, x) /\ x.jobs # <<>>
  BY <1>2 DEF Link, Own, Works
<1>4. /\ x.revision \in Nat /\ x.offered \in Nat /\ x.seen \in Nat /\ x.retries \in Nat
      /\ x.gather \in Nat /\ x.negotiating \in BOOLEAN
  BY <1>1 DEF Typed
<1>5. gathered(x) \in Nat
  BY <1>4 DEF gathered
<1> QED
  BY <1>1, <1>2, <1>3, <1>4, <1>5

\* One description is posted.
LEMMA OneMorePost ==
  ASSUME NEW m \in Signal
  PROVE  Append(<<>>, m) = <<m>> /\ <<m>> \in Seq(Signal)
  OBVIOUS

\* setLocalDescription has settled for an offer, and the offer is sent.
LEMMA InvFinishOffer ==
  ASSUME Inv, NEW e \in Ends, FinishJob(e), end[e].stage = "offer"
  PROVE  Inv'
<1> DEFINE p == Peer(e)
           x == end[e]
           s == signals[e]
           v == [x EXCEPT !.signaling = "local", !.gather = gathered(x), !.carries = x.restart]
           y == stateChanged(v)
           r == Restarts(y)
           m == Description("offer", x.revision, r)
           w == [y EXCEPT !.offered = x.revision, !.negotiating = FALSE,
                          !.retries = IF x.revision = 1 THEN OfferRetries ELSE 0,
                          !.post = Append(@, m)]
           z == done(w)
<1>1. Up(e) /\ Install(e, z, s, game[e]) /\ troubles' = troubles
  BY DEF FinishJob, Reacts, finishNegotiate
<1>2. /\ Typed(x) /\ Flags(x) /\ DOMAIN x = Fields /\ Shape(x)
      /\ x.jobs \in Seq(Signal) /\ x.jobs # <<>> /\ x.post = <<>>
      /\ Context(e, x, s, p, end[p], signals[p])
      /\ Link(e, x, s, p, end[p], signals[p], Lossless)
      /\ Talk(x, game[e], bulk[e], end[p], game[p], bulk[p]) /\ Counts(x)
      /\ x.revision \in Nat /\ x.offered \in Nat /\ x.seen \in Nat /\ x.retries \in Nat
      /\ x.negotiating \in BOOLEAN /\ gathered(x) \in Nat
  BY <1>1, JobContext
<1>3. OfferRetries \in Nat
  BY Limits
<1>4. x.stage = "offer"
  OBVIOUS
<1> HIDE DEF p, x, s
<1>5. /\ Shape(v) /\ v.signaling = "local" /\ v.gather = gathered(x)
      /\ \A f \in Fields \ {"signaling", "gather", "carries"} : v[f] = x[f]
  BY <1>2 DEF Shape, Fields
<1> HIDE DEF v
<1>6. /\ v.current = x.current /\ v.revision = x.revision /\ v.offered = x.offered
      /\ v.seen = x.seen /\ v.retries = x.retries /\ v.negotiating = x.negotiating
      /\ v.post = x.post /\ v.jobs = x.jobs /\ v.stage = x.stage
  BY <1>5 DEF Fields
<1>7. Apart(x, v)
  <2>1. \A f \in (HandshakeFields \ {"needed"}) \cup {"net", "open", "down"} : v[f] = x[f]
    BY <1>5 DEF Fields, HandshakeFields
  <2>2. x.open => v.current # NoSession
    BY <1>2, <1>6 DEF Flags
  <2> QED
    BY <1>2, <1>5, <1>6, <2>1, <2>2 DEF Apart
<1>8. /\ Talk(y, game[e], bulk[e], end[p], game[p], bulk[p]) /\ Counts(y) /\ Waits(y)
      /\ Alive(y) /\ Settles(v, y) /\ y.jobs = v.jobs /\ y.gather = v.gather
  <2>1. Talk(x, game[e], bulk[e], end[p], game[p], bulk[p]) /\ Counts(x)
    BY <1>2
  <2> QED
    BY <1>7, <2>1, TalkChanged
<1> HIDE DEF y
<1>9. /\ y.signaling = "local" /\ y.current = x.current /\ y.revision = x.revision
      /\ y.seen = x.seen /\ y.jobs = x.jobs /\ y.post = <<>> /\ y.gather \in Nat
      /\ DOMAIN y = Fields /\ Flags(y)
  BY <1>2, <1>5, <1>6, <1>8 DEF Settles, Talk, Typed, Shape
<1>10. r \in Nat
  BY DEF Restarts
<1> HIDE DEF r
<1>11. m \in Signal
  BY <1>2, <1>10 DEF Description, Signal, Kinds
<1>12. <<m>> \in Seq(Signal) /\ Append(<<>>, m) = <<m>>
  BY <1>11, OneMorePost
<1> DEFINE k == IF x.revision = 1 THEN OfferRetries ELSE 0
<1>13. k \in Nat
  BY <1>3
<1> HIDE DEF m, k
<1>14. /\ Shape(w) /\ w.offered = x.revision /\ w.negotiating = FALSE /\ w.retries = k
       /\ w.post = <<m>>
       /\ \A f \in Fields \ {"offered", "negotiating", "retries", "post"} : w[f] = y[f]
  <2>1. w = [y EXCEPT !.offered = x.revision, !.negotiating = FALSE, !.retries = k,
                      !.post = <<m>>]
    BY <1>9, <1>12 DEF k
  <2> HIDE DEF w
  <2> QED
    BY <1>9, <2>1, ZenonT(60) DEF Shape, Fields
<1> HIDE DEF w
<1>15. /\ w.signaling = y.signaling /\ w.current = y.current /\ w.revision = y.revision
       /\ w.seen = y.seen /\ w.jobs = y.jobs /\ w.gather = y.gather
  BY <1>14 DEF Fields
<1>16. Apart(y, w)
  <2>1. \A f \in (HandshakeFields \ {"needed"}) \cup {"net", "open", "down"} : w[f] = y[f]
    BY <1>14 DEF Fields, HandshakeFields
  <2>2. y.open => w.current # NoSession
    BY <1>9, <1>15 DEF Flags
  <2>3. /\ w.gather \in Nat /\ w.revision \in Nat /\ w.offered \in Nat /\ w.seen \in Nat
        /\ w.retries \in Nat /\ w.negotiating \in BOOLEAN /\ w.jobs \in Seq(Signal)
    BY <1>2, <1>9, <1>13, <1>14, <1>15
  <2> QED
    BY <1>14, <2>1, <2>2, <2>3 DEF Apart
<1>17. Talk(w, game[e], bulk[e], end[p], game[p], bulk[p]) /\ Counts(w) /\ Waits(w)
  BY <1>8, <1>15, <1>16, TalkApart
<1>18. /\ Talk(z, game[e], bulk[e], end[p], game[p], bulk[p]) /\ Counts(z) /\ Waits(z)
       /\ z.jobs = Tail(w.jobs) /\ z.stage = "idle" /\ Settles(w, z)
  <2>1. w.jobs # <<>>
    BY <1>2, <1>9, <1>15
  <2> QED
    BY <1>17, <2>1, TalkDone
<1> HIDE DEF z
<1>19. /\ z.jobs = Tail(x.jobs) /\ z.signaling = "local" /\ z.revision = x.revision
       /\ z.offered = x.revision /\ z.seen = x.seen /\ z.current = x.current
       /\ z.retries = k /\ z.post = <<m>>
  BY <1>9, <1>14, <1>15, <1>18 DEF Settles
<1>20. Link(e, z, s, p, end[p], signals[p] \o <<m>>, Lossless)
  <2>1. m = Description("offer", x.revision, r)
    BY DEF m
  <2>2. z.retries = IF x.revision = 1 THEN OfferRetries ELSE 0
    BY <1>19 DEF k
  <2> QED
    BY <1>2, <1>4, <1>10, <1>18, <1>19, <2>1, <2>2, LinkOffer
<1> QED
  BY <1>1, <1>12, <1>18, <1>19, <1>20, JobGoesOn DEF p, s

\* setRemoteDescription has settled for an offer: the answer is begun.
LEMMA InvFinishAccept ==
  ASSUME Inv, NEW e \in Ends, FinishJob(e), end[e].stage = "remote",
         Head(end[e].jobs).kind # "answer"
  PROVE  Inv'
<1> DEFINE p == Peer(e)
           x == end[e]
           s == signals[e]
           m == Head(x.jobs)
           z == [accepted(x, m) EXCEPT !.signaling = "remote", !.stage = "answer",
                                       !.revision = @ + 1]
<1>1. Up(e) /\ Install(e, z, s, game[e]) /\ troubles' = troubles
  BY DEF FinishJob, Reacts, finishRemote
<1>2. /\ Typed(x) /\ Flags(x) /\ DOMAIN x = Fields /\ Shape(x) /\ Works(e, x)
      /\ x.jobs \in Seq(Signal) /\ x.jobs # <<>> /\ x.post = <<>>
      /\ Context(e, x, s, p, end[p], signals[p])
      /\ Link(e, x, s, p, end[p], signals[p], Lossless)
      /\ Talk(x, game[e], bulk[e], end[p], game[p], bulk[p]) /\ Counts(x)
      /\ signals[p] \o <<>> = signals[p]
      /\ x.revision \in Nat /\ x.gather \in Nat /\ x.negotiating \in BOOLEAN
  BY <1>1, JobContext
<1>3. m.kind = "offer"
  BY <1>2 DEF Works, IsDescription
<1>4. m.revision \in Nat
  <2>1. m \in Signal
    BY <1>2, TailIndex
  <2> QED
    BY <2>1 DEF Signal
<1> HIDE DEF p, s, m
<1>5. /\ Shape(z) /\ z.signaling = "remote" /\ z.stage = "answer"
      /\ z.revision = x.revision + 1 /\ z.offered = 0 /\ z.retries = 0
      /\ z.seen = m.revision
      /\ \A f \in Fields \ {"signaling", "stage", "revision", "offered", "retries", "seen",
                            "heard"} : z[f] = x[f]
  BY <1>2, ZenonT(60) DEF accepted, Shape, Fields
<1> HIDE DEF z
<1>6. /\ z.current = x.current /\ z.jobs = x.jobs /\ z.negotiating = x.negotiating
      /\ z.gather = x.gather /\ z.post = x.post
  BY <1>5 DEF Fields
<1>7. Apart(x, z)
  <2>1. \A f \in (HandshakeFields \ {"needed"}) \cup {"net", "open", "down"} : z[f] = x[f]
    BY <1>5 DEF Fields, HandshakeFields
  <2>2. x.open => z.current # NoSession
    BY <1>2, <1>6 DEF Flags
  <2> QED
    BY <1>2, <1>4, <1>5, <1>6, <2>1, <2>2 DEF Apart
<1>8. Talk(z, game[e], bulk[e], end[p], game[p], bulk[p]) /\ Counts(z)
  BY <1>2, <1>7, TalkApart
<1>9. Waits(z)
  BY <1>5 DEF Waits
<1>10. Link(e, z, s, p, end[p], signals[p], Lossless)
  <2>1. x.stage = "remote"
    OBVIOUS
  <2> HIDE DEF x
  <2> QED
    BY <1>2, <1>3, <1>5, <1>6, <2>1, LinkAccept DEF m
<1>11. z.post = <<>> /\ z.post \in Seq(Signal) /\ signals[p] \o z.post = signals[p]
  BY <1>2, <1>6
<1> QED
  BY <1>1, <1>8, <1>9, <1>10, <1>11, JobGoesOn DEF p, s

\* setRemoteDescription has settled for an answer: the connection is stable again.
LEMMA InvFinishAnswered ==
  ASSUME Inv, NEW e \in Ends, FinishJob(e), end[e].stage = "remote",
         Head(end[e].jobs).kind = "answer"
  PROVE  Inv'
<1> DEFINE p == Peer(e)
           x == end[e]
           s == signals[e]
           m == Head(x.jobs)
           d == [offerer |-> e, revision |-> x.offered]
           v == [accepted(x, m) EXCEPT !.signaling = "stable",
                   !.restart = @ /\ ~x.carries, !.current = d]
           y == stateChanged(v)
           z == done(trySendHello(takeEarly(y)))
<1>1. Up(e) /\ Install(e, z, s, game[e]) /\ troubles' = troubles
  BY DEF FinishJob, Reacts, finishRemote
<1>2. /\ Typed(x) /\ Flags(x) /\ DOMAIN x = Fields /\ Shape(x) /\ Works(e, x)
      /\ x.jobs \in Seq(Signal) /\ x.jobs # <<>> /\ x.post = <<>>
      /\ Context(e, x, s, p, end[p], signals[p])
      /\ Link(e, x, s, p, end[p], signals[p], Lossless)
      /\ Talk(x, game[e], bulk[e], end[p], game[p], bulk[p]) /\ Counts(x)
      /\ signals[p] \o <<>> = signals[p]
      /\ x.revision \in Nat /\ x.gather \in Nat /\ x.negotiating \in BOOLEAN
      /\ x.offered \in Nat
  BY <1>1, JobContext
<1>3. x.offered # 0 /\ x.stage = "remote" /\ m.kind = "answer"
  BY <1>2 DEF Works
<1>4. m.revision \in Nat
  <2>1. m \in Signal
    BY <1>2, TailIndex
  <2> QED
    BY <2>1 DEF Signal
<1>5. d # NoSession
  <2>1. d.revision # 0
    BY <1>3
  <2>2. NoSession.revision = 0
    BY DEF NoSession
  <2> HIDE DEF d
  <2> QED
    BY <2>1, <2>2
<1>6. d = [offerer |-> e, revision |-> x.offered]
  OBVIOUS
<1> HIDE DEF p, s, m, x, d
<1>7. /\ Shape(v) /\ v.signaling = "stable" /\ v.offered = 0 /\ v.retries = 0
      /\ v.seen = m.revision /\ v.current = d
      /\ \A f \in Fields \ {"signaling", "offered", "retries", "seen", "heard", "restart",
                            "current"} : v[f] = x[f]
  BY <1>2, ZenonT(60) DEF accepted, Shape, Fields
<1> HIDE DEF v
<1>8. /\ v.jobs = x.jobs /\ v.negotiating = x.negotiating /\ v.revision = x.revision
      /\ v.gather = x.gather /\ v.post = x.post
  BY <1>7 DEF Fields
<1>9. Apart(x, v)
  <2>1. \A f \in (HandshakeFields \ {"needed"}) \cup {"net", "open", "down"} : v[f] = x[f]
    BY <1>7 DEF Fields, HandshakeFields
  <2> QED
    BY <1>2, <1>4, <1>5, <1>7, <1>8, <2>1 DEF Apart
<1>10. /\ Talk(y, game[e], bulk[e], end[p], game[p], bulk[p]) /\ Counts(y) /\ Waits(y)
       /\ Settles(v, y) /\ y.jobs = v.jobs
  BY <1>2, <1>9, TalkChanged
<1> HIDE DEF y
<1>11. y.jobs # <<>>
  BY <1>2, <1>8, <1>10
<1>12. /\ Talk(z, game[e], bulk[e], end[p], game[p], bulk[p]) /\ Counts(z) /\ Waits(z)
       /\ z.jobs = Tail(y.jobs) /\ z.stage = "idle" /\ Settles(y, z)
  BY <1>10, <1>11, TalkFinished
<1> HIDE DEF z
<1>13. /\ z.jobs = Tail(x.jobs) /\ z.signaling = "stable" /\ z.revision = x.revision
       /\ z.offered = 0 /\ z.seen = m.revision /\ z.current = d /\ z.retries = 0
       /\ z.negotiating = x.negotiating /\ z.post = <<>>
  BY <1>2, <1>7, <1>8, <1>10, <1>12 DEF Settles
<1>14. Link(e, z, s, p, end[p], signals[p], Lossless)
  <2>1. z.current = [offerer |-> e, revision |-> x.offered]
    BY <1>6, <1>13
  <2> QED
    BY <1>2, <1>3, <1>12, <1>13, <2>1, LinkAnswered DEF m
<1>15. z.post \in Seq(Signal) /\ signals[p] \o z.post = signals[p]
  BY <1>2, <1>13
<1> QED
  BY <1>1, <1>12, <1>14, <1>15, JobGoesOn DEF p, s

\* setLocalDescription has settled for an answer, and the answer is sent.
LEMMA InvFinishAnswer ==
  ASSUME Inv, NEW e \in Ends, FinishJob(e), end[e].stage = "answer"
  PROVE  Inv'
<1> DEFINE p == Peer(e)
           x == end[e]
           s == signals[e]
           m == Head(x.jobs)
           d == [offerer |-> p, revision |-> m.revision]
           v == [x EXCEPT !.signaling = "stable", !.gather = gathered(x),
                          !.restart = @ /\ m.reply = 0, !.current = d]
           y == stateChanged(v)
           a == Description("answer", x.revision, m.revision)
           w == [y EXCEPT !.post = Append(@, a)]
           z == done(trySendHello(takeEarly(w)))
<1>1. /\ Up(e) /\ Install(e, IF ~Alive(y) THEN y ELSE z, s, game[e])
      /\ troubles' = troubles
  BY DEF FinishJob, Reacts, finishAnswer
<1>2. /\ Typed(x) /\ Flags(x) /\ DOMAIN x = Fields /\ Shape(x) /\ Works(e, x)
      /\ x.jobs \in Seq(Signal) /\ x.jobs # <<>> /\ x.post = <<>>
      /\ Context(e, x, s, p, end[p], signals[p])
      /\ Link(e, x, s, p, end[p], signals[p], Lossless)
      /\ Talk(x, game[e], bulk[e], end[p], game[p], bulk[p]) /\ Counts(x)
      /\ x.revision \in Nat /\ x.negotiating \in BOOLEAN /\ x.offered \in Nat
      /\ x.seen \in Nat /\ x.retries \in Nat /\ gathered(x) \in Nat
  BY <1>1, JobContext
<1>3. x.stage = "answer"
  OBVIOUS
<1>4. m \in Signal /\ m.revision \in Nat /\ m.revision > 0
  <2>1. m \in Signal
    BY <1>2, TailIndex
  <2>2. IsDescription(m)
    BY <1>2, <1>3 DEF Works, IsDescription
  <2>3. m.revision > 0
    <3> HIDE DEF p, x, s, m
    <3> QED
      BY <1>2, <2>2, NextDescription DEF m
  <2> QED
    BY <2>1, <2>3 DEF Signal
<1>5. d # NoSession
  <2>1. d.revision # 0
    BY <1>4
  <2>2. NoSession.revision = 0
    BY DEF NoSession
  <2> HIDE DEF d
  <2> QED
    BY <2>1, <2>2
<1>6. d = [offerer |-> p, revision |-> m.revision]
  OBVIOUS
<1>7. a \in Signal
  BY <1>2, <1>4 DEF Description, Signal, Kinds
<1>8. a = Description("answer", x.revision, m.revision)
  OBVIOUS
<1> HIDE DEF p, s, m, x, d, a
<1>9. /\ Shape(v) /\ v.signaling = "stable" /\ v.gather = gathered(x) /\ v.current = d
      /\ \A f \in Fields \ {"signaling", "gather", "restart", "current"} : v[f] = x[f]
  BY <1>2, ZenonT(60) DEF Shape, Fields
<1> HIDE DEF v
<1>10. /\ v.jobs = x.jobs /\ v.negotiating = x.negotiating /\ v.revision = x.revision
       /\ v.offered = x.offered /\ v.seen = x.seen /\ v.retries = x.retries
       /\ v.post = x.post
  BY <1>9 DEF Fields
<1>11. Apart(x, v)
  <2>1. \A f \in (HandshakeFields \ {"needed"}) \cup {"net", "open", "down"} : v[f] = x[f]
    BY <1>9 DEF Fields, HandshakeFields
  <2> QED
    BY <1>2, <1>5, <1>9, <1>10, <2>1 DEF Apart
<1>12. /\ Talk(y, game[e], bulk[e], end[p], game[p], bulk[p]) /\ Counts(y) /\ Waits(y)
       /\ Settles(v, y) /\ y.jobs = v.jobs /\ Alive(y) /\ y.gather = v.gather
  <2>1. Talk(x, game[e], bulk[e], end[p], game[p], bulk[p]) /\ Counts(x)
    BY <1>2
  <2> QED
    BY <1>11, <2>1, TalkChanged
<1> HIDE DEF y
<1>13. DOMAIN y = Fields /\ Flags(y) /\ y.post = <<>>
  BY <1>2, <1>10, <1>12 DEF Settles, Talk, Typed, Shape
<1>14. <<a>> \in Seq(Signal) /\ Append(<<>>, a) = <<a>>
  BY <1>7, OneMorePost
<1>15. Shape(w) /\ w.post = <<a>> /\ \A f \in Fields \ {"post"} : w[f] = y[f]
  <2>1. w = [y EXCEPT !.post = <<a>>]
    BY <1>13, <1>14
  <2> HIDE DEF w
  <2> QED
    BY <1>13, <2>1 DEF Shape, Fields
<1> HIDE DEF w
<1>16. /\ w.signaling = y.signaling /\ w.current = y.current /\ w.revision = y.revision
       /\ w.seen = y.seen /\ w.jobs = y.jobs /\ w.gather = y.gather
       /\ w.offered = y.offered /\ w.retries = y.retries /\ w.negotiating = y.negotiating
  BY <1>15 DEF Fields
<1>17. Apart(y, w)
  <2>1. \A f \in (HandshakeFields \ {"needed"}) \cup {"net", "open", "down"} : w[f] = y[f]
    BY <1>15 DEF Fields, HandshakeFields
  <2>2. y.open => w.current # NoSession
    BY <1>13, <1>16 DEF Flags
  <2>3. /\ w.gather \in Nat /\ w.revision \in Nat /\ w.offered \in Nat /\ w.seen \in Nat
        /\ w.retries \in Nat /\ w.negotiating \in BOOLEAN /\ w.jobs \in Seq(Signal)
    BY <1>2, <1>9, <1>10, <1>12, <1>16 DEF Settles
  <2> QED
    BY <1>15, <2>1, <2>2, <2>3 DEF Apart
<1>18. Talk(w, game[e], bulk[e], end[p], game[p], bulk[p]) /\ Counts(w) /\ Waits(w)
  BY <1>12, <1>16, <1>17, TalkApart
<1>19. w.jobs # <<>> /\ w.jobs = x.jobs
  BY <1>2, <1>10, <1>12, <1>16
<1>20. /\ Talk(z, game[e], bulk[e], end[p], game[p], bulk[p]) /\ Counts(z) /\ Waits(z)
       /\ z.jobs = Tail(w.jobs) /\ z.stage = "idle" /\ Settles(w, z)
  BY <1>18, <1>19, TalkFinished
<1> HIDE DEF z
<1>21. /\ z.jobs = Tail(x.jobs) /\ z.signaling = "stable" /\ z.revision = x.revision
       /\ z.offered = x.offered /\ z.seen = x.seen /\ z.current = d
       /\ z.retries = x.retries /\ z.negotiating = x.negotiating /\ z.post = <<a>>
  BY <1>9, <1>10, <1>12, <1>15, <1>16, <1>19, <1>20 DEF Settles
<1>22. Link(e, z, s, p, end[p], signals[p] \o <<a>>, Lossless)
  <2>1. z.current = [offerer |-> p, revision |-> Head(x.jobs).revision]
    BY <1>6, <1>21 DEF m
  <2>2. a = Description("answer", x.revision, Head(x.jobs).revision)
    BY <1>8 DEF m
  <2> QED
    BY <1>2, <1>3, <1>20, <1>21, <2>1, <2>2, LinkAnswer
<1>23. Install(e, z, s, game[e])
  BY <1>1, <1>12
<1> QED
  BY <1>1, <1>14, <1>20, <1>21, <1>22, <1>23, JobGoesOn DEF p, s

\* Every await of a job that settles keeps the invariant.
LEMMA InvFinishJob ==
  ASSUME Inv, NEW e \in Ends, FinishJob(e)
  PROVE  Inv'
<1>1. Up(e) /\ end[e].stage # "idle"
  BY DEF FinishJob
<1>2. Works(e, end[e])
  BY <1>1, JobContext
<1>3. end[e].stage \in {"offer", "remote", "answer"}
  BY <1>1, <1>2 DEF Works
<1> QED
  BY <1>3, InvFinishOffer, InvFinishAccept, InvFinishAnswered, InvFinishAnswer

-----------------------------------------------------------------------------
(* The invariant holds. *)

\* Nothing is on its way to an end that is new.
LEMMA NothingNew ==
  /\ In(NewEnd, <<>>) = {} /\ Count(NewEnd.jobs) = 0 /\ Count(<<>>) = 0
  /\ Sorted(NewEnd.jobs, <<>>) /\ NewEnd.jobs = <<>>
<1>1. NewEnd.jobs = <<>> /\ <<>> \in Seq(Signal) /\ Len(<<>>) = 0
  BY DEF NewEnd
<1>2. In(NewEnd, <<>>) = {}
  <2>1. ToSet(<<>>) = {}
    BY DEF ToSet
  <2>2. In(NewEnd, <<>>) = {m \in ToSet(<<>>) \cup ToSet(<<>>) : IsDescription(m)}
    BY <1>1 DEF In, Descriptions
  <2> QED
    BY <2>1, <2>2
<1>3. Count(<<>>) = 0
  <2>1. Firsts(<<>>) = {}
    BY <1>1 DEF Firsts
  <2> QED
    BY <1>1, <2>1, CountIsNat, FS_EmptySet
<1>4. Sorted(<<>>, <<>>)
  BY <1>1 DEF Sorted, Ordered
<1> QED
  BY <1>1, <1>2, <1>3, <1>4

\* An end that is new is sound, and so are its empty channels.
LEMMA NewEndIs ==
  /\ Typed(NewEnd) /\ Silent(NewEnd) /\ Flags(NewEnd) /\ Counts(NewEnd) /\ Waits(NewEnd)
  /\ Channel(NewEnd, NewEnd, <<>>, 0) /\ Alive(NewEnd)
<1>1. Shape(NewEnd)
  BY DEF Shape, Fields, NewEnd
<1>2. NewEnd.jobs \in Seq(Signal)
  BY DEF NewEnd
<1>3. Typed(NewEnd)
  BY <1>1, <1>2 DEF Typed, NewEnd
<1>4. Silent(NewEnd) /\ Flags(NewEnd) /\ Counts(NewEnd) /\ Waits(NewEnd) /\ Alive(NewEnd)
  BY DEF NewEnd, Silent, Flags, Counts, Waits, Alive
<1>5. Channel(NewEnd, NewEnd, <<>>, 0)
  BY DEF NewEnd, Channel, Heard
<1> QED
  BY <1>3, <1>4, <1>5

\* Two new ends have nothing to agree on yet.
LEMMA NewEndOwns ==
  ASSUME NEW e, NEW l
  PROVE  Own(e, NewEnd, <<>>) /\ Pair(e, NewEnd, <<>>, NewEnd, <<>>, l)
<1>1. /\ NewEnd.signaling = "stable" /\ NewEnd.stage = "idle" /\ NewEnd.offered = 0
      /\ NewEnd.revision = 0 /\ NewEnd.seen = 0 /\ NewEnd.retries = 0
      /\ NewEnd.jobs = <<>>
  BY DEF NewEnd
<1>2. OfferRetries \in Nat
  BY Limits
<1> DEFINE n == NewEnd
           A == In(n, <<>>)
<1>3. /\ A = {} /\ Count(n.jobs) = 0 /\ Count(<<>>) = 0 /\ Sorted(n.jobs, <<>>)
      /\ Offers(A) = {} /\ Answers(A) = {}
  BY NothingNew DEF Offers, Answers
<1> HIDE DEF n, A
<1>4. Works(e, n) /\ Queue(n)
  BY <1>1 DEF Works, Queue, n
<1>5. Known(e, n, A)
  BY <1>3 DEF Known
<1>6. Own(e, n, <<>>)
  BY <1>2, <1>3, <1>4, <1>5 DEF Own, A
<1>7. Toward(e, n, A, n, A, l)
  <2>1. Sent(n, A, n) /\ Outstanding(e, n, A, n) /\ Answered(e, n, A, n, A)
        /\ Answering(n, n) /\ Agree(n, A, n, A)
    BY <1>1, <1>3 DEF Sent, Sending, Outstanding, Answered, Answering, Agree, n
  <2>2. Served(e, n, A, n, A)
    BY <1>1 DEF Served, n
  <2> QED
    BY <2>1, <2>2 DEF Toward
<1>8. Pair(e, n, <<>>, n, <<>>, l)
  BY <1>1, <1>2, <1>3, <1>7 DEF Pair, A, n
<1> QED
  BY <1>6, <1>8 DEF n

\* The invariant holds at first,
LEMMA InitInv == Init => Inv
<1> SUFFICES ASSUME Init PROVE Inv
  OBVIOUS
<1>1. /\ \A e \in Ends : /\ end[e] = NewEnd /\ signals[e] = <<>> /\ game[e] = <<>>
                         /\ bulk[e] = 0 /\ Peer(e) \in Ends
      /\ DOMAIN end = Ends
  BY TwoPeers DEF Init
<1>2. TypeOK
  BY DEF Init, TypeOK
<1>3. ASSUME NEW e \in Ends
      PROVE  Up(e) /\ Living(e)
  <2>1. /\ end[e] = NewEnd /\ end[Peer(e)] = NewEnd /\ signals[e] = <<>>
        /\ signals[Peer(e)] = <<>> /\ game[e] = <<>> /\ bulk[e] = 0
    BY <1>1, <1>3
  <2> QED
    BY <2>1, NewEndIs, NewEndOwns DEF Up, Living
<1> QED
  BY <1>2, <1>3 DEF Inv

\* and every step, of an end or of what is between them, preserves it.
LEMMA NextInv == Inv /\ [Next]_vars => Inv'
<1> SUFFICES ASSUME Inv, [Next]_vars PROVE Inv'
  OBVIOUS
<1>1. CASE UNCHANGED vars
  BY <1>1 DEF vars, Inv, TypeOK, Living, Closed, Up
<1>2. CASE Next
  <2>1. PICK e \in Ends :
          \/ NegotiationNeeded(e) \/ StartJob(e) \/ FinishJob(e) \/ ReceiveSignal(e)
          \/ IceCandidate(e) \/ RetryOffer(e) \/ OpenChannels(e) \/ ReceiveControl(e)
          \/ ReceiveBulk(e) \/ Ping(e) \/ Disconnected(e) \/ Reconnected(e) \/ GraceEnds(e)
          \/ LoseSignal(e) \/ SendFails(e) \/ Vanish(e) \/ DeadlinePasses(e)
          \/ ChannelClosed(e)
    BY <1>2 DEF Next
  <2>2. CASE NegotiationNeeded(e)
    BY <2>2, InvNegotiationNeeded
  <2>3. CASE StartJob(e)
    BY <2>3, InvStartJob
  <2>4. CASE FinishJob(e)
    BY <2>4, InvFinishJob
  <2>5. CASE ReceiveSignal(e)
    BY <2>5, InvReceiveSignal
  <2>6. CASE IceCandidate(e)
    BY <2>6, InvIceCandidate
  <2>7. CASE RetryOffer(e)
    BY <2>7, InvRetryOffer
  <2>8. CASE OpenChannels(e)
    BY <2>8, InvOpenChannels
  <2>9. CASE ReceiveControl(e)
    BY <2>9, InvReceiveControl
  <2>10. CASE ReceiveBulk(e)
    BY <2>10, InvReceiveBulk
  <2>11. CASE Ping(e)
    BY <2>11, InvPing
  <2>12. CASE Disconnected(e)
    BY <2>12, InvDisconnected
  <2>13. CASE Reconnected(e)
    BY <2>13, InvReconnected
  <2>14. CASE GraceEnds(e)
    BY <2>14, InvGraceEnds
  <2>15. CASE LoseSignal(e)
    BY <2>15, InvLoseSignal
  <2>16. CASE SendFails(e)
    BY <2>16, InvSendFails
  <2>17. CASE Vanish(e) \/ DeadlinePasses(e) \/ ChannelClosed(e)
    BY <2>17, InvEnds
  <2> QED
    BY <2>1, <2>2, <2>3, <2>4, <2>5, <2>6, <2>7, <2>8, <2>9, <2>10, <2>11, <2>12, <2>13,
       <2>14, <2>15, <2>16, <2>17
<1> QED
  BY <1>1, <1>2

\* The inductive invariant.
THEOREM PeerLinkInvariant == Spec => []Inv
<1> QED
  BY InitInv, NextInv, PTL DEF Spec

\* Whatever the order in which descriptions, candidates and messages arrive, and
\* whatever is lost, no end closes the link over what the other one sent: no
\* description is one too many, no HELLO comes before its HELLO_INIT, no data before
\* authentication, and only a peer that is gone misses three answers.
THEOREM HonestEnds == Spec => []HonestEndsNeverAccuse
<1>1. Inv => HonestEndsNeverAccuse
  <2> SUFFICES ASSUME Inv, NEW e \in Ends
               PROVE  /\ end[e].down \in {"no", "vanished", "signal-error", "timeout",
                             "channel-closed", "disconnected-timeout", "ping-timeout"}
                      /\ end[e].down = "ping-timeout" => ~Up(Peer(e))
    BY DEF HonestEndsNeverAccuse
  <2>1. CASE Up(e)
    BY <2>1 DEF Up, Alive
  <2>2. CASE ~Up(e)
    BY <2>2 DEF Inv, Closed, Reasons
  <2> QED
    BY <2>1, <2>2
<1> QED
  BY <1>1, PeerLinkInvariant, PTL

\* Perfect negotiation: while no signal is lost and once nothing is left to apply, both
\* ends are stable on the same pair of descriptions, however their offers collided.
THEOREM SettledEnds == Spec => []SettledEndsAgree
<1>1. Inv => SettledEndsAgree
  <2> SUFFICES ASSUME Inv, "lost" \notin troubles, Settled, \A e \in Ends : Up(e),
                      NEW e \in Ends
               PROVE  end[e].signaling = "stable" /\ end[e].current = end[Peer(e)].current
    BY DEF SettledEndsAgree
  <2>1. Peer(e) \in Ends /\ Peer(e) # e /\ Peer(Peer(e)) = e
    BY TwoPeers
  <2>2. ASSUME NEW q \in Ends
        PROVE  /\ end[q].stage = "idle" /\ end[q].signaling \in {"stable", "local"}
               /\ (end[q].signaling = "stable" <=> end[q].offered = 0)
               /\ end[q].seen \in Nat /\ end[q].offered \in Nat
               /\ In(end[q], signals[q]) = {}
               /\ Toward(q, end[q], In(end[q], signals[q]), end[Peer(q)],
                         In(end[Peer(q)], signals[Peer(q)]), TRUE)
    <3>1. /\ Typed(end[q]) /\ Works(q, end[q]) /\ signals[q] \in Seq(Signal)
          /\ end[q].jobs = <<>> /\ \A m \in ToSet(signals[q]) : ~IsDescription(m)
          /\ Toward(q, end[q], In(end[q], signals[q]), end[Peer(q)],
                    In(end[Peer(q)], signals[Peer(q)]), "lost" \notin troubles)
      <4>1. Alive(end[Peer(q)])
        BY TwoPeers DEF Up
      <4> QED
        BY <4>1 DEF Inv, Living, TypeOK, Settled, Own, Pair
    <3>2. In(end[q], signals[q]) = {}
      <4>1. ToSet(<<>>) = {}
        BY DEF ToSet
      <4>2. In(end[q], signals[q])
              = {m \in ToSet(<<>>) \cup ToSet(signals[q]) : IsDescription(m)}
        BY <3>1 DEF In, Descriptions
      <4> QED
        BY <3>1, <4>1, <4>2
    <3>3. end[q].seen \in Nat /\ end[q].offered \in Nat
      BY <3>1 DEF Typed
    <3> QED
      BY <3>1, <3>2, <3>3 DEF Works
  <2> DEFINE x == end[e]
             p == Peer(e)
             y == end[p]
  <2>3. /\ x.stage = "idle" /\ y.stage = "idle" /\ x.seen \in Nat /\ y.seen \in Nat
        /\ x.offered \in Nat /\ y.offered \in Nat
        /\ Toward(e, x, {}, y, {}, TRUE) /\ Toward(p, y, {}, x, {}, TRUE)
    BY <2>1, <2>2
  <2>4. x.signaling = "stable" <=> x.offered = 0
    BY <2>2
  <2>5. e # p
    BY <2>1
  <2> HIDE DEF x, y, p
  <2>6. Offers({}) = {} /\ Answers({}) = {}
    BY DEF Offers, Answers
  <2>7. /\ x.offered # 0 => e = Polite /\ y.offered > x.seen
        /\ y.offered # 0 => p = Polite /\ x.offered > y.seen
    BY <2>3, <2>6 DEF Toward, Served
  <2>8. x.offered = 0
    BY <2>3, <2>5, <2>7
  <2>9. x.current = y.current
    BY <2>3, <2>6 DEF Toward, Agree
  <2> QED
    BY <2>4, <2>8, <2>9 DEF x, y, p
<1> QED
  BY <1>1, PeerLinkInvariant, PTL
=============================================================================
