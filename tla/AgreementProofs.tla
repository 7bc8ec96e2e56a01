-------------------------- MODULE AgreementProofs --------------------------
(***************************************************************************)
(* Proofs about Agreement, for every finite set of voters with at most the *)
(* tolerated number of Byzantine ones, every set of values and every set   *)
(* of rounds.                                                              *)
(***************************************************************************)
EXTENDS Agreement, FiniteSetTheorems, TLAPS

(***************************************************************************)
(* Certificates.                                                           *)
(***************************************************************************)

\* The sizes votes.ts chooses: two certificates of n voters overlap in more
\* seats than the number of Byzantine voters that consensus.ts tolerates.
LEMMA QuorumSizes ==
    ASSUME NEW n \in Nat, n > 0
    PROVE  /\ quorumSize(n) \in Nat
           /\ 2 * quorumSize(n) > n + tolerated(n)
BY DEF quorumSize, tolerated

\* Any two certificates of the same membership share an honest signer.
THEOREM QuorumIntersection ==
    ASSUME NEW Q1 \in Quorums, NEW Q2 \in Quorums
    PROVE  \E s \in Q1 \cap Q2 : s \in Honest
<1> DEFINE n == Cardinality(Voters)
<1>1. Q1 \subseteq Voters /\ Q2 \subseteq Voters
  BY DEF Quorums, Certificates
<1>2. /\ IsFiniteSet(Q1) /\ IsFiniteSet(Q2) /\ IsFiniteSet(Q1 \cup Q2)
      /\ IsFiniteSet(Q1 \cap Q2) /\ IsFiniteSet(Byzantine)
      /\ Cardinality(Q1 \cup Q2) <= n
  <2>1. Q1 \cup Q2 \in SUBSET Voters /\ Q1 \cap Q2 \in SUBSET Voters
    BY <1>1
  <2> QED
    BY <1>1, <2>1, VotersAssumption, FS_Subset
<1>3. n \in Nat /\ n > 0
  BY VotersAssumption, FS_CardinalityType, FS_EmptySet
<1>4. /\ Cardinality(Q1) \in Nat /\ Cardinality(Q2) \in Nat
      /\ Cardinality(Q1 \cup Q2) \in Nat /\ Cardinality(Q1 \cap Q2) \in Nat
      /\ Cardinality(Byzantine) \in Nat
  BY <1>2, FS_CardinalityType
<1>5. Cardinality(Q1 \cup Q2) =
         Cardinality(Q1) + Cardinality(Q2) - Cardinality(Q1 \cap Q2)
  BY <1>2, FS_Union
<1>6. Cardinality(Q1) >= quorumSize(n) /\ Cardinality(Q2) >= quorumSize(n)
  BY DEF Quorums, Certificates
<1>7. quorumSize(n) \in Nat /\ 2 * quorumSize(n) > n + tolerated(n)
  BY <1>3, QuorumSizes
<1>8. tolerated(n) \in Nat /\ Cardinality(Byzantine) <= tolerated(n)
  BY VotersAssumption DEF tolerated
<1> HIDE DEF n
<1>9. Cardinality(Q1 \cap Q2) > Cardinality(Byzantine)
  BY <1>2, <1>3, <1>4, <1>5, <1>6, <1>7, <1>8
<1>10. ~(Q1 \cap Q2 \subseteq Byzantine)
  <2> SUFFICES ASSUME Q1 \cap Q2 \subseteq Byzantine
               PROVE  FALSE
    OBVIOUS
  <2>1. Cardinality(Q1 \cap Q2) <= Cardinality(Byzantine)
    BY <1>2, FS_Subset
  <2> QED
    BY <2>1, <1>4, <1>9
<1> QED
  BY <1>1, <1>10 DEF Honest

(***************************************************************************)
(* What one step of a voter may change.                                    *)
(***************************************************************************)

\* The step of voter s that ends in round r: Step without its quantifier.
StepTo(s, r) ==
    /\ r >= round[s]
    /\ round' = [round EXCEPT ![s] = r]
    /\ Prevote(s, r)
    /\ Precommit(s, r)
    /\ Decide(s)

\* A step keeps the types, and it changes the votes of no other voter, of no
\* other round, and no vote that is already cast.
LEMMA StepFrame ==
    ASSUME TypeOK, NEW s \in Honest, NEW r \in Rounds, StepTo(s, r)
    PROVE  /\ TypeOK'
           /\ \A t \in Honest : round'[t] = IF t = s THEN r ELSE round[t]
           /\ \A t \in Honest : round[t] \in Nat /\ round'[t] \in Nat /\ round'[t] >= round[t]
           /\ \A t \in Honest : t # s =>
                 /\ lockRound'[t] = lockRound[t]
                 /\ lockValue'[t] = lockValue[t]
                 /\ decision'[t] = decision[t]
           /\ \A t \in Honest, x \in Rounds :
                 \/ t = s /\ x = r
                 \/ prevote'[t][x] = prevote[t][x] /\ precommit'[t][x] = precommit[t][x]
           /\ \A t \in Honest, x \in Rounds :
                 /\ prevote[t][x] # None => prevote'[t][x] = prevote[t][x]
                 /\ precommit[t][x] # None => precommit'[t][x] = precommit[t][x]
<1> USE DEF StepTo
<1>1. round' \in [Honest -> Rounds] /\ \A t \in Honest : round'[t] = IF t = s THEN r ELSE round[t]
  BY DEF TypeOK
<1>2. /\ prevote' \in [Honest -> [Rounds -> Ballots]]
      /\ \A t \in Honest, x \in Rounds :
            \/ t = s /\ x = r
            \/ prevote'[t][x] = prevote[t][x]
      /\ \A t \in Honest, x \in Rounds :
            prevote[t][x] # None => prevote'[t][x] = prevote[t][x]
  <2>1. \/ prevote' = prevote
        \/ /\ prevote[s][r] = None
           /\ \E ballot \in Ballots : prevote' = [prevote EXCEPT ![s][r] = ballot]
    BY DEF Prevote, Ballots
  <2>2. prevote \in [Honest -> [Rounds -> Ballots]]
    BY DEF TypeOK
  <2> QED
    BY <2>1, <2>2
<1>3. /\ precommit' \in [Honest -> [Rounds -> Ballots]]
      /\ \A t \in Honest, x \in Rounds :
            \/ t = s /\ x = r
            \/ precommit'[t][x] = precommit[t][x]
      /\ \A t \in Honest, x \in Rounds :
            precommit[t][x] # None => precommit'[t][x] = precommit[t][x]
  <2>1. \/ precommit' = precommit
        \/ /\ precommit[s][r] = None
           /\ \E ballot \in Ballots : precommit' = [precommit EXCEPT ![s][r] = ballot]
    BY DEF Precommit, Ballots
  <2>2. precommit \in [Honest -> [Rounds -> Ballots]]
    BY DEF TypeOK
  <2> QED
    BY <2>1, <2>2
<1>4. /\ lockRound' \in [Honest -> Rounds \cup {0}]
      /\ lockValue' \in [Honest -> Values \cup {None}]
      /\ \A t \in Honest : t # s =>
            /\ lockRound'[t] = lockRound[t]
            /\ lockValue'[t] = lockValue[t]
  <2>1. \/ UNCHANGED <<lockRound, lockValue>>
        \/ \E value \in Values :
              /\ lockRound' = [lockRound EXCEPT ![s] = r]
              /\ lockValue' = [lockValue EXCEPT ![s] = value]
    BY DEF Precommit
  <2> QED
    BY <2>1 DEF TypeOK
<1>5. /\ decision' \in [Honest -> Values \cup {None}]
      /\ \A t \in Honest : t # s => decision'[t] = decision[t]
  BY DEF TypeOK, Decide
<1>6. \A t \in Honest : round[t] \in Nat /\ round'[t] \in Nat /\ round'[t] >= round[t]
  <2>1. \A t \in Honest : round[t] \in Nat
    BY ValuesAssumption DEF TypeOK
  <2>2. r \in Nat /\ r >= round[s]
    BY ValuesAssumption
  <2> HIDE DEF StepTo
  <2> QED
    BY <1>1, <2>1, <2>2
<1> QED
  BY <1>1, <1>2, <1>3, <1>4, <1>5, <1>6 DEF TypeOK

\* A lock round is a number: a round, or zero without a lock.
LEMMA LockRoundType ==
    ASSUME TypeOK, NEW s \in Honest
    PROVE  /\ lockRound[s] \in Nat
           /\ lockRound[s] \in Rounds \/ lockRound[s] = 0
<1>1. lockRound[s] \in Rounds \/ lockRound[s] = 0
  BY DEF TypeOK
<1>2. CASE lockRound[s] \in Rounds
  BY <1>2, ValuesAssumption
<1>3. CASE lockRound[s] = 0
  BY <1>3
<1> QED
  BY <1>1, <1>2, <1>3

\* A certificate, once it exists, exists for ever.
LEMMA CertificatesPersist ==
    ASSUME TypeOK, NEW s \in Honest, NEW r \in Rounds, StepTo(s, r),
           NEW x \in Rounds, NEW value \in Values
    PROVE  /\ Certifies(prevote, x, value) => Certifies(prevote', x, value)
           /\ Certifies(precommit, x, value) => Certifies(precommit', x, value)
           /\ x # r => (Certifies(prevote', x, value) => Certifies(prevote, x, value))
<1>1. \A Q \in Quorums : Q \ Byzantine \subseteq Honest
  BY DEF Quorums, Certificates, Honest
<1>2. value # None
  BY ValuesAssumption
<1> QED
  BY <1>1, <1>2, StepFrame DEF Certifies

\* Two certificates of one round agree, because an honest signer has one vote.
LEMMA OneCertificatePerRound ==
    ASSUME NEW r \in Rounds, NEW v \in Values, NEW w \in Values,
           \/ Certifies(prevote, r, v) /\ Certifies(prevote, r, w)
           \/ Certifies(precommit, r, v) /\ Certifies(precommit, r, w)
    PROVE  v = w
BY QuorumIntersection DEF Certifies, Honest

\* A certificate has an honest signer.
LEMMA HonestSigner ==
    ASSUME NEW r \in Rounds, NEW v \in Values, Certifies(precommit, r, v)
    PROVE  \E s \in Honest : precommit[s][r] = v
BY QuorumIntersection DEF Certifies, Honest

(***************************************************************************)
(* The inductive invariant, one lemma per conjunct that needs an argument. *)
(***************************************************************************)

\* The initial state has no votes, no locks and no decisions.
LEMMA InitInv == Init => IndInv
<1> SUFFICES ASSUME Init PROVE IndInv
  OBVIOUS
<1>1. TypeOK
  BY ValuesAssumption DEF Init, TypeOK, Ballots
<1>2. VotesAreBehindRound /\ PrecommitIsLocked /\ SwitchIsJustified
  BY ValuesAssumption DEF Init, VotesAreBehindRound, PrecommitIsLocked, SwitchIsJustified
<1>3. LockIsCertified /\ DecisionIsCertified
  BY DEF Init, LockIsCertified, DecisionIsCertified
<1>4. CertificateIsSafe
  <2>1. \A r \in Rounds, w \in Values : ~Certifies(prevote, r, w)
    BY QuorumIntersection, ValuesAssumption DEF Init, Certifies, Honest
  <2> QED
    BY <2>1 DEF CertificateIsSafe
<1> QED
  BY <1>1, <1>2, <1>3, <1>4 DEF IndInv

\* Votes are cast in the round the step ends in, the prevote first.
LEMMA BehindRoundStep ==
    ASSUME IndInv, NEW s \in Honest, NEW r \in Rounds, StepTo(s, r)
    PROVE  VotesAreBehindRound'
<1>1. TypeOK /\ VotesAreBehindRound
  BY DEF IndInv
<1>2. precommit'[s][r] = precommit[s][r] \/ prevote'[s][r] # None
  BY <1>1 DEF StepTo, Precommit, TypeOK
<1>3. Rounds \subseteq Nat /\ round \in [Honest -> Rounds] /\ r >= round[s]
  BY <1>1, ValuesAssumption DEF TypeOK, StepTo
<1>4. ASSUME NEW t \in Honest, NEW x \in Rounds
      PROVE  /\ x > round'[t] => prevote'[t][x] = None /\ precommit'[t][x] = None
             /\ precommit'[t][x] # None => prevote'[t][x] # None
  <2>1. CASE t = s /\ x = r
    BY <1>1, <1>2, <1>3, <2>1, StepFrame DEF VotesAreBehindRound
  <2>2. CASE ~(t = s /\ x = r)
    <3>1. prevote'[t][x] = prevote[t][x] /\ precommit'[t][x] = precommit[t][x]
      BY <1>1, <2>2, StepFrame
    <3>2. x > round'[t] => x > round[t]
      BY <1>1, <1>3, StepFrame
    <3> QED
      BY <1>1, <3>1, <3>2 DEF VotesAreBehindRound
  <2> QED
    BY <2>1, <2>2
<1> QED
  BY <1>4 DEF VotesAreBehindRound

\* What a step does to the lock of its voter: nothing, or it takes a certified
\* value of the round it ends in, in which it had not precommitted yet.
LEMMA LockStep ==
    ASSUME IndInv, NEW s \in Honest, NEW r \in Rounds, StepTo(s, r)
    PROVE  \/ /\ lockRound'[s] = lockRound[s]
              /\ lockValue'[s] = lockValue[s]
              /\ precommit'[s][r] \in {precommit[s][r], Nil}
           \/ /\ lockRound'[s] = r
              /\ lockValue'[s] \in Values
              /\ Certifies(prevote', r, lockValue'[s])
              /\ precommit[s][r] = None
              /\ precommit'[s][r] \in {lockValue'[s], Nil}
<1>1. TypeOK
  BY DEF IndInv
<1>2. CASE UNCHANGED <<precommit, lockRound, lockValue>>
  BY <1>2
<1>3. CASE /\ precommit' = [precommit EXCEPT ![s][r] = Nil]
           /\ UNCHANGED <<lockRound, lockValue>>
  <2>1. precommit \in [Honest -> [Rounds -> Ballots]]
    BY <1>1 DEF TypeOK
  <2> QED
    BY <1>3, <2>1
<1>4. CASE /\ precommit[s][r] = None
           /\ \E value \in {v \in Values : Certifies(prevote', r, v)} :
                 /\ lockRound' = [lockRound EXCEPT ![s] = r]
                 /\ lockValue' = [lockValue EXCEPT ![s] = value]
                 /\ \E ballot \in {value, Nil} :
                       precommit' = [precommit EXCEPT ![s][r] = ballot]
  <2>1. PICK value \in Values :
            /\ Certifies(prevote', r, value)
            /\ lockRound' = [lockRound EXCEPT ![s] = r]
            /\ lockValue' = [lockValue EXCEPT ![s] = value]
            /\ \E ballot \in {value, Nil} :
                  precommit' = [precommit EXCEPT ![s][r] = ballot]
    BY <1>4
  <2>2. lockRound'[s] = r /\ lockValue'[s] = value
    BY <1>1, <2>1 DEF TypeOK
  <2>3. precommit'[s][r] \in {value, Nil}
    <3>1. precommit \in [Honest -> [Rounds -> Ballots]]
      BY <1>1 DEF TypeOK
    <3> QED
      BY <2>1, <3>1
  <2> QED
    BY <1>4, <2>1, <2>2, <2>3
<1> QED
  BY <1>2, <1>3, <1>4 DEF StepTo, Precommit

\* A lock is certified and its round is one the owner has precommitted in.
LEMMA LockIsCertifiedStep ==
    ASSUME IndInv, NEW s \in Honest, NEW r \in Rounds, StepTo(s, r)
    PROVE  LockIsCertified'
<1>1. TypeOK /\ LockIsCertified /\ TypeOK'
  BY StepFrame DEF IndInv
<1>2. SUFFICES ASSUME NEW t \in Honest
               PROVE  /\ (lockRound'[t] = 0) <=> (lockValue'[t] = None)
                      /\ lockRound'[t] # 0 =>
                            /\ lockRound'[t] <= round'[t]
                            /\ precommit'[t][lockRound'[t]] # None
                            /\ Certifies(prevote', lockRound'[t], lockValue'[t])
  BY DEF LockIsCertified
<1>3. CASE /\ lockRound'[t] = lockRound[t]
           /\ lockValue'[t] = lockValue[t]
  <2>1. lockRound[t] \in Rounds \cup {0} /\ lockValue[t] \in Values \cup {None}
    BY <1>1 DEF TypeOK
  <2>2. /\ (lockRound[t] = 0) <=> (lockValue[t] = None)
        /\ lockRound[t] # 0 =>
              /\ lockRound[t] <= round[t]
              /\ precommit[t][lockRound[t]] # None
              /\ Certifies(prevote, lockRound[t], lockValue[t])
    BY <1>1 DEF LockIsCertified
  <2>3. lockRound[t] # 0 => lockRound[t] <= round'[t]
    <3>1. lockRound[t] \in Nat
      BY <2>1, ValuesAssumption
    <3>2. round[t] \in Nat /\ round'[t] \in Nat /\ round'[t] >= round[t]
      BY <1>1, StepFrame
    <3> QED
      BY <2>2, <3>1, <3>2
  <2>4. lockRound[t] # 0 => precommit'[t][lockRound[t]] # None
    BY <1>1, <2>1, <2>2, StepFrame
  <2>5. lockRound[t] # 0 => Certifies(prevote', lockRound[t], lockValue[t])
    BY <1>1, <2>1, <2>2, CertificatesPersist
  <2> QED
    BY <1>3, <2>2, <2>3, <2>4, <2>5
<1>4. CASE ~ (lockRound'[t] = lockRound[t] /\ lockValue'[t] = lockValue[t])
  <2>1. t = s
    BY <1>1, <1>4, StepFrame
  <2>2. /\ lockRound'[s] = r
        /\ lockValue'[s] \in Values
        /\ Certifies(prevote', r, lockValue'[s])
        /\ precommit'[s][r] \in {lockValue'[s], Nil}
    BY <1>4, <2>1, LockStep
  <2>3. round'[s] = r
    BY <1>1, StepFrame
  <2> QED
    BY <2>1, <2>2, <2>3, ValuesAssumption
<1> QED
  BY <1>3, <1>4

\* A value is precommitted under its certificate, and the lock then covers it:
\* the only way to move the lock is to take one of a round not older.
LEMMA PrecommitIsLockedStep ==
    ASSUME IndInv, NEW s \in Honest, NEW r \in Rounds, StepTo(s, r)
    PROVE  PrecommitIsLocked'
<1>1. TypeOK /\ PrecommitIsLocked /\ TypeOK' /\ VotesAreBehindRound /\ LockIsCertified
  BY StepFrame DEF IndInv
<1>2. SUFFICES ASSUME NEW t \in Honest, NEW x \in Rounds, precommit'[t][x] \in Values
               PROVE  /\ Certifies(prevote', x, precommit'[t][x])
                      /\ lockRound'[t] >= x
                      /\ lockRound'[t] = x => lockValue'[t] = precommit'[t][x]
  BY DEF PrecommitIsLocked
<1>3. x \in Nat /\ r \in Nat /\ lockRound[t] \in Nat
  BY <1>1, ValuesAssumption, LockRoundType
<1>4. precommit'[t][x] # Nil /\ precommit'[t][x] # None
  BY <1>2, ValuesAssumption
<1>5. CASE precommit[t][x] = precommit'[t][x]
  <2>1. /\ Certifies(prevote, x, precommit[t][x])
        /\ lockRound[t] >= x
        /\ lockRound[t] = x => lockValue[t] = precommit[t][x]
    BY <1>1, <1>2, <1>5 DEF PrecommitIsLocked
  <2>2. Certifies(prevote', x, precommit'[t][x])
    BY <1>1, <1>2, <1>5, <2>1, CertificatesPersist
  <2>3. CASE lockRound'[t] = lockRound[t] /\ lockValue'[t] = lockValue[t]
    BY <1>5, <2>1, <2>2, <2>3
  <2>4. CASE ~(lockRound'[t] = lockRound[t] /\ lockValue'[t] = lockValue[t])
    <3>1. t = s
      BY <1>1, <2>4, StepFrame
    <3>2. lockRound'[s] = r /\ precommit[s][r] = None
      BY <2>4, <3>1, LockStep
    <3>3. x # r
      BY <1>4, <1>5, <3>1, <3>2
    <3>4. x <= r
      <4>1. ~(x > round[s])
        BY <1>1, <1>4, <1>5, <3>1 DEF VotesAreBehindRound
      <4>2. round[s] \in Nat /\ r >= round[s]
        BY <1>1, StepFrame DEF StepTo
      <4> QED
        BY <1>3, <4>1, <4>2
    <3> QED
      BY <1>3, <2>2, <3>1, <3>2, <3>3, <3>4
  <2> QED
    BY <2>3, <2>4
<1>6. CASE precommit[t][x] # precommit'[t][x]
  <2>1. t = s /\ x = r
    BY <1>1, <1>6, StepFrame
  <2>2. /\ lockRound'[s] = r
        /\ Certifies(prevote', r, lockValue'[s])
        /\ precommit'[s][r] = lockValue'[s]
    BY <1>4, <1>6, <2>1, LockStep
  <2> QED
    BY <1>3, <2>1, <2>2
<1> QED
  BY <1>5, <1>6

\* The prevote a step casts respects the lock, hence every earlier precommit.
LEMMA SwitchIsJustifiedStep ==
    ASSUME IndInv, NEW s \in Honest, NEW r \in Rounds, StepTo(s, r)
    PROVE  SwitchIsJustified'
<1>1. /\ TypeOK /\ TypeOK' /\ VotesAreBehindRound /\ LockIsCertified
      /\ PrecommitIsLocked /\ SwitchIsJustified
  BY StepFrame DEF IndInv
<1>2. SUFFICES ASSUME NEW t \in Honest, NEW x \in Rounds, NEW x0 \in Rounds,
                      x0 < x,
                      precommit'[t][x0] \in Values,
                      prevote'[t][x] \in Values,
                      prevote'[t][x] # precommit'[t][x0]
               PROVE  \E vr \in Rounds :
                          x0 <= vr /\ vr < x /\ Certifies(prevote', vr, prevote'[t][x])
  BY DEF SwitchIsJustified
<1>3. x \in Nat /\ x0 \in Nat /\ r \in Nat
  BY ValuesAssumption
<1>4. prevote'[t][x] # Nil /\ prevote'[t][x] # None /\ precommit'[t][x0] # None
  BY <1>2, ValuesAssumption
<1>5. CASE prevote[t][x] = prevote'[t][x]
  <2>1. precommit[t][x0] = precommit'[t][x0]
    <3>1. ~(x > round[t])
      BY <1>1, <1>4, <1>5 DEF VotesAreBehindRound
    <3>2. ~(t = s /\ x0 = r)
      BY <1>1, <1>2, <1>3, <3>1, StepFrame
    <3> QED
      BY <1>1, <3>2, StepFrame
  <2>2. PICK vr \in Rounds : x0 <= vr /\ vr < x /\ Certifies(prevote, vr, prevote[t][x])
    BY <1>1, <1>2, <1>5, <2>1 DEF SwitchIsJustified
  <2>3. Certifies(prevote', vr, prevote'[t][x])
    BY <1>1, <1>2, <1>5, <2>2, CertificatesPersist
  <2> QED
    BY <2>2, <2>3
<1>6. CASE prevote[t][x] # prevote'[t][x]
  <2>1. t = s /\ x = r
    BY <1>1, <1>6, StepFrame
  <2>2. /\ prevote[s][r] = None
        /\ LockAllows(s, r, prevote'[s][r])
    <3>1. prevote \in [Honest -> [Rounds -> Ballots]]
      BY <1>1 DEF TypeOK
    <3>2. PICK ballot \in {Nil} \cup {value \in Values : LockAllows(s, r, value)} :
             prevote' = [prevote EXCEPT ![s][r] = ballot]
      BY <1>6, <2>1 DEF StepTo, Prevote
    <3>3. prevote'[s][r] = ballot
      BY <3>1, <3>2
    <3>4. prevote[s][r] = None
      BY <1>1, <1>6, <2>1, StepFrame
    <3> QED
      BY <1>4, <2>1, <3>2, <3>3, <3>4
  <2>3. precommit[s][x0] = precommit'[s][x0]
    BY <1>1, <1>2, <1>3, <2>1, StepFrame
  <2>4. /\ lockRound[s] >= x0
        /\ lockRound[s] = x0 => lockValue[s] # prevote'[s][r]
    BY <1>1, <1>2, <2>1, <2>3 DEF PrecommitIsLocked
  <2>5. lockRound[s] \in Rounds /\ lockRound[s] \in Nat
    <3>1. x0 # 0
      BY ValuesAssumption
    <3>2. lockRound[s] # 0
      BY <1>1, <1>3, <2>4, <3>1, LockRoundType
    <3> QED
      BY <1>1, <3>2, LockRoundType
  <2>6. CASE lockValue[s] = prevote'[s][r]
    <3>1. /\ lockRound[s] <= round[s]
          /\ precommit[s][lockRound[s]] # None
          /\ Certifies(prevote, lockRound[s], lockValue[s])
      BY <1>1, <2>5, ValuesAssumption DEF LockIsCertified
    <3>2. lockRound[s] # r
      BY <1>1, <2>2, <2>5, <3>1 DEF VotesAreBehindRound
    <3>3. lockRound[s] < r
      <4>1. round[s] \in Nat /\ r >= round[s]
        BY <1>1, StepFrame DEF StepTo
      <4> QED
        BY <1>3, <2>5, <3>1, <3>2, <4>1
    <3>4. Certifies(prevote', lockRound[s], prevote'[s][r])
      BY <1>1, <1>2, <2>1, <2>5, <2>6, <3>1, CertificatesPersist
    <3> QED
      BY <1>3, <2>1, <2>4, <2>5, <3>3, <3>4
  <2>7. CASE lockValue[s] # prevote'[s][r]
    <3>1. PICK vr \in Rounds :
             vr >= lockRound[s] /\ vr < r /\ Certifies(prevote, vr, prevote'[s][r])
      <4>1. lockRound[s] # 0
        BY <2>5, ValuesAssumption
      <4> QED
        BY <2>2, <2>7, <4>1 DEF LockAllows
    <3>2. Certifies(prevote', vr, prevote'[s][r])
      BY <1>1, <1>2, <2>1, <3>1, CertificatesPersist
    <3>3. vr \in Nat
      BY ValuesAssumption
    <3> QED
      BY <1>3, <2>1, <2>4, <2>5, <3>1, <3>2, <3>3
  <2> QED
    BY <2>6, <2>7
<1> QED
  BY <1>5, <1>6

\* A voter that will never precommit a value keeps not doing it.
LEMMA NeverPrecommitsStep ==
    ASSUME IndInv, NEW s \in Honest, NEW r \in Rounds, StepTo(s, r),
           NEW t \in Honest, NEW x \in Rounds, NEW v \in Values,
           NeverPrecommits(t, x, v)
    PROVE  NeverPrecommits(t, x, v)'
<1>1. TypeOK
  BY DEF IndInv
<1>2. round[t] \in Nat /\ round'[t] \in Nat /\ round'[t] >= round[t]
  BY <1>1, StepFrame
<1>3. x \in Nat /\ r \in Nat
  BY ValuesAssumption
<1>4. CASE precommit[t][x] # None
  <2>1. precommit'[t][x] = precommit[t][x]
    BY <1>1, <1>4, StepFrame
  <2> QED
    BY <1>4, <2>1 DEF NeverPrecommits
<1>5. CASE precommit[t][x] = None
  <2>1. round[t] > x
    BY <1>5 DEF NeverPrecommits
  <2>2. ~(t = s /\ x = r)
    BY <1>2, <1>3, <2>1 DEF StepTo
  <2>3. precommit'[t][x] = precommit[t][x]
    BY <1>1, <2>2, StepFrame
  <2>4. round'[t] > x
    BY <1>2, <1>3, <2>1
  <2> QED
    BY <2>3, <2>4 DEF NeverPrecommits
<1> QED
  BY <1>4, <1>5

\* The heart of the argument.  When a certificate for w appears at round x, a
\* quorum for another value v at an earlier round x0 meets it in an honest
\* voter t.  Either t did not precommit v at x0 and is past x0, or its prevote
\* for w was justified by an older certificate, which was already safe.
LEMMA CertificateIsSafeStep ==
    ASSUME IndInv, NEW s \in Honest, NEW r \in Rounds, StepTo(s, r)
    PROVE  CertificateIsSafe'
<1>1. /\ TypeOK /\ TypeOK' /\ CertificateIsSafe
      /\ VotesAreBehindRound' /\ SwitchIsJustified' /\ PrecommitIsLocked'
  BY StepFrame, BehindRoundStep, SwitchIsJustifiedStep, PrecommitIsLockedStep DEF IndInv
<1>2. SUFFICES ASSUME NEW x \in Rounds, NEW x0 \in Rounds,
                      NEW v \in Values, NEW w \in Values,
                      x0 < x, v # w, Certifies(prevote', x, w),
                      NEW Q \in Quorums
               PROVE  \E t \in Q \ Byzantine : NeverPrecommits(t, x0, v)'
  BY DEF CertificateIsSafe
<1>3. Q \ Byzantine \subseteq Honest
  BY DEF Quorums, Certificates, Honest
<1>4. x \in Nat /\ x0 \in Nat /\ r \in Nat
  BY ValuesAssumption
<1>5. \A y \in Rounds : x0 < y /\ Certifies(prevote, y, w) =>
          \E t \in Q \ Byzantine : NeverPrecommits(t, x0, v)'
  <2>1. SUFFICES ASSUME NEW y \in Rounds, x0 < y, Certifies(prevote, y, w)
                 PROVE  \E t \in Q \ Byzantine : NeverPrecommits(t, x0, v)'
    OBVIOUS
  <2>2. PICK t \in Q \ Byzantine : NeverPrecommits(t, x0, v)
    BY <1>1, <1>2, <2>1 DEF CertificateIsSafe
  <2>3. NeverPrecommits(t, x0, v)'
    BY <1>3, <2>2, NeverPrecommitsStep
  <2> QED
    BY <2>3
<1>6. PICK P \in Quorums : \A t \in P \ Byzantine : prevote'[t][x] = w
  BY <1>2 DEF Certifies
<1>7. PICK t \in P \cap Q : t \in Honest
  BY QuorumIntersection
<1>8. prevote'[t][x] = w /\ t \in Q \ Byzantine
  BY <1>6, <1>7 DEF Honest
<1>9. CASE precommit'[t][x0] # v
  <2>1. ~(x > round'[t])
    BY <1>1, <1>7, <1>8, ValuesAssumption DEF VotesAreBehindRound
  <2>2. round'[t] > x0
    BY <1>1, <1>2, <1>4, <1>7, <2>1, StepFrame
  <2> QED
    BY <1>8, <1>9, <2>2 DEF NeverPrecommits
<1>10. CASE precommit'[t][x0] = v
  <2>1. PICK vr \in Rounds : x0 <= vr /\ vr < x /\ Certifies(prevote', vr, w)
    BY <1>1, <1>2, <1>7, <1>8, <1>10 DEF SwitchIsJustified
  <2>2. Certifies(prevote', x0, v)
    BY <1>1, <1>2, <1>7, <1>10 DEF PrecommitIsLocked
  <2>3. vr # x0
    <3>1. ~(Certifies(prevote', x0, v) /\ Certifies(prevote', x0, w))
      BY <1>2, QuorumIntersection DEF Certifies, Honest
    <3> QED
      BY <2>1, <2>2, <3>1
  <2>4. vr \in Nat
    BY ValuesAssumption
  <2>5. CASE vr # r
    <3>1. Certifies(prevote, vr, w)
      BY <1>1, <2>1, <2>5, CertificatesPersist
    <3> QED
      BY <1>4, <1>5, <2>1, <2>3, <2>4, <3>1
  <2>6. CASE vr = r
    <3>1. Certifies(prevote, x, w)
      BY <1>1, <1>2, <1>4, <2>1, <2>4, <2>6, CertificatesPersist
    <3> QED
      BY <1>2, <1>5, <3>1
  <2> QED
    BY <2>5, <2>6
<1> QED
  BY <1>9, <1>10

\* A decision is taken from a certificate, and certificates persist.
LEMMA DecisionIsCertifiedStep ==
    ASSUME IndInv, NEW s \in Honest, NEW r \in Rounds, StepTo(s, r)
    PROVE  /\ DecisionIsCertified'
           /\ \A t \in Honest : decision[t] # None => decision'[t] = decision[t]
<1>1. TypeOK /\ DecisionIsCertified
  BY DEF IndInv
<1>2. \/ decision' = decision
      \/ /\ decision[s] = None
         /\ \E value \in Values :
               /\ \E x \in Rounds : Certifies(precommit', x, value)
               /\ decision' = [decision EXCEPT ![s] = value]
  BY DEF StepTo, Decide
<1>3. ASSUME NEW t \in Honest, decision[t] # None, decision'[t] = decision[t]
      PROVE  \E x \in Rounds : Certifies(precommit', x, decision'[t])
  <2>1. decision[t] \in Values
    BY <1>1, <1>3 DEF TypeOK
  <2> QED
    BY <1>1, <1>3, <2>1, CertificatesPersist DEF DecisionIsCertified
<1>4. decision \in [Honest -> Values \cup {None}]
  BY <1>1 DEF TypeOK
<1> QED
  BY <1>2, <1>3, <1>4 DEF DecisionIsCertified

\* IndInv is inductive.
LEMMA NextInv == IndInv /\ [Next]_vars => IndInv'
<1> SUFFICES ASSUME IndInv, [Next]_vars
             PROVE  IndInv'
  OBVIOUS
<1>1. CASE Next
  <2>1. PICK s \in Honest, r \in Rounds : StepTo(s, r)
    BY <1>1 DEF Next, Step, StepTo
  <2>2. TypeOK'
    BY <2>1, StepFrame DEF IndInv
  <2> QED
    BY <2>1, <2>2, BehindRoundStep, LockIsCertifiedStep, PrecommitIsLockedStep,
       SwitchIsJustifiedStep, CertificateIsSafeStep, DecisionIsCertifiedStep DEF IndInv
<1>2. CASE UNCHANGED vars
  BY <1>2 DEF vars, IndInv, TypeOK, VotesAreBehindRound, LockIsCertified,
     PrecommitIsLocked, SwitchIsJustified, CertificateIsSafe, NeverPrecommits,
     DecisionIsCertified, Certifies
<1> QED
  BY <1>1, <1>2

\* IndInv holds in every reachable state.
THEOREM Invariance == Spec => []IndInv
BY InitInv, NextInv, PTL DEF Spec

-----------------------------------------------------------------------------
(***************************************************************************)
(* The results.                                                            *)
(***************************************************************************)

\* Every variable keeps its type.
THEOREM TypeCorrect == Spec => []TypeOK
<1>1. IndInv => TypeOK
  BY DEF IndInv
<1> QED
  BY <1>1, Invariance, PTL

\* A certified value rules out the prevote certificate of any other value in
\* every later round.
LEMMA InvImpliesLocked == IndInv => CommittedValueIsLocked
<1> SUFFICES ASSUME IndInv,
                    NEW r1 \in Rounds, NEW r2 \in Rounds,
                    NEW v1 \in Values, NEW v2 \in Values,
                    Certifies(precommit, r1, v1), r1 < r2, Certifies(prevote, r2, v2),
                    v1 # v2
             PROVE  FALSE
  BY DEF CommittedValueIsLocked
<1>1. PICK Q \in Quorums : \A s \in Q \ Byzantine : precommit[s][r1] = v1
  BY DEF Certifies
<1>2. \E s \in Q \ Byzantine : NeverPrecommits(s, r1, v1)
  BY DEF IndInv, CertificateIsSafe
<1> QED
  BY <1>1, <1>2 DEF NeverPrecommits

\* Two commit certificates of one height agree on the value (and so do the
\* decisions made from them), in whatever rounds they were formed.
LEMMA InvImpliesAgreement == IndInv => AgreementInv
<1> SUFFICES ASSUME IndInv
             PROVE  AgreementInv
  OBVIOUS
<1>1. ASSUME NEW r1 \in Rounds, NEW r2 \in Rounds, NEW v1 \in Values, NEW v2 \in Values,
             Certifies(precommit, r1, v1), Certifies(precommit, r2, v2), r1 < r2
      PROVE  v1 = v2
  <2>1. PICK s \in Honest : precommit[s][r2] = v2
    BY <1>1, HonestSigner
  <2>2. Certifies(prevote, r2, v2)
    BY <2>1 DEF IndInv, PrecommitIsLocked
  <2> QED
    BY <1>1, <2>2, InvImpliesLocked DEF CommittedValueIsLocked
<1>2. ASSUME NEW r1 \in Rounds, NEW r2 \in Rounds, NEW v1 \in Values, NEW v2 \in Values,
             Certifies(precommit, r1, v1), Certifies(precommit, r2, v2)
      PROVE  v1 = v2
  <2>1. r1 \in Nat /\ r2 \in Nat
    BY ValuesAssumption
  <2>2. CASE r1 = r2
    BY <1>2, <2>2, OneCertificatePerRound
  <2>3. CASE r1 < r2
    BY <1>1, <1>2, <2>3
  <2>4. CASE r2 < r1
    BY <1>1, <1>2, <2>4
  <2> QED
    BY <2>1, <2>2, <2>3, <2>4
<1> QED
  BY <1>2 DEF AgreementInv, IndInv, DecisionIsCertified

\* Agreement: no reachable state has certificates for two different values.
THEOREM Safety == Spec => []AgreementInv
BY Invariance, InvImpliesAgreement, PTL

\* A committed value stays the only one that can gather prevotes.
THEOREM LockSafety == Spec => []CommittedValueIsLocked
BY Invariance, InvImpliesLocked, PTL

\* Rounds and locks only move forward, votes and decisions are final.
THEOREM Monotone == Spec => VoterIsMonotone
<1>1. IndInv /\ [Next]_vars =>
        [\A s \in Honest :
          /\ round'[s] >= round[s]
          /\ lockRound'[s] >= lockRound[s]
          /\ decision[s] # None => decision'[s] = decision[s]
          /\ \A r \in Rounds :
                /\ prevote[s][r] # None => prevote'[s][r] = prevote[s][r]
                /\ precommit[s][r] # None => precommit'[s][r] = precommit[s][r]]_vars
  <2> SUFFICES ASSUME IndInv, Next, NEW t \in Honest
               PROVE  /\ round'[t] >= round[t]
                      /\ lockRound'[t] >= lockRound[t]
                      /\ decision[t] # None => decision'[t] = decision[t]
                      /\ \A r \in Rounds :
                            /\ prevote[t][r] # None => prevote'[t][r] = prevote[t][r]
                            /\ precommit[t][r] # None => precommit'[t][r] = precommit[t][r]
    OBVIOUS
  <2>1. PICK s \in Honest, r \in Rounds : StepTo(s, r)
    BY DEF Next, Step, StepTo
  <2>2. TypeOK
    BY DEF IndInv
  <2>3. lockRound'[t] >= lockRound[t]
    <3>1. lockRound[t] \in Nat
      BY <2>2, LockRoundType
    <3>2. CASE lockRound'[t] = lockRound[t]
      BY <3>1, <3>2
    <3>3. CASE lockRound'[t] # lockRound[t]
      <4>1. t = s /\ lockRound'[t] = r
        BY <2>1, <2>2, <3>3, StepFrame, LockStep
      <4>2. lockRound[t] # 0 => lockRound[t] <= round[t]
        BY DEF IndInv, LockIsCertified
      <4>3. r \in Nat /\ round[t] \in Nat /\ r >= round[t]
        BY <2>1, <2>2, <4>1, StepFrame, ValuesAssumption DEF StepTo
      <4> QED
        BY <3>1, <4>1, <4>2, <4>3
    <3> QED
      BY <3>2, <3>3
  <2> QED
    BY <2>1, <2>2, <2>3, StepFrame, DecisionIsCertifiedStep
<1> QED
  BY <1>1, Invariance, PTL DEF Spec, VoterIsMonotone
=============================================================================
