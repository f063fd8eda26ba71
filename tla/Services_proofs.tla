--------------------------- MODULE Services_proofs ---------------------------
(***************************************************************************)
(* What a gateway answers with and what it passes on, and what a worker    *)
(* does by itself, for any instance of the five services of Services.      *)
(*                                                                         *)
(* FallbackChain: the attempts of a request explain its answer.  The       *)
(* invariant says where every step of a request's plan is: ahead of it in  *)
(* what is left of the plan, or explained by an attempt.                   *)
(*                                                                         *)
(* StreamPipeline: a stream is recorded as what happened to it.  The       *)
(* invariant says that what passed so far is the beginning of the body,    *)
(* and that the collector holds of it, however the provider cut it, what   *)
(* its whole frames say and the tokens of the frame it is in.              *)
(*                                                                         *)
(* Maintenance: a task of maintenance runs in one worker at a time.  The   *)
(* invariant says which worker holds which lock.                           *)
(*                                                                         *)
(* JobWake: no due job is left without something that will claim it.  The  *)
(* invariant says what the timer and the flags of the runner stand for.    *)
(*                                                                         *)
(* QuotaProbe: a quota that was recorded is the one the provider stated.   *)
(* The invariant follows what a run read to the row that it writes.        *)
(*                                                                         *)
(* Services: side by side they keep all of it.                             *)
(***************************************************************************)
EXTENDS Services, FiniteSetTheorems, SequenceTheorems, WellFoundedInduction, TLAPS

----------------------------------------------------------------------------
(* What Only keeps of a sequence. *)

\* The positions of t in s, rising.
Positions(f, t, s) ==
  /\ f \in [DOMAIN t -> DOMAIN s]
  /\ \A n \in DOMAIN t : t[n] = s[f[n]]
  /\ \A m, n \in DOMAIN t : m < n => f[m] < f[n]

\* Only is a subsequence of what is in keep, and of all of it.
LEMMA OnlyIs ==
  ASSUME NEW S, NEW s \in Seq(S), NEW keep
  PROVE  /\ Only(s, keep) \in Seq(S) /\ Len(Only(s, keep)) <= Len(s)
         /\ \A n \in DOMAIN Only(s, keep) : Only(s, keep)[n] \in keep
         /\ \E f : /\ Positions(f, Only(s, keep), s)
                   /\ \A i \in DOMAIN s : s[i] \in keep => \E n \in DOMAIN Only(s, keep) : f[n] = i
         /\ (\E i \in DOMAIN s : s[i] \notin keep) => Len(Only(s, keep)) < Len(s)
<1> DEFINE at == {i \in DOMAIN s : s[i] \in keep}
           upto(i) == {j \in at : j <= i}
           count == Cardinality(at)
           rank == [i \in at |-> Cardinality(upto(i))]
           f == [n \in 1..count |-> CHOOSE i \in at : Cardinality(upto(i)) = n]
           t == [n \in 1..count |-> s[CHOOSE i \in at : Cardinality(upto(i)) = n]]
<1>1. Only(s, keep) = t
  BY DEF Only
<1>2. DOMAIN s = 1..Len(s) /\ Len(s) \in Nat /\ \A i \in DOMAIN s : s[i] \in S
  OBVIOUS
<1>3. IsFiniteSet(DOMAIN s) /\ Cardinality(DOMAIN s) = Len(s)
  BY <1>2, FS_Interval
<1>4. at \subseteq DOMAIN s
  OBVIOUS
<1>5. IsFiniteSet(at) /\ count \in Nat /\ count <= Len(s)
  BY <1>3, <1>4, FS_Subset, FS_CardinalityType
<1>6. \A i \in at : upto(i) \subseteq at /\ i \in upto(i)
  BY <1>2
<1>7. \A i \in at : IsFiniteSet(upto(i)) /\ Cardinality(upto(i)) \in 1..count
  <2> SUFFICES ASSUME NEW i \in at PROVE IsFiniteSet(upto(i)) /\ Cardinality(upto(i)) \in 1..count
    OBVIOUS
  <2>1. upto(i) \subseteq at /\ upto(i) # {}
    BY <1>6
  <2> HIDE DEF at, upto
  <2>2. IsFiniteSet(upto(i)) /\ Cardinality(upto(i)) <= count
    BY <1>5, <2>1, FS_Subset
  <2>3. Cardinality(upto(i)) \in Nat /\ Cardinality(upto(i)) # 0
    BY <2>1, <2>2, FS_CardinalityType, FS_EmptySet
  <2> QED BY <1>5, <2>2, <2>3
<1>7a. \A i \in at : i \in Nat
  BY <1>2
<1>7b. \A i \in at : Cardinality(upto(i)) \in Nat
  <2> HIDE DEF upto, at, count
  <2> QED BY <1>5, <1>7
<1>8. \A i, j \in at : i < j => Cardinality(upto(i)) < Cardinality(upto(j))
  <2> SUFFICES ASSUME NEW i \in at, NEW j \in at, i < j PROVE Cardinality(upto(i)) < Cardinality(upto(j))
    OBVIOUS
  <2>1. upto(i) \subseteq upto(j) /\ j \in upto(j) /\ j \notin upto(i)
    BY <1>2
  <2>2. IsFiniteSet(upto(j)) /\ Cardinality(upto(i)) \in Nat /\ Cardinality(upto(j)) \in Nat
    <3> HIDE DEF upto, at, count
    <3> QED BY <1>5, <1>7
  <2> HIDE DEF upto
  <2> QED BY <2>1, <2>2, FS_Subset
<1>9. rank \in Injection(at, 1..count)
  <2>1. \A i, j \in at : rank[i] = rank[j] => i = j
    <3>1. \A i \in at : i \in Nat /\ Cardinality(upto(i)) \in Nat /\ rank[i] = Cardinality(upto(i))
      BY <1>7a, <1>7b
    <3> HIDE DEF rank, upto, at
    <3> QED BY <1>8, <3>1
  <2>2. rank \in [at -> 1..count]
    BY <1>7
  <2> HIDE DEF rank, at
  <2> QED BY <2>1, <2>2 DEF Injection, IsInjective
<1>10. \A n \in 1..count : \E i \in at : Cardinality(upto(i)) = n
  <2>1. IsFiniteSet(1..count) /\ Cardinality(1..count) = count
    BY <1>5, FS_Interval
  <2> HIDE DEF at, rank
  <2>2. rank \in Surjection(at, 1..count)
    BY <1>5, <1>9, <2>1, FS_Injection
  <2> QED BY <2>2 DEF Surjection, rank
<1>11. \A n \in 1..count : f[n] \in at /\ Cardinality(upto(f[n])) = n /\ t[n] = s[f[n]]
  BY <1>10
<1>12. \A i \in at : f[Cardinality(upto(i))] = i
  <2> SUFFICES ASSUME NEW i \in at PROVE f[Cardinality(upto(i))] = i
    OBVIOUS
  <2>1. f[Cardinality(upto(i))] \in at /\ Cardinality(upto(f[Cardinality(upto(i))])) = Cardinality(upto(i))
    BY <1>7, <1>11
  <2>2. i \in Nat /\ f[Cardinality(upto(i))] \in Nat /\ Cardinality(upto(i)) \in Nat
    <3> HIDE DEF f, upto, at
    <3> QED BY <1>7a, <1>7b, <2>1
  <2> HIDE DEF f, upto, at
  <2> QED BY <1>8, <2>1, <2>2
<1>13. \A m, n \in 1..count : m < n => f[m] < f[n]
  <2> SUFFICES ASSUME NEW m \in 1..count, NEW n \in 1..count, m < n PROVE f[m] < f[n]
    OBVIOUS
  <2>1. f[m] \in at /\ f[n] \in at /\ Cardinality(upto(f[m])) = m /\ Cardinality(upto(f[n])) = n
    BY <1>11
  <2>2. f[m] \in Nat /\ f[n] \in Nat
    BY <1>2, <1>4, <2>1
  <2> HIDE DEF f, upto, at
  <2> QED BY <1>5, <1>8, <2>1, <2>2
<1>14. DOMAIN t = 1..count /\ t \in [1..count -> S]
  BY <1>2, <1>11
<1>15. t \in Seq(S) /\ Len(t) = count
  <2> HIDE DEF t, count
  <2> QED BY <1>5, <1>14
<1>16. \A n \in 1..count : t[n] \in keep
  BY <1>11
<1>17. Positions(f, t, s)
  <2>1. f \in [1..count -> DOMAIN s]
    BY <1>4, <1>11
  <2> HIDE DEF f, t, count
  <2> QED BY <1>11, <1>13, <1>14, <2>1 DEF Positions
<1>18. \A i \in DOMAIN s : s[i] \in keep => \E n \in DOMAIN t : f[n] = i
  <2> SUFFICES ASSUME NEW i \in at PROVE \E n \in DOMAIN t : f[n] = i
    OBVIOUS
  <2> QED BY <1>7, <1>12, <1>14
<1>19. (\E i \in DOMAIN s : s[i] \notin keep) => count < Len(s)
  <2> SUFFICES ASSUME NEW i \in DOMAIN s, s[i] \notin keep PROVE count < Len(s)
    OBVIOUS
  <2>1. at # DOMAIN s
    OBVIOUS
  <2> HIDE DEF at
  <2> QED BY <1>2, <1>3, <1>4, <1>5, <2>1, FS_Subset
<1> HIDE DEF t, f, count
<1> QED BY <1>1, <1>5, <1>14, <1>15, <1>16, <1>17, <1>18, <1>19

\* What is distinct in a sequence is distinct in what is kept of it.
LEMMA OnlyInjective ==
  ASSUME NEW S, NEW s \in Seq(S), NEW keep, IsInjective(s)
  PROVE  IsInjective(Only(s, keep))
<1> DEFINE t == Only(s, keep)
<1>1. PICK f : Positions(f, t, s)
  BY OnlyIs
<1>2. t \in Seq(S)
  BY OnlyIs
<1> HIDE DEF t
<1>3. \A m, n \in DOMAIN t : f[m] \in DOMAIN s /\ (m < n => f[m] # f[n])
  BY <1>1, <1>2 DEF Positions
<1>4. ASSUME NEW m \in DOMAIN t, NEW n \in DOMAIN t, t[m] = t[n] PROVE m = n
  <2>1. s[f[m]] = s[f[n]] /\ f[m] \in DOMAIN s /\ f[n] \in DOMAIN s
    BY <1>1, <1>4 DEF Positions
  <2>2. f[m] = f[n]
    BY <2>1 DEF IsInjective
  <2>3. m \in Nat /\ n \in Nat
    BY <1>2
  <2> QED BY <1>3, <2>2, <2>3
<1> QED BY <1>4 DEF IsInjective, t

----------------------------------------------------------------------------
(* The plan, the attempts made and what is left of it. *)

Step == Candidates \X Connections
Codes == Failures \cup {"circuit_open"}
Attempt == [at : Step, code : Codes, calls : 0..Retries + 1]

\* The attempts A and then what is left, R, are in the order of the plan P.
InOrder(P, A, R) ==
  /\ Len(A) + Len(R) <= Len(P)
  /\ \A i, j \in DOMAIN A : \A k, l \in DOMAIN P : i < j /\ A[i].at = P[k] /\ A[j].at = P[l] => k < l
  /\ \A i, j \in DOMAIN R : \A k, l \in DOMAIN P : i < j /\ R[i] = P[k] /\ R[j] = P[l] => k < l
  /\ \A i \in DOMAIN A, j \in DOMAIN R : \A k, l \in DOMAIN P : A[i].at = P[k] /\ R[j] = P[l] => k < l

\* An attempt ended the chain, was this step, or failed as its candidate will.
Explained(A, step) ==
  \E i \in DOMAIN A :
    \/ A[i].code \in {"redirect", "empty"}
    \/ A[i].at = step
    \/ A[i].at[1] = step[1] /\ A[i].code \in {"rejected", "transient"}

\* A step is ahead, or explained.
Covered(P, A, R) ==
  \A k \in DOMAIN P : (\E j \in DOMAIN R : R[j] = P[k]) \/ Explained(A, P[k])

\* The last failure is that of the last attempt that called a provider, except that
\* a circuit may have opened between its retries.
Said(A) == {i \in DOMAIN A : A[i].calls > 0}
Heard(A, last) ==
  IF Said(A) = {} THEN last = "none"
  ELSE \E i \in Said(A) :
         /\ \A j \in Said(A) : j <= i
         /\ A[i].code = last \/ (A[i].code = "circuit_open" /\ last = "transient")

\* What is left after a failure comes after the step that failed, in the same order;
\* what is dropped shares the failure, or the chain has ended.
LEMMA AfterFailureIs ==
  ASSUME NEW R \in Seq(Step), R # <<>>, NEW code \in Codes
  PROVE  /\ AfterFailure(R, code) \in Seq(Step) /\ Len(AfterFailure(R, code)) < Len(R)
         /\ \E f : Positions(f, AfterFailure(R, code), R) /\ \A n \in DOMAIN AfterFailure(R, code) : f[n] > 1
         /\ \A m \in DOMAIN R : m > 1 =>
              \/ \E n \in DOMAIN AfterFailure(R, code) : AfterFailure(R, code)[n] = R[m]
              \/ code \in {"redirect", "empty"}
              \/ code \in {"rejected", "transient"} /\ R[1][1] = R[m][1]
<1> DEFINE R2 == AfterFailure(R, code)
<1>1. Len(R) \in Nat /\ Len(R) > 0 /\ DOMAIN R = 1..Len(R) /\ Head(R) = R[1]
  OBVIOUS
<1>2. CASE code \in {"redirect", "empty"}
  <2>1. R2 = <<>>
    BY <1>2 DEF AfterFailure
  <2> HIDE DEF R2
  <2>2. R2 \in Seq(Step) /\ Len(R2) = 0 /\ DOMAIN R2 = {}
    BY <2>1
  <2>3. Positions([n \in {} |-> 1], R2, R)
    BY <2>2 DEF Positions
  <2> QED BY <1>1, <1>2, <2>2, <2>3 DEF R2
<1>3. CASE code \in {"credential", "circuit_open"}
  <2>1. R2 = Tail(R)
    BY <1>3 DEF AfterFailure
  <2> HIDE DEF R2
  <2>2. R2 \in Seq(Step) /\ Len(R2) = Len(R) - 1 /\ DOMAIN R2 = 1..(Len(R) - 1)
    BY <1>1, <2>1
  <2>3. \A n \in 1..(Len(R) - 1) : R2[n] = R[n + 1]
    BY <1>1, <2>1
  <2> DEFINE f == [n \in 1..(Len(R) - 1) |-> n + 1]
  <2>4. Positions(f, R2, R) /\ \A n \in DOMAIN R2 : f[n] > 1
    BY <1>1, <2>2, <2>3 DEF Positions
  <2>5. \A m \in DOMAIN R : m > 1 => m - 1 \in DOMAIN R2 /\ R2[m - 1] = R[m]
    BY <1>1, <2>2, <2>3
  <2> HIDE DEF f
  <2> QED BY <1>1, <2>2, <2>4, <2>5 DEF R2
<1>4. CASE code \in {"rejected", "transient"}
  <2> DEFINE others == {step \in ToSet(R) : step[1] # Head(R)[1]}
  <2>1. R2 = Only(R, others)
    BY <1>4 DEF AfterFailure, OfOthers
  <2>2. 1 \in DOMAIN R /\ R[1] \notin others
    BY <1>1
  <2>3. \A m \in DOMAIN R : R[m] \in ToSet(R)
    BY DEF ToSet
  <2>4. \A m \in DOMAIN R : R[m] \in others \/ R[1][1] = R[m][1]
    BY <1>1, <2>3
  <2> HIDE DEF others, R2
  <2>5. R2 \in Seq(Step) /\ Len(R2) < Len(R) /\ \A n \in DOMAIN R2 : R2[n] \in others
    BY <2>1, <2>2, OnlyIs
  <2>6. PICK f : /\ Positions(f, R2, R)
                 /\ \A i \in DOMAIN R : R[i] \in others => \E n \in DOMAIN R2 : f[n] = i
    BY <2>1, OnlyIs
  <2>7. \A n \in DOMAIN R2 : f[n] \in DOMAIN R /\ R2[n] = R[f[n]] /\ f[n] # 1
    BY <2>2, <2>5, <2>6 DEF Positions
  <2>8. \A n \in DOMAIN R2 : f[n] > 1
    BY <1>1, <2>7
  <2>9. \A m \in DOMAIN R : m > 1 => (\E n \in DOMAIN R2 : R2[n] = R[m]) \/ R[1][1] = R[m][1]
    BY <2>4, <2>6, <2>7
  <2> QED BY <1>4, <2>5, <2>6, <2>8, <2>9 DEF R2
<1> QED BY <1>2, <1>3, <1>4 DEF Codes, Failures

\* An attempt at the first step that fails keeps the order and explains what it drops.
LEMMA FailureKeeps ==
  ASSUME NEW P \in Seq(Step), NEW A \in Seq(Attempt), NEW R \in Seq(Step), R # <<>>,
         NEW code \in Codes, NEW calls \in 0..Retries + 1, InOrder(P, A, R), Covered(P, A, R)
  PROVE  LET A2 == Append(A, [at |-> Head(R), code |-> code, calls |-> calls])
             R2 == AfterFailure(R, code)
         IN A2 \in Seq(Attempt) /\ R2 \in Seq(Step) /\ InOrder(P, A2, R2) /\ Covered(P, A2, R2)
<1> DEFINE a == [at |-> Head(R), code |-> code, calls |-> calls]
           A2 == Append(A, a)
           R2 == AfterFailure(R, code)
<1>1. Head(R) = R[1] /\ R[1] \in Step /\ 1 \in DOMAIN R /\ DOMAIN R = 1..Len(R) /\ Len(R) \in Nat
  OBVIOUS
<1>2. a \in Attempt /\ a.at = R[1] /\ a.code = code
  BY <1>1 DEF Attempt
<1> HIDE DEF a
<1>3. /\ A2 \in Seq(Attempt) /\ Len(A2) = Len(A) + 1 /\ Len(A) \in Nat
      /\ DOMAIN A2 = 1..(Len(A) + 1) /\ DOMAIN A = 1..Len(A)
      /\ A2[Len(A) + 1] = a /\ \A i \in 1..Len(A) : A2[i] = A[i]
  BY <1>2
<1> HIDE DEF A2, R2
<1>4. /\ R2 \in Seq(Step) /\ Len(R2) < Len(R) /\ Len(R2) \in Nat
      /\ \A m \in DOMAIN R : m > 1 =>
           \/ \E n \in DOMAIN R2 : R2[n] = R[m]
           \/ code \in {"redirect", "empty"}
           \/ code \in {"rejected", "transient"} /\ R[1][1] = R[m][1]
  BY AfterFailureIs DEF R2
<1>5. PICK f : Positions(f, R2, R) /\ \A n \in DOMAIN R2 : f[n] > 1
  BY AfterFailureIs DEF R2
<1>6. \A n \in DOMAIN R2 : f[n] \in DOMAIN R /\ R2[n] = R[f[n]] /\ f[n] > 1
  BY <1>5 DEF Positions
<1>7. InOrder(P, A2, R2)
  <2>1. Len(A2) + Len(R2) <= Len(P)
    BY <1>1, <1>3, <1>4 DEF InOrder
  <2>2. ASSUME NEW i \in DOMAIN A2, NEW j \in DOMAIN A2, NEW k \in DOMAIN P, NEW l \in DOMAIN P,
               i < j, A2[i].at = P[k], A2[j].at = P[l]
        PROVE  k < l
    <3>1. i \in DOMAIN A /\ A[i].at = P[k]
      BY <1>3, <2>2
    <3>2. CASE j \in DOMAIN A
      BY <1>3, <2>2, <3>1, <3>2 DEF InOrder
    <3>3. CASE j = Len(A) + 1
      <4>1. R[1] = P[l]
        BY <1>2, <1>3, <2>2, <3>3
      <4> QED BY <1>1, <3>1, <4>1 DEF InOrder
    <3> QED BY <1>3, <3>2, <3>3
  <2>3. ASSUME NEW i \in DOMAIN R2, NEW j \in DOMAIN R2, NEW k \in DOMAIN P, NEW l \in DOMAIN P,
               i < j, R2[i] = P[k], R2[j] = P[l]
        PROVE  k < l
    <3>1. f[i] < f[j]
      BY <1>5, <2>3 DEF Positions
    <3> QED BY <1>6, <2>3, <3>1 DEF InOrder
  <2>4. ASSUME NEW i \in DOMAIN A2, NEW j \in DOMAIN R2, NEW k \in DOMAIN P, NEW l \in DOMAIN P,
               A2[i].at = P[k], R2[j] = P[l]
        PROVE  k < l
    <3>1. CASE i \in DOMAIN A
      BY <1>3, <1>6, <2>4, <3>1 DEF InOrder
    <3>2. CASE i = Len(A) + 1
      <4>1. R[1] = P[k] /\ R[f[j]] = P[l] /\ 1 < f[j] /\ f[j] \in DOMAIN R
        BY <1>2, <1>3, <1>6, <2>4, <3>2
      <4> QED BY <1>1, <4>1 DEF InOrder
    <3> QED BY <1>3, <3>1, <3>2
  <2> QED BY <2>1, <2>2, <2>3, <2>4 DEF InOrder
<1>8. Covered(P, A2, R2)
  <2> SUFFICES ASSUME NEW k \in DOMAIN P
               PROVE  (\E j \in DOMAIN R2 : R2[j] = P[k]) \/ Explained(A2, P[k])
    BY DEF Covered
  <2>1. CASE Explained(A, P[k])
    <3>1. PICK i \in DOMAIN A :
            \/ A[i].code \in {"redirect", "empty"}
            \/ A[i].at = P[k]
            \/ A[i].at[1] = P[k][1] /\ A[i].code \in {"rejected", "transient"}
      BY <2>1 DEF Explained
    <3>2. i \in DOMAIN A2 /\ A2[i] = A[i]
      BY <1>3
    <3> QED BY <3>1, <3>2 DEF Explained
  <2>2. CASE ~ Explained(A, P[k])
    <3>1. PICK j \in DOMAIN R : R[j] = P[k]
      BY <2>2 DEF Covered
    <3>2. Len(A) + 1 \in DOMAIN A2 /\ A2[Len(A) + 1].at = R[1] /\ A2[Len(A) + 1].code = code
      BY <1>2, <1>3
    <3>3. CASE j = 1
      BY <3>1, <3>2, <3>3 DEF Explained
    <3>4. CASE j > 1
      BY <1>4, <3>1, <3>2, <3>4 DEF Explained
    <3> QED BY <1>1, <3>3, <3>4
  <2> QED BY <2>1, <2>2
<1> QED BY <1>3, <1>4, <1>7, <1>8 DEF A2, R2, a

\* What was heard last, after an attempt.
LEMMA HeardKeeps ==
  ASSUME NEW A \in Seq(Attempt), NEW a \in Attempt, NEW last,
         IF a.calls > 0 THEN a.code = last \/ (a.code = "circuit_open" /\ last = "transient") ELSE Heard(A, last)
  PROVE  Heard(Append(A, a), last)
<1> DEFINE A2 == Append(A, a)
<1>1. /\ Len(A) \in Nat /\ DOMAIN A2 = 1..(Len(A) + 1) /\ DOMAIN A = 1..Len(A)
      /\ A2[Len(A) + 1] = a /\ \A i \in 1..Len(A) : A2[i] = A[i]
  OBVIOUS
<1> HIDE DEF A2
<1>2. Said(A2) \subseteq 1..(Len(A) + 1)
  BY <1>1 DEF Said
<1>3. CASE a.calls > 0
  <2>1. Len(A) + 1 \in Said(A2) /\ \A j \in Said(A2) : j <= Len(A) + 1
    BY <1>1, <1>2, <1>3 DEF Said
  <2> QED BY <1>1, <1>3, <2>1 DEF Heard, A2
<1>4. CASE ~ (a.calls > 0)
  <2>1. Said(A2) = Said(A)
    BY <1>1, <1>4 DEF Said
  <2>2. \A i \in Said(A) : A2[i] = A[i]
    BY <1>1 DEF Said
  <2> QED BY <1>4, <2>1, <2>2 DEF Heard, A2
<1> QED BY <1>3, <1>4

----------------------------------------------------------------------------
(* The invariant. *)

CallerPhases == {"idle", "attaching", "calling", "inFlight", "done"}
Lasts == Failures \cup {"none", "ok"}
Caller == [pc : CallerPhases, face : Asked \cup {NoFace}, todo : Seq(Candidates), plan : Seq(Step),
           rest : Seq(Step), left : 0..Retries, calls : 0..Retries + 1, trial : BOOLEAN,
           attempts : Seq(Attempt), last : Lasts, answer : Answers]

\* While connections are attached, the plan holds no candidate that is to come.
Attaching(q) ==
  /\ IsInjective(q.todo)
  /\ \A i \in DOMAIN q.todo, k \in DOMAIN q.plan : q.plan[k][1] # q.todo[i]

\* Nothing was tried yet.
Untried(q) == q.rest = <<>> /\ q.attempts = <<>> /\ q.last = "none" /\ q.calls = 0

\* A call under way, of its first one and its retries.
Trying(q) ==
  /\ q.rest # <<>>
  /\ q.pc = "calling" => q.calls + q.left = Retries
  /\ q.pc = "inFlight" => q.calls + q.left = Retries + 1 /\ q.calls > 0

\* A success, or an answer made of what was heard last.
Finished(q) == (q.answer = "ok" /\ q.last = "ok") \/ (q.rest = <<>> /\ (q.plan = <<>> \/ q.answer = Exhausted(q)))

GoodCaller(q) ==
  /\ q \in Caller
  /\ IsInjective(q.plan)
  /\ InOrder(q.plan, q.attempts, q.rest)
  /\ q.pc = "idle" => Untried(q) /\ q.plan = <<>>
  /\ q.pc = "attaching" => Untried(q) /\ Attaching(q)
  /\ q.pc \in {"calling", "inFlight", "done"} => Covered(q.plan, q.attempts, q.rest)
  /\ q.pc \in {"calling", "inFlight"} => Trying(q)
  /\ q.pc = "calling" => IF q.calls > 0 THEN q.last = "transient" ELSE Heard(q.attempts, q.last)
  /\ q.pc = "done" => Finished(q) /\ (q.answer # "ok" => Heard(q.attempts, q.last))

\* What a breaker counts fits its window.
GoodBreaker(b) == b \in Breaker /\ b.failures <= b.samples

ChainInv ==
  /\ breakers \in [Connections -> Breaker]
  /\ \A c \in Connections : GoodBreaker(breakers[c])
  /\ callers \in [Callers -> Caller]
  /\ \A r \in Callers : GoodCaller(callers[r])

----------------------------------------------------------------------------
(* The chain of a request. *)

LEMMA Numbers ==
  Retries \in Nat /\ MinRequests \in Nat \ {0} /\ MaxSamples \in Nat /\ 0 \in 0..MaxSamples
BY ChainAssumption

LEMMA IdleIsGood == GoodCaller(IdleCaller)
<1>1. IdleCaller \in Caller
  BY ChainAssumption DEF IdleCaller, Caller, CallerPhases, Lasts, Answers
<1>2. IdleCaller.pc = "idle" /\ IdleCaller.plan = <<>> /\ Untried(IdleCaller)
  BY DEF IdleCaller, Untried
<1>3. IsInjective(<<>>)
  BY DEF IsInjective
<1>4. InOrder(<<>>, <<>>, <<>>)
  BY DEF InOrder
<1>5. IdleCaller.attempts = <<>> /\ IdleCaller.rest = <<>>
  BY <1>2 DEF Untried
<1> QED BY <1>1, <1>2, <1>3, <1>4, <1>5 DEF GoodCaller

\* A chain goes on with what is left, or ends with what was heard.
LEMMA StartsKeeps ==
  ASSUME NEW q \in Caller, NEW rest \in Seq(Step), IsInjective(q.plan), InOrder(q.plan, q.attempts, rest),
         Covered(q.plan, q.attempts, rest), Heard(q.attempts, q.last)
  PROVE  GoodCaller(Starts(q, rest))
<1> DEFINE next == [q EXCEPT !.rest = rest, !.left = Retries, !.calls = 0]
           going == [next EXCEPT !.pc = "calling"]
           over == [next EXCEPT !.pc = "done", !.answer = Exhausted(q)]
<1>1. Starts(q, rest) = IF rest # <<>> THEN going ELSE over
  BY DEF Starts
<1>2. Retries \in Nat /\ Retries \in 0..Retries /\ 0 \in 0..Retries + 1
  BY ChainAssumption
<1>3. Exhausted(q) \in Answers
  BY DEF Exhausted, Answers
<1>4. CASE rest # <<>>
  <2>1. /\ going \in Caller /\ going.plan = q.plan /\ going.attempts = q.attempts /\ going.rest = rest
        /\ going.pc = "calling" /\ going.last = q.last /\ going.calls = 0 /\ going.left = Retries
    BY <1>2 DEF Caller, CallerPhases
  <2> HIDE DEF going
  <2>2. Trying(going)
    BY <1>2, <1>4, <2>1 DEF Trying
  <2> QED BY <1>1, <1>4, <2>1, <2>2 DEF GoodCaller
<1>5. CASE rest = <<>>
  <2>1. /\ over \in Caller /\ over.plan = q.plan /\ over.attempts = q.attempts /\ over.rest = rest
        /\ over.pc = "done" /\ over.last = q.last /\ over.answer = Exhausted(q)
    BY <1>2, <1>3 DEF Caller, CallerPhases
  <2> HIDE DEF over
  <2>2. Exhausted(over) = Exhausted(q)
    BY <2>1 DEF Exhausted
  <2>3. Finished(over)
    BY <1>5, <2>1, <2>2 DEF Finished
  <2> QED BY <1>1, <1>5, <2>1, <2>3 DEF GoodCaller
<1> QED BY <1>4, <1>5

\* A failed attempt is recorded, and the chain goes on.
LEMMA FailedKeeps ==
  ASSUME NEW q \in Caller, q.rest # <<>>, NEW code \in Codes, IsInjective(q.plan),
         InOrder(q.plan, q.attempts, q.rest), Covered(q.plan, q.attempts, q.rest),
         IF q.calls > 0 THEN code = q.last \/ (code = "circuit_open" /\ q.last = "transient")
         ELSE Heard(q.attempts, q.last)
  PROVE  GoodCaller(Failed(q, code))
<1> DEFINE a == [at |-> Head(q.rest), code |-> code, calls |-> q.calls]
           rest == AfterFailure(q.rest, code)
           next == [q EXCEPT !.attempts = Append(q.attempts, a)]
<1>1. Failed(q, code) = Starts(next, rest)
  BY DEF Failed
<1>2. /\ q.plan \in Seq(Step) /\ q.attempts \in Seq(Attempt) /\ q.rest \in Seq(Step)
      /\ q.calls \in 0..Retries + 1
  BY DEF Caller
<1>3. /\ Append(q.attempts, a) \in Seq(Attempt) /\ rest \in Seq(Step)
      /\ InOrder(q.plan, Append(q.attempts, a), rest) /\ Covered(q.plan, Append(q.attempts, a), rest)
  BY <1>2, FailureKeeps
<1>4. a \in Attempt /\ a.code = code /\ a.calls = q.calls
  BY <1>2 DEF Attempt
<1> HIDE DEF a, rest
<1>5. Heard(Append(q.attempts, a), q.last)
  BY <1>2, <1>4, HeardKeeps
<1>6. next \in Caller /\ next.plan = q.plan /\ next.attempts = Append(q.attempts, a) /\ next.last = q.last
  BY <1>3 DEF Caller
<1> HIDE DEF next
<1> QED BY <1>1, <1>3, <1>5, <1>6, StartsKeeps

LEMMA CallerMoves ==
  ASSUME ChainInv, NEW r \in Callers, NEW q, GoodCaller(q), callers' = [callers EXCEPT ![r] = q],
         breakers' \in [Connections -> Breaker], \A c \in Connections : GoodBreaker(breakers'[c])
  PROVE  ChainInv'
<1>1. callers' \in [Callers -> Caller]
  BY DEF ChainInv, GoodCaller
<1>2. \A s \in Callers : GoodCaller(callers'[s])
  BY DEF ChainInv
<1> QED BY <1>1, <1>2 DEF ChainInv

LEMMA CallerStill ==
  ASSUME ChainInv, NEW r \in Callers, NEW q, GoodCaller(q), callers' = [callers EXCEPT ![r] = q], UNCHANGED breakers
  PROVE  ChainInv'
<1>1. breakers' \in [Connections -> Breaker] /\ \A c \in Connections : GoodBreaker(breakers'[c])
  BY DEF ChainInv
<1> QED BY <1>1, CallerMoves

\* The candidates a face can serve are distinct candidates.
LEMMA PlannedIs ==
  ASSUME NEW r \in Callers, NEW chain \in Chains[r], NEW face \in Asked
  PROVE  Planned(face, chain) \in Seq(Candidates) /\ IsInjective(Planned(face, chain))
<1>1. chain \in Seq(Candidates) /\ IsInjective(chain)
  BY ChainAssumption
<1>2. face.stream \in BOOLEAN /\ face.protocol \in Protocols
  BY ChainAssumption
<1>3. \A keep : Only(chain, keep) \in Seq(Candidates) /\ IsInjective(Only(chain, keep))
  BY <1>1, OnlyIs, OnlyInjective
<1>4. Planned(face, chain) = chain \/ \E keep : Planned(face, chain) = Only(chain, keep)
  <2>1. CASE face.stream BY <2>1 DEF Planned
  <2>2. CASE ~ face.stream /\ face.protocol = "chat_completions" BY <2>2 DEF Planned
  <2>3. CASE ~ face.stream /\ face.protocol = "messages" BY <2>3 DEF Planned
  <2>4. CASE ~ face.stream /\ face.protocol = "responses" BY <2>4 DEF Planned
  <2> QED BY <1>2, <2>1, <2>2, <2>3, <2>4 DEF Protocols
<1> QED BY <1>1, <1>3, <1>4

LEMMA ArriveKeeps == ASSUME ChainInv, NEW r \in Callers, Arrive(r) PROVE ChainInv'
<1>1. PICK chain \in Chains[r], face \in Asked :
        callers' = [callers EXCEPT ![r] =
          IF Planned(face, chain) = <<>>
          THEN [IdleCaller EXCEPT !.pc = "done", !.face = face, !.answer = "unsupported"]
          ELSE [IdleCaller EXCEPT !.pc = "attaching", !.face = face, !.todo = Planned(face, chain)]]
  BY DEF Arrive
<1> DEFINE todo == Planned(face, chain)
           none == [IdleCaller EXCEPT !.pc = "done", !.face = face, !.answer = "unsupported"]
           begun == [IdleCaller EXCEPT !.pc = "attaching", !.face = face, !.todo = todo]
<1>2. todo \in Seq(Candidates) /\ IsInjective(todo)
  BY PlannedIs
<1>3. /\ IdleCaller \in Caller /\ IdleCaller.plan = <<>> /\ IdleCaller.attempts = <<>> /\ IdleCaller.rest = <<>>
      /\ IdleCaller.last = "none" /\ IdleCaller.calls = 0 /\ IsInjective(<<>>) /\ InOrder(<<>>, <<>>, <<>>)
  BY IdleIsGood DEF GoodCaller, IdleCaller
<1>4. UNCHANGED breakers
  BY DEF Arrive
<1>5. GoodCaller(none)
  <2>1. /\ none \in Caller /\ none.plan = <<>> /\ none.attempts = <<>> /\ none.rest = <<>> /\ none.last = "none"
        /\ none.pc = "done"
    BY <1>3 DEF Caller, CallerPhases, Answers
  <2> HIDE DEF none
  <2>2. Covered(<<>>, <<>>, <<>>) /\ Heard(<<>>, "none") /\ Finished(none)
    BY <2>1 DEF Covered, Heard, Said, Finished
  <2> QED BY <1>3, <2>1, <2>2 DEF GoodCaller
<1>6. GoodCaller(begun)
  <2> HIDE DEF todo
  <2>1. /\ begun \in Caller /\ begun.plan = <<>> /\ begun.attempts = <<>> /\ begun.rest = <<>> /\ begun.last = "none"
        /\ begun.calls = 0 /\ begun.todo = todo /\ begun.pc = "attaching"
    BY <1>2, <1>3 DEF Caller, CallerPhases
  <2> HIDE DEF begun
  <2>2. Untried(begun) /\ Attaching(begun)
    BY <1>2, <2>1 DEF Untried, Attaching
  <2> QED BY <1>3, <2>1, <2>2 DEF GoodCaller
<1> HIDE DEF none, begun
<1>7. callers' = [callers EXCEPT ![r] = IF todo = <<>> THEN none ELSE begun]
  BY <1>1 DEF none, begun
<1> QED BY <1>4, <1>5, <1>6, <1>7, CallerStill

\* The connections of a candidate join a plan that has none of its steps.
LEMMA PlanGrows ==
  ASSUME NEW plan \in Seq(Step), IsInjective(plan), NEW candidate \in Candidates,
         NEW keys \in Seq(Connections), IsInjective(keys),
         \A k \in DOMAIN plan : plan[k][1] # candidate
  PROVE  LET grown == plan \o [i \in DOMAIN keys |-> <<candidate, keys[i]>>]
         IN /\ grown \in Seq(Step) /\ IsInjective(grown)
            /\ \A k \in DOMAIN grown : grown[k][1] = candidate \/ \E l \in DOMAIN plan : grown[k] = plan[l]
<1> DEFINE steps == [i \in DOMAIN keys |-> <<candidate, keys[i]>>]
           grown == plan \o steps
<1>1. \A i \in DOMAIN keys : keys[i] \in Connections /\ <<candidate, keys[i]>> \in Step
  BY DEF Step
<1>2. DOMAIN keys = 1..Len(keys) /\ Len(keys) \in Nat
  OBVIOUS
<1>3. steps \in Seq(Step) /\ Len(steps) = Len(keys) /\ \A i \in 1..Len(keys) : steps[i] = <<candidate, keys[i]>>
  <2>1. steps \in [1..Len(keys) -> Step]
    BY <1>1, <1>2
  <2>2. \A i \in 1..Len(keys) : steps[i] = <<candidate, keys[i]>>
    BY <1>2
  <2> HIDE DEF steps
  <2> QED BY <1>2, <2>1, <2>2
<1> HIDE DEF steps
<1>4. /\ grown \in Seq(Step) /\ DOMAIN grown = 1..(Len(plan) + Len(keys)) /\ Len(plan) \in Nat
      /\ DOMAIN plan = 1..Len(plan)
      /\ \A k \in 1..Len(plan) : grown[k] = plan[k]
      /\ \A k \in (Len(plan) + 1)..(Len(plan) + Len(keys)) : grown[k] = steps[k - Len(plan)]
  <2>1. Len(plan) \in Nat /\ DOMAIN plan = 1..Len(plan)
    OBVIOUS
  <2>2. grown \in Seq(Step) /\ Len(grown) = Len(plan) + Len(keys)
    <3>1. steps \in Seq(Step) /\ Len(steps) = Len(keys)
      BY <1>3
    <3> QED BY <3>1
  <2>3. DOMAIN grown = 1..(Len(plan) + Len(keys))
    BY <2>2
  <2>4. \A k \in 1..(Len(plan) + Len(steps)) : grown[k] = IF k <= Len(plan) THEN plan[k] ELSE steps[k - Len(plan)]
    BY <1>3
  <2> HIDE DEF grown
  <2> QED BY <1>2, <1>3, <2>1, <2>2, <2>3, <2>4
<1> HIDE DEF grown
<1>5. \A k \in DOMAIN grown :
        \/ k \in DOMAIN plan /\ grown[k] = plan[k] /\ grown[k][1] # candidate
        \/ /\ k - Len(plan) \in DOMAIN keys
           /\ grown[k][1] = candidate /\ grown[k][2] = keys[k - Len(plan)]
  <2> SUFFICES ASSUME NEW k \in DOMAIN grown PROVE
        \/ k \in DOMAIN plan /\ grown[k] = plan[k] /\ grown[k][1] # candidate
        \/ /\ k - Len(plan) \in DOMAIN keys
           /\ grown[k][1] = candidate /\ grown[k][2] = keys[k - Len(plan)]
    OBVIOUS
  <2>1. CASE k \in 1..Len(plan) BY <1>4, <2>1
  <2>2. CASE k \in (Len(plan) + 1)..(Len(plan) + Len(keys))
    <3>1. k - Len(plan) \in 1..Len(keys) /\ grown[k] = steps[k - Len(plan)]
      BY <1>2, <1>4, <2>2
    <3>2. grown[k] = <<candidate, keys[k - Len(plan)]>>
      BY <1>3, <3>1
    <3> QED BY <1>2, <3>1, <3>2
  <2> QED BY <1>2, <1>4, <2>1, <2>2
<1>6. ASSUME NEW k \in DOMAIN grown, NEW l \in DOMAIN grown, grown[k] = grown[l] PROVE k = l
  <2>1. CASE k \in DOMAIN plan /\ grown[k] = plan[k] /\ grown[k][1] # candidate
    <3>1. l \in DOMAIN plan /\ grown[l] = plan[l]
      BY <1>5, <1>6, <2>1
    <3> QED BY <1>6, <2>1, <3>1 DEF IsInjective
  <2>2. CASE k - Len(plan) \in DOMAIN keys /\ grown[k][1] = candidate /\ grown[k][2] = keys[k - Len(plan)]
    <3>1. l - Len(plan) \in DOMAIN keys /\ grown[l][2] = keys[l - Len(plan)]
      BY <1>5, <1>6, <2>2
    <3>2. keys[k - Len(plan)] = keys[l - Len(plan)]
      BY <1>6, <2>2, <3>1
    <3>3. k - Len(plan) = l - Len(plan)
      BY <2>2, <3>1, <3>2 DEF IsInjective
    <3> QED BY <1>4, <3>3
  <2> QED BY <1>5, <2>1, <2>2
<1>7. IsInjective(grown)
  BY <1>6 DEF IsInjective
<1>8. \A k \in DOMAIN grown : grown[k][1] = candidate \/ \E l \in DOMAIN plan : grown[k] = plan[l]
  BY <1>5
<1> QED BY <1>4, <1>7, <1>8 DEF grown, steps

LEMMA AttachKeeps == ASSUME ChainInv, NEW r \in Callers, Attach(r) PROVE ChainInv'
<1> DEFINE q == callers[r]
           candidate == Head(q.todo)
<1>1. q \in Caller /\ GoodCaller(q) /\ q.pc = "attaching" /\ q.todo # <<>> /\ UNCHANGED breakers
  BY DEF ChainInv, Attach
<1>2. PICK unhealthy \in Unhealthy :
        LET usable == {c \in ToSet(KeysOf[candidate]) :
                         /\ c \notin unhealthy /\ ~ShouldSkip(c)
                         /\ q.face.stream => StreamServes(q.face.protocol, candidate)}
            keys == Only(KeysOf[candidate], usable)
        IN callers' = [callers EXCEPT ![r].todo = Tail(@),
             ![r].plan = @ \o [i \in DOMAIN keys |-> <<candidate, keys[i]>>]]
  BY DEF Attach
<1> DEFINE usable == {c \in ToSet(KeysOf[candidate]) :
                        /\ c \notin unhealthy /\ ~ShouldSkip(c)
                        /\ q.face.stream => StreamServes(q.face.protocol, candidate)}
           keys == Only(KeysOf[candidate], usable)
           grown == q.plan \o [i \in DOMAIN keys |-> <<candidate, keys[i]>>]
           next == [q EXCEPT !.todo = Tail(q.todo), !.plan = grown]
<1>3. callers' = [callers EXCEPT ![r] = next]
  BY <1>2 DEF ChainInv
<1>4. /\ q.todo \in Seq(Candidates) /\ q.plan \in Seq(Step) /\ IsInjective(q.plan) /\ Untried(q) /\ Attaching(q)
  BY <1>1 DEF GoodCaller, Caller
<1>5. /\ candidate = q.todo[1] /\ candidate \in Candidates /\ 1 \in DOMAIN q.todo
      /\ Tail(q.todo) \in Seq(Candidates) /\ DOMAIN Tail(q.todo) = 1..(Len(q.todo) - 1)
      /\ DOMAIN q.todo = 1..Len(q.todo) /\ Len(q.todo) \in Nat
      /\ \A i \in 1..(Len(q.todo) - 1) : Tail(q.todo)[i] = q.todo[i + 1]
  BY <1>1, <1>4
<1>6. KeysOf[candidate] \in Seq(Connections) /\ IsInjective(KeysOf[candidate])
  BY <1>5, ChainAssumption
<1> HIDE DEF usable, candidate
<1>7. keys \in Seq(Connections) /\ IsInjective(keys)
  BY <1>6, OnlyIs, OnlyInjective
<1>8. \A k \in DOMAIN q.plan : q.plan[k][1] # candidate
  BY <1>4, <1>5 DEF Attaching
<1> HIDE DEF keys
<1>9. /\ grown \in Seq(Step) /\ IsInjective(grown)
      /\ \A k \in DOMAIN grown : grown[k][1] = candidate \/ \E l \in DOMAIN q.plan : grown[k] = q.plan[l]
  BY <1>4, <1>5, <1>7, <1>8, PlanGrows
<1> HIDE DEF grown
<1>10. /\ next \in Caller /\ next.todo = Tail(q.todo) /\ next.plan = grown /\ next.pc = "attaching"
       /\ next.rest = <<>> /\ next.attempts = <<>> /\ next.last = "none" /\ next.calls = 0
  BY <1>1, <1>4, <1>5, <1>9 DEF Caller, Untried
<1> HIDE DEF next
<1>11. \A i \in 1..(Len(q.todo) - 1) : i + 1 \in DOMAIN q.todo /\ q.todo[i + 1] # candidate
  BY <1>4, <1>5 DEF Attaching, IsInjective
<1>12. IsInjective(Tail(q.todo))
  <2> SUFFICES ASSUME NEW i \in 1..(Len(q.todo) - 1), NEW j \in 1..(Len(q.todo) - 1), Tail(q.todo)[i] = Tail(q.todo)[j]
               PROVE  i = j
    BY <1>5 DEF IsInjective
  <2>1. q.todo[i + 1] = q.todo[j + 1] /\ i + 1 \in DOMAIN q.todo /\ j + 1 \in DOMAIN q.todo
    BY <1>5, <1>11
  <2>2. i + 1 = j + 1
    BY <1>4, <2>1 DEF Attaching, IsInjective
  <2> QED BY <2>2
<1>13. Attaching(next)
  <2> SUFFICES ASSUME NEW i \in 1..(Len(q.todo) - 1), NEW k \in DOMAIN grown
               PROVE  grown[k][1] # Tail(q.todo)[i]
    BY <1>5, <1>10, <1>12 DEF Attaching
  <2>1. i + 1 \in DOMAIN q.todo /\ Tail(q.todo)[i] = q.todo[i + 1] /\ q.todo[i + 1] # candidate
    BY <1>5, <1>11
  <2>2. CASE grown[k][1] = candidate
    BY <2>1, <2>2
  <2>3. CASE \E l \in DOMAIN q.plan : grown[k] = q.plan[l]
    BY <1>4, <2>1, <2>3 DEF Attaching
  <2> QED BY <1>9, <2>2, <2>3
<1>14. GoodCaller(next)
  <2>1. InOrder(next.plan, next.attempts, next.rest)
    BY <1>9, <1>10 DEF InOrder
  <2> QED BY <1>9, <1>10, <1>13, <2>1 DEF GoodCaller, Untried
<1> QED BY <1>1, <1>3, <1>14, CallerStill

LEMMA AttachedKeeps == ASSUME ChainInv, NEW r \in Callers, Attached(r) PROVE ChainInv'
<1> DEFINE q == callers[r]
           over == [q EXCEPT !.pc = "done", !.answer = IF q.face.stream THEN "unsupported" ELSE "unavailable"]
<1>1. q \in Caller /\ GoodCaller(q) /\ q.pc = "attaching" /\ UNCHANGED breakers
  BY DEF ChainInv, Attached
<1>2. callers' = [callers EXCEPT ![r] = IF q.plan # <<>> THEN Starts(q, q.plan) ELSE over]
  BY DEF Attached
<1>3. q.plan \in Seq(Step) /\ IsInjective(q.plan) /\ Untried(q)
  BY <1>1 DEF GoodCaller, Caller
<1>4. InOrder(q.plan, <<>>, q.plan) /\ Covered(q.plan, <<>>, q.plan) /\ Heard(<<>>, "none")
  <2>1. Len(q.plan) \in Nat /\ DOMAIN q.plan \subseteq Nat
    BY <1>3
  <2>2. \A i, j, k, l \in DOMAIN q.plan : i < j /\ q.plan[i] = q.plan[k] /\ q.plan[j] = q.plan[l] => k < l
    BY <1>3, <2>1 DEF IsInjective
  <2> QED BY <2>1, <2>2 DEF InOrder, Covered, Heard, Said
<1>5. GoodCaller(Starts(q, q.plan))
  BY <1>1, <1>3, <1>4, StartsKeeps DEF Untried
<1>6. CASE q.plan = <<>>
  <2>1. /\ over \in Caller /\ over.pc = "done" /\ over.plan = <<>> /\ over.attempts = <<>>
        /\ over.rest = <<>> /\ over.last = "none"
    BY <1>1, <1>3, <1>6 DEF Caller, CallerPhases, Answers, Untried
  <2> HIDE DEF over
  <2>2. GoodCaller(over)
    BY <1>3, <1>4, <1>6, <2>1 DEF GoodCaller, Finished
  <2> QED BY <1>1, <1>2, <1>6, <2>2, CallerStill
<1>7. CASE q.plan # <<>>
  BY <1>1, <1>2, <1>5, <1>7, CallerStill
<1> QED BY <1>6, <1>7

----------------------------------------------------------------------------
(* Attempts and breakers. *)

LEMMA BreakerMoves ==
  ASSUME ChainInv, NEW c \in Connections, NEW b, GoodBreaker(b), breakers' = [breakers EXCEPT ![c] = b]
  PROVE  breakers' \in [Connections -> Breaker] /\ \A d \in Connections : GoodBreaker(breakers'[d])
BY DEF ChainInv, GoodBreaker

LEMMA FreshIsGood == GoodBreaker(NewBreaker) /\ GoodBreaker(Opened)
<1>1. NewBreaker \in Breaker /\ NewBreaker.failures = 0 /\ NewBreaker.samples = 0
  BY Numbers DEF NewBreaker, Breaker
<1>2. Opened \in Breaker /\ Opened.failures = 0 /\ Opened.samples = 0
  BY <1>1 DEF Opened, Breaker
<1> QED BY <1>1, <1>2 DEF GoodBreaker

LEMMA ExecuteKeeps == ASSUME ChainInv, NEW r \in Callers, Execute(r) PROVE ChainInv'
<1> DEFINE q == callers[r]
           c == Head(q.rest)[2]
           b == breakers[c]
           sent == [q EXCEPT !.pc = "inFlight", !.calls = q.calls + 1]
           trial == [sent EXCEPT !.trial = TRUE]
<1>1. q \in Caller /\ GoodCaller(q) /\ q.pc = "calling" /\ Trying(q)
  BY DEF ChainInv, Execute, GoodCaller
<1>2. q.rest \in Seq(Step) /\ q.rest # <<>> /\ q.calls \in Nat /\ q.left \in Nat /\ q.calls + q.left = Retries
  BY <1>1 DEF Caller, Trying
<1>3. Head(q.rest) \in Step
  BY <1>2
<1>4. c \in Connections /\ GoodBreaker(b) /\ b \in Breaker
  BY <1>3 DEF Step, ChainInv, GoodBreaker
<1>5. q.calls + 1 \in 0..Retries + 1 /\ q.calls + 1 > 0 /\ (q.calls + 1) + q.left = Retries + 1
  BY <1>2, Numbers
<1>6. GoodCaller(sent) /\ GoodCaller(trial)
  <2>1. /\ sent \in Caller /\ sent.pc = "inFlight" /\ sent.plan = q.plan /\ sent.attempts = q.attempts
        /\ sent.rest = q.rest /\ sent.calls = q.calls + 1 /\ sent.left = q.left
    BY <1>1, <1>5 DEF Caller, CallerPhases
  <2>2. /\ trial \in Caller /\ trial.pc = "inFlight" /\ trial.plan = q.plan /\ trial.attempts = q.attempts
        /\ trial.rest = q.rest /\ trial.calls = q.calls + 1 /\ trial.left = q.left
    <3> HIDE DEF sent
    <3> QED BY <2>1 DEF Caller
  <2> HIDE DEF sent, trial
  <2>3. Trying(sent) /\ Trying(trial)
    BY <1>2, <1>5, <2>1, <2>2 DEF Trying
  <2> QED BY <1>1, <2>1, <2>2, <2>3 DEF GoodCaller
<1>7. CASE /\ b.state = "closed"
           /\ callers' = [callers EXCEPT ![r] = sent]
           /\ UNCHANGED breakers
  BY <1>6, <1>7, CallerStill
<1>8. CASE /\ breakers' = [breakers EXCEPT ![c].state = "halfOpen"]
           /\ callers' = [callers EXCEPT ![r] = [sent EXCEPT !.trial = TRUE]]
  <2> DEFINE half == [b EXCEPT !.state = "halfOpen"]
  <2>1. GoodBreaker(half)
    BY <1>4 DEF GoodBreaker, Breaker
  <2>2. breakers' = [breakers EXCEPT ![c] = half]
    BY <1>8
  <2> HIDE DEF half, c
  <2>3. breakers' \in [Connections -> Breaker] /\ \A d \in Connections : GoodBreaker(breakers'[d])
    BY <1>4, <2>1, <2>2, BreakerMoves
  <2> QED BY <1>6, <1>8, <2>3, CallerMoves
<1>9. CASE /\ callers' = [callers EXCEPT ![r] = Failed(q, "circuit_open")]
           /\ UNCHANGED breakers
  <2>1. "circuit_open" \in Codes
    BY DEF Codes
  <2>2. GoodCaller(Failed(q, "circuit_open"))
    BY <1>1, <1>2, <2>1, FailedKeeps DEF GoodCaller
  <2> QED BY <1>9, <2>2, CallerStill
<1> QED BY <1>7, <1>8, <1>9 DEF Execute

\* A sample keeps a breaker within its window.
LEMMA SampledIs ==
  ASSUME NEW b, GoodBreaker(b), b.state = "closed" => b.samples < MaxSamples,
         NEW ok \in BOOLEAN, NEW trial \in BOOLEAN, NEW after \in Sampled(b, ok, trial)
  PROVE  GoodBreaker(after)
<1> DEFINE one == IF ok THEN 0 ELSE 1
           counted == [b EXCEPT !.samples = b.samples + 1, !.failures = b.failures + one]
<1>1. one \in 0..1
  OBVIOUS
<1>2. b.state = "closed" => GoodBreaker(counted)
  <2> HIDE DEF one
  <2> SUFFICES ASSUME b.state = "closed" PROVE GoodBreaker(counted)
    OBVIOUS
  <2>1. b.samples + 1 \in 0..MaxSamples /\ b.failures + one \in 0..MaxSamples /\ b.failures + one <= b.samples + 1
    BY <1>1, Numbers DEF GoodBreaker, Breaker
  <2>2. counted \in Breaker /\ counted.samples = b.samples + 1 /\ counted.failures = b.failures + one
    BY <2>1 DEF GoodBreaker, Breaker
  <2> HIDE DEF counted
  <2> QED BY <2>1, <2>2 DEF GoodBreaker
<1> HIDE DEF one
<1>3. (after = counted /\ b.state = "closed") \/ after = Opened \/ after = NewBreaker \/ after = b
  BY DEF Sampled, one
<1> QED BY <1>2, <1>3, FreshIsGood

LEMMA ReturnKeeps ==
  ASSUME ChainInv, NEW r \in Callers, NEW code \in Failures \cup {"ok"}, Return(r, code)
  PROVE  ChainInv'
<1> DEFINE q == callers[r]
           c == Head(q.rest)[2]
           ended == [q EXCEPT !.trial = FALSE, !.last = code]
           served == [ended EXCEPT !.pc = "done", !.answer = "ok"]
           again == [ended EXCEPT !.pc = "calling", !.left = q.left - 1]
<1>1. q \in Caller /\ GoodCaller(q) /\ q.pc = "inFlight" /\ Trying(q)
  BY DEF ChainInv, Return, GoodCaller
<1>2. /\ q.rest \in Seq(Step) /\ q.rest # <<>> /\ q.calls \in 0..Retries + 1 /\ q.left \in 0..Retries
      /\ q.calls + q.left = Retries + 1 /\ q.calls > 0 /\ q.trial \in BOOLEAN
      /\ q.attempts \in Seq(Attempt) /\ q.plan \in Seq(Step)
      /\ IsInjective(q.plan) /\ InOrder(q.plan, q.attempts, q.rest) /\ Covered(q.plan, q.attempts, q.rest)
  BY <1>1 DEF Caller, Trying, GoodCaller
<1>3. Head(q.rest) \in Step
  BY <1>2
<1>4. c \in Connections /\ GoodBreaker(breakers[c])
  BY <1>3 DEF Step, ChainInv
<1>5. PICK b \in Sampled(breakers[c], code = "ok", q.trial) : breakers' = [breakers EXCEPT ![c] = b]
  BY DEF Return
<1>6. GoodBreaker(b)
  <2>1. (code = "ok") \in BOOLEAN
    BY Zenon
  <2>2. breakers[c].state = "closed" => breakers[c].samples < MaxSamples
    BY DEF Return
  <2> HIDE DEF c, q
  <2> QED BY <1>2, <1>4, <1>5, <2>1, <2>2, SampledIs
<1>7. breakers' \in [Connections -> Breaker] /\ \A d \in Connections : GoodBreaker(breakers'[d])
  <2> HIDE DEF c
  <2> QED BY <1>4, <1>5, <1>6, BreakerMoves
<1>8. /\ ended \in Caller /\ ended.pc = "inFlight" /\ ended.plan = q.plan /\ ended.attempts = q.attempts
      /\ ended.rest = q.rest /\ ended.calls = q.calls /\ ended.left = q.left /\ ended.last = code
  BY <1>1 DEF Caller, Lasts
<1>9. callers' = [callers EXCEPT ![r] = CASE code = "ok" -> served
                                          [] code = "transient" /\ q.left > 0 -> again
                                          [] OTHER -> Failed(ended, code)]
  BY DEF Return
<1> HIDE DEF ended
<1>10. CASE code = "ok"
  <2>1. /\ served \in Caller /\ served.pc = "done" /\ served.plan = q.plan /\ served.attempts = q.attempts
        /\ served.rest = q.rest /\ served.last = "ok" /\ served.answer = "ok"
    BY <1>8, <1>10 DEF Caller, CallerPhases, Answers
  <2>2. callers' = [callers EXCEPT ![r] = served]
    BY <1>9, <1>10
  <2> HIDE DEF served
  <2>3. GoodCaller(served)
    BY <1>2, <2>1 DEF GoodCaller, Finished
  <2> QED BY <1>7, <2>2, <2>3, CallerMoves
<1>11. CASE code = "transient" /\ q.left > 0
  <2>1. q.left - 1 \in 0..Retries /\ q.calls + (q.left - 1) = Retries
    <3>1. q.left \in 0..Retries /\ q.left > 0 /\ q.calls \in 0..Retries + 1 /\ q.calls + q.left = Retries + 1
      BY <1>2, <1>11
    <3> HIDE DEF q
    <3> QED BY <3>1, Numbers
  <2>2. /\ again \in Caller /\ again.pc = "calling" /\ again.plan = q.plan /\ again.attempts = q.attempts
        /\ again.rest = q.rest /\ again.last = "transient" /\ again.calls = q.calls /\ again.left = q.left - 1
    BY <1>8, <1>11, <2>1 DEF Caller, CallerPhases
  <2>3. callers' = [callers EXCEPT ![r] = again]
    BY <1>9, <1>11
  <2> HIDE DEF again
  <2>4. GoodCaller(again)
    BY <1>2, <2>1, <2>2 DEF GoodCaller, Trying
  <2> QED BY <1>7, <2>3, <2>4, CallerMoves
<1>12. CASE code # "ok" /\ ~ (code = "transient" /\ q.left > 0)
  <2>1. callers' = [callers EXCEPT ![r] = Failed(ended, code)]
    BY <1>9, <1>12
  <2>2. code \in Codes
    BY <1>12 DEF Codes
  <2>3. GoodCaller(Failed(ended, code))
    BY <1>2, <1>8, <2>2, FailedKeeps
  <2> QED BY <1>7, <2>1, <2>3, CallerMoves
<1> QED BY <1>10, <1>11, <1>12

\* Whatever a provider answers is a success or one of the failures.
LEMMA ResultsAre ==
  ASSUME NEW status \in Statuses
  PROVE  JsonResult(status) \in Failures \cup {"ok"} /\ StreamResult(status) \in Failures \cup {"ok"}
<1>1. Refusal(status) \in Failures
  BY DEF Refusal, Failures
<1> QED BY <1>1 DEF JsonResult, StreamResult, Failures

LEMMA ChainInvInit == ChainInit => ChainInv
<1> SUFFICES ASSUME ChainInit PROVE ChainInv
  OBVIOUS
<1>1. breakers \in [Connections -> Breaker] /\ \A c \in Connections : GoodBreaker(breakers[c])
  BY FreshIsGood DEF ChainInit, GoodBreaker
<1>2. IdleCaller \in Caller
  BY IdleIsGood DEF GoodCaller
<1>3. callers \in [Callers -> Caller] /\ \A r \in Callers : GoodCaller(callers[r])
  BY <1>2, IdleIsGood DEF ChainInit
<1> QED BY <1>1, <1>3 DEF ChainInv

LEMMA ChainInvNext == ChainInv /\ [ChainNext]_chainVars => ChainInv'
<1> SUFFICES ASSUME ChainInv, [ChainNext]_chainVars PROVE ChainInv'
  OBVIOUS
<1>1. CASE UNCHANGED chainVars
  BY <1>1 DEF chainVars, ChainInv
<1>2. CASE \E r \in Callers : Arrive(r) \/ Attach(r) \/ Attached(r) \/ Execute(r)
  BY <1>2, ArriveKeeps, AttachKeeps, AttachedKeeps, ExecuteKeeps
<1>3. CASE \E r \in Callers, status \in Statuses :
             \/ OpenAIReturns(r, status) \/ AnthropicReturns(r, status)
             \/ SubscriptionReturns(r, status) \/ StreamReturns(r, status)
  <2>1. PICK r \in Callers, status \in Statuses :
             \/ OpenAIReturns(r, status) \/ AnthropicReturns(r, status)
             \/ SubscriptionReturns(r, status) \/ StreamReturns(r, status)
    BY <1>3
  <2>2. Return(r, JsonResult(status)) \/ Return(r, StreamResult(status))
    BY <2>1 DEF OpenAIReturns, AnthropicReturns, SubscriptionReturns, StreamReturns
  <2> QED BY <2>2, ResultsAre, ReturnKeeps
<1>4. CASE \E c \in Connections : Rest(c) \/ WindowPasses(c)
  <2>1. PICK c \in Connections : Rest(c) \/ WindowPasses(c)
    BY <1>4
  <2>2. GoodBreaker(breakers[c])
    BY DEF ChainInv
  <2> DEFINE rested == [breakers[c] EXCEPT !.rested = TRUE]
  <2>3. GoodBreaker(rested)
    BY <2>2 DEF GoodBreaker, Breaker
  <2>4. UNCHANGED callers
    BY <2>1 DEF Rest, WindowPasses
  <2>5. breakers' = [breakers EXCEPT ![c] = rested] \/ breakers' = [breakers EXCEPT ![c] = NewBreaker]
    BY <2>1 DEF Rest, WindowPasses
  <2> HIDE DEF rested
  <2>6. breakers' \in [Connections -> Breaker] /\ \A d \in Connections : GoodBreaker(breakers'[d])
    BY <2>3, <2>5, FreshIsGood, BreakerMoves
  <2> QED BY <2>4, <2>6 DEF ChainInv
<1> QED BY <1>1, <1>2, <1>3, <1>4 DEF ChainNext

LEMMA ChainInvHolds == ChainSpec => []ChainInv
BY ChainInvInit, ChainInvNext, PTL DEF ChainSpec

LEMMA ChainInvIsTyped == ChainInv => ChainTypeOK
<1> SUFFICES ASSUME ChainInv, NEW r \in Callers PROVE
      /\ callers[r].pc \in {"idle", "attaching", "calling", "inFlight", "done"}
      /\ callers[r].left \in 0..Retries /\ callers[r].calls \in 0..Retries + 1
      /\ callers[r].last \in Failures \cup {"none", "ok"}
      /\ callers[r].face \in Asked \cup {NoFace}
      /\ callers[r].answer \in Answers
      /\ Len(callers[r].attempts) <= Len(callers[r].plan)
  BY DEF ChainTypeOK, ChainInv
<1>1. callers[r] \in Caller /\ InOrder(callers[r].plan, callers[r].attempts, callers[r].rest)
  BY DEF ChainInv, GoodCaller
<1>2. Len(callers[r].attempts) <= Len(callers[r].plan)
  <2>1. /\ callers[r].attempts \in Seq(Attempt) /\ callers[r].rest \in Seq(Step)
        /\ callers[r].plan \in Seq(Step)
    BY <1>1 DEF Caller
  <2>2. /\ Len(callers[r].attempts) \in Nat /\ Len(callers[r].rest) \in Nat
        /\ Len(callers[r].plan) \in Nat
    BY <2>1, LenProperties
  <2>3. Len(callers[r].attempts) + Len(callers[r].rest) <= Len(callers[r].plan)
    BY <1>1 DEF InOrder
  <2>4. \A a, b, c \in Nat : a + b <= c => a <= c
    OBVIOUS
  <2> QED BY <2>2, <2>3, <2>4, Zenon
<1> QED BY <1>1, <1>2 DEF Caller, CallerPhases, Lasts

\* Every caller and breaker keeps its type, no breaker counts past its window, and no
\* request makes more attempts than its plan has steps, whatever the retries
\* (executeProviderFallbackAttempts, createProviderCircuitBreakerRegistry).
THEOREM ChainTyped == ChainSpec => []ChainTypeOK
<1> QED BY ChainInvIsTyped, ChainInvHolds, PTL

LEMMA ChainInvExplains == ChainInv => AttemptsExplainAnswer
<1>1. ASSUME ChainInv, NEW r \in Callers
      PROVE  LET q == callers[r]
                 tried == [i \in DOMAIN q.attempts |-> q.attempts[i].at]
             IN \A i, j \in DOMAIN tried : \A k, l \in DOMAIN q.plan :
                  i < j /\ tried[i] = q.plan[k] /\ tried[j] = q.plan[l] => k < l
  <2>1. InOrder(callers[r].plan, callers[r].attempts, callers[r].rest)
    BY <1>1 DEF ChainInv, GoodCaller
  <2> QED BY <2>1 DEF InOrder
<1>2. ASSUME ChainInv, NEW r \in Callers, callers[r].pc = "done", NEW step \in ToSet(callers[r].plan)
      PROVE  LET q == callers[r]
                 tried == [i \in DOMAIN q.attempts |-> q.attempts[i].at]
             IN \/ q.last = "ok" /\ q.rest # <<>> /\ step \in ToSet(q.rest)
                \/ \E i \in DOMAIN tried :
                     \/ q.attempts[i].code \in {"redirect", "empty"}
                     \/ tried[i] = step
                     \/ tried[i][1] = step[1] /\ q.attempts[i].code \in {"rejected", "transient"}
  <2> DEFINE q == callers[r]
  <2>1. Covered(q.plan, q.attempts, q.rest) /\ Finished(q) /\ q \in Caller
    BY <1>1, <1>2 DEF ChainInv, GoodCaller
  <2>2. PICK k \in DOMAIN q.plan : step = q.plan[k]
    BY <1>2 DEF ToSet
  <2>3. CASE Explained(q.attempts, step)
    BY <2>3 DEF Explained
  <2>4. CASE ~ Explained(q.attempts, step)
    <3>1. PICK j \in DOMAIN q.rest : q.rest[j] = step
      BY <2>1, <2>2, <2>4 DEF Covered
    <3>2. q.rest # <<>> /\ step \in ToSet(q.rest)
      BY <3>1 DEF ToSet
    <3>3. q.last = "ok"
      BY <2>1, <3>2 DEF Finished
    <3> QED BY <3>2, <3>3
  <2> QED BY <2>3, <2>4
<1>3. ASSUME ChainInv, NEW r \in Callers, callers[r].pc = "done", callers[r].plan # <<>>, callers[r].answer # "ok"
      PROVE  LET q == callers[r]
                 said == {i \in DOMAIN q.attempts : q.attempts[i].calls > 0}
                 code == IF said = {} THEN "none" ELSE q.attempts[Max(said)].code
             IN q.answer = CASE code \in {"credential", "rejected"} -> "passthrough"
                             [] code = "redirect" -> "redirect_rejected"
                             [] OTHER -> "request_failed"
  <2> DEFINE q == callers[r]
             said == Said(q.attempts)
             code == IF said = {} THEN "none" ELSE q.attempts[Max(said)].code
  <2>1. q.answer = Exhausted(q) /\ Heard(q.attempts, q.last) /\ q.attempts \in Seq(Attempt)
    BY <1>3 DEF ChainInv, GoodCaller, Finished, Caller
  <2>2. said \subseteq Nat
    BY <2>1 DEF Said
  <2>3. CASE said = {}
    BY <2>1, <2>3 DEF Heard, Exhausted, Said
  <2>4. CASE said # {}
    <3>1. PICK i \in said : /\ \A j \in said : j <= i
                            /\ \/ q.attempts[i].code = q.last
                               \/ q.attempts[i].code = "circuit_open" /\ q.last = "transient"
      BY <2>1, <2>4 DEF Heard
    <3>2. Max(said) = i
      BY <2>2, <3>1 DEF Max
    <3>3. code = q.attempts[i].code
      BY <2>4, <3>2
    <3> HIDE DEF code, said
    <3>4. q.answer = CASE code \in {"credential", "rejected"} -> "passthrough"
                       [] code = "redirect" -> "redirect_rejected"
                       [] OTHER -> "request_failed"
      BY <2>1, <3>1, <3>3 DEF Exhausted
    <3> QED BY <3>4 DEF code, said, Said
  <2> QED BY <2>3, <2>4
<1> QED BY <1>1, <1>2, <1>3 DEF AttemptsExplainAnswer

\* The attempts of a request explain its answer (executeProviderFallbackAttempts,
\* classifyFallbackFailure, buildFallbackExhaustionError): they follow the plan, no step
\* is left out without a reason, and an exhausted chain passes on what a provider said
\* last, for any chains, connections, retries and breakers.
THEOREM AttemptsExplained == ChainSpec => []AttemptsExplainAnswer
<1> QED BY ChainInvExplains, ChainInvHolds, PTL

----------------------------------------------------------------------------
(* StreamPipeline: the numbers of a set in rising order. *)

\* What rises and takes exactly the numbers of a set is that set in rising order.
LEMMA RisingIs ==
  ASSUME NEW N \in Nat, NEW g \in [1..N -> Nat], \A m, n \in 1..N : m < n => g[m] < g[n],
         NEW at, at = {g[n] : n \in 1..N}
  PROVE  Rising(at) = g
<1> DEFINE upto(i) == {j \in at : j <= i}
           rank(i) == Cardinality(upto(i))
<1>1. \A m, n \in 1..N : (g[m] <= g[n] <=> m <= n) /\ (g[m] = g[n] => m = n)
  OBVIOUS
<1>2. ASSUME NEW n \in 1..N PROVE rank(g[n]) = n
  <2> DEFINE first == [m \in 1..n |-> g[m]]
  <2>1. IsFiniteSet(1..n) /\ Cardinality(1..n) = n
    BY FS_Interval
  <2>2. upto(g[n]) = {g[m] : m \in 1..n}
    <3>1. \A m \in 1..N : g[m] <= g[n] <=> m \in 1..n BY <1>1
    <3>2. 1..n \subseteq 1..N OBVIOUS
    <3> QED BY <3>1, <3>2
  <2>3. first \in Bijection(1..n, upto(g[n]))
    <3>1. first \in [1..n -> upto(g[n])] BY <2>2
    <3>2. \A m, o \in 1..n : first[m] = first[o] => m = o BY <1>1
    <3>3. \A x \in upto(g[n]) : \E m \in 1..n : first[m] = x BY <2>2
    <3> HIDE DEF first, upto
    <3> QED BY <3>1, <3>2, <3>3 DEF Bijection, Injection, Surjection, IsInjective
  <2> HIDE DEF first, upto
  <2>4. ExistsBijection(1..n, upto(g[n]))
    BY <2>3 DEF ExistsBijection
  <2>5. Cardinality(1..n) = Cardinality(upto(g[n]))
    BY <2>1, <2>4, FS_Bijection
  <2> QED BY <2>1, <2>5
<1>3. Cardinality(at) = N
  <2>1. CASE N = 0
    BY <2>1, FS_EmptySet
  <2>2. CASE N # 0
    <3>1. upto(g[N]) = at BY <1>1, <2>2
    <3>2. rank(g[N]) = N BY <1>2, <2>2
    <3> HIDE DEF upto
    <3> QED BY <3>1, <3>2
  <2> QED BY <2>1, <2>2
<1>4. ASSUME NEW n \in 1..N PROVE (CHOOSE i \in at : rank(i) = n) = g[n]
  <2>1. g[n] \in at /\ rank(g[n]) = n
    BY <1>2
  <2>2. \A i \in at : rank(i) = n => i = g[n]
    <3> SUFFICES ASSUME NEW i \in at, rank(i) = n PROVE i = g[n]
      OBVIOUS
    <3>1. PICK m \in 1..N : i = g[m] OBVIOUS
    <3>2. rank(g[m]) = m BY <1>2
    <3> HIDE DEF rank
    <3> QED BY <3>1, <3>2
  <2> HIDE DEF rank, upto
  <2> QED BY <2>1, <2>2
<1>5. Rising(at) = [n \in 1..N |-> g[n]]
  <2> HIDE DEF upto
  <2>1. Rising(at) = [n \in 1..N |-> CHOOSE i \in at : rank(i) = n]
    BY <1>3 DEF Rising, upto
  <2> HIDE DEF rank
  <2> QED BY <1>4, <2>1
<1> QED BY <1>5

\* A set of naturals that has a member has a least one.
LEMMA LeastOf ==
  ASSUME NEW T \in SUBSET Nat, T # {}
  PROVE  \E n \in T : \A m \in T : n <= m
<1>1. PICK t \in T : TRUE
  OBVIOUS
<1> DEFINE S == 0..t
           initials == {0..n : n \in {n \in T : n <= t}}
<1>2. initials \subseteq SUBSET S /\ initials # {}
  <2>1. \A n \in Nat : n <= t => 0..n \subseteq 0..t OBVIOUS
  <2> QED BY <2>1
<1>3. IsWellFoundedOn(StrictSubsetOrdering(S), SUBSET S)
  <2>1. IsFiniteSet(S) BY FS_Interval
  <2> HIDE DEF S
  <2> QED BY <2>1, FS_StrictSubsetOrderingWellFounded, FS_FiniteSubsetsOfFinite
<1>4. PICK s \in initials : \A r \in initials : <<r, s>> \notin StrictSubsetOrdering(S)
  <2> HIDE DEF initials, S
  <2> QED BY <1>2, <1>3, WFMin
<1>5. PICK n \in T : n <= t /\ s = 0..n
  OBVIOUS
<1>6. ASSUME NEW m \in T, m < n PROVE FALSE
  <2>1. 0..m \in initials BY <1>5, <1>6
  <2>2. 0..m \subseteq 0..n /\ 0..m # 0..n
    <3>1. n \in 0..n /\ n \notin 0..m BY <1>6
    <3> QED BY <1>6, <3>1
  <2>3. 0..m \in SUBSET S /\ s \in SUBSET S BY <1>2, <2>1
  <2> HIDE DEF initials, S
  <2> QED BY <1>4, <1>5, <2>1, <2>2, <2>3 DEF StrictSubsetOrdering
<1> QED BY <1>6

----------------------------------------------------------------------------
(* What the events of a body say so far. *)

\* The last usage of these kinds among the first k events.
LastOf(events, kinds, k) ==
  LET at == {i \in 1..k : events[i].kind \in kinds}
  IN IF at = {} THEN NoUsage
     ELSE LET e == events[CHOOSE i \in at : \A j \in at : j <= i] IN [in |-> e.in, out |-> e.out]

\* What messages say together: the input of the last start, the output of the last of either.
MessagesOf(events, k) ==
  IF LastOf(events, {"start", "delta"}, k) = NoUsage THEN NoUsage
  ELSE [in |-> IF LastOf(events, {"start"}, k) = NoUsage THEN 0 ELSE LastOf(events, {"start"}, k).in,
        out |-> LastOf(events, {"start", "delta"}, k).out]

\* The collector that has read the first k events and holds a buffer.
Says(events, k, buffer) ==
  [buffer |-> buffer, provider |-> LastOf(events, {"usage"}, k), messages |-> MessagesOf(events, k)]

\* One event more is the last if it is of the kinds.
LEMMA LastOfNext ==
  ASSUME NEW events \in Seq(StreamEvent), NEW k \in Nat, k + 1 <= Len(events), NEW kinds
  PROVE  LastOf(events, kinds, k + 1) =
           IF events[k + 1].kind \in kinds THEN [in |-> events[k + 1].in, out |-> events[k + 1].out] ELSE LastOf(events, kinds, k)
<1> DEFINE at(n) == {i \in 1..n : events[i].kind \in kinds}
           last(n) == CHOOSE i \in at(n) : \A j \in at(n) : j <= i
<1>1. CASE events[k + 1].kind \in kinds
  <2>1. k + 1 \in at(k + 1) /\ \A j \in at(k + 1) : j <= k + 1
    BY <1>1
  <2>2. last(k + 1) = k + 1
    <3>1. \A i \in at(k + 1) : i \in Nat OBVIOUS
    <3> HIDE DEF at
    <3> QED BY <2>1, <3>1
  <2>3. at(k + 1) # {} BY <2>1
  <2> QED BY <1>1, <2>2, <2>3 DEF LastOf
<1>2. CASE events[k + 1].kind \notin kinds
  <2>1. at(k + 1) = at(k)
    <3>1. 1..(k + 1) = (1..k) \cup {k + 1} OBVIOUS
    <3> QED BY <1>2, <3>1
  <2> QED BY <1>2, <2>1 DEF LastOf
<1> QED BY <1>1, <1>2

\* Nothing was said, or an event of the kinds said it.
LEMMA LastOfIs ==
  ASSUME NEW events \in Seq(StreamEvent), NEW k \in 0..Len(events), NEW kinds
  PROVE  /\ LastOf(events, kinds, k) = NoUsage <=> \A i \in 1..k : events[i].kind \notin kinds
         /\ LastOf(events, kinds, k) # NoUsage => LastOf(events, kinds, k) \in [in : Nat, out : Nat]
<1> DEFINE at == {i \in 1..k : events[i].kind \in kinds}
           last == CHOOSE i \in at : \A j \in at : j <= i
           said == [in |-> events[last].in, out |-> events[last].out]
<1>1. CASE at = {}
  <2>1. LastOf(events, kinds, k) = NoUsage BY <1>1 DEF LastOf
  <2> QED BY <1>1, <2>1
<1>2. CASE at # {}
  <2>1. at \subseteq Nat /\ (\A i \in at : i <= k) /\ k \in Nat OBVIOUS
  <2>2. IsFiniteSet(at)
    <3>1. IsFiniteSet(1..k) BY <2>1, FS_Interval
    <3> QED BY <3>1, FS_Subset
  <2>3. \E i \in at : \A j \in at : j <= i
    <3> HIDE DEF at
    <3> DEFINE above == {k - i : i \in at}
    <3>1. \A i \in at : k - i \in Nat BY <2>1
    <3>2. above \subseteq Nat /\ above # {} BY <3>1, <1>2
    <3> HIDE DEF above
    <3>4. PICK n \in above : \A m \in above : n <= m
      BY <3>2, LeastOf
    <3>5. PICK i \in at : n = k - i BY DEF above
    <3>6. \A j \in at : k - j \in above BY DEF above
    <3>7. \A j \in at : k - i <= k - j BY <3>4, <3>5, <3>6
    <3> QED BY <2>1, <3>7
  <2>4. last \in at
    <3> HIDE DEF at
    <3> QED BY <2>3
  <2>5. events[last] \in StreamEvent
    <3>1. last \in 1..Len(events) BY <2>4
    <3> HIDE DEF last
    <3> QED BY <3>1
  <2> HIDE DEF last
  <2>6. said \in [in : Nat, out : Nat] BY <2>5 DEF StreamEvent
  <2>7. said # NoUsage
    <3>1. said.in \in Nat BY <2>6
    <3>2. NoUsage.in = -1 BY DEF NoUsage
    <3> HIDE DEF said
    <3> QED BY <3>1, <3>2
  <2>8. LastOf(events, kinds, k) = said BY <1>2 DEF LastOf, last
  <2> QED BY <1>2, <2>6, <2>7, <2>8
<1> QED BY <1>1, <1>2

\* A token is half of a line or an end of one.
LEMMA Tokens ==
  ASSUME NEW e
  PROVE  /\ <<"first", e>> \notin {CR, LF} /\ <<"second", e>> \notin {CR, LF} /\ CR # LF
         /\ <<"first", e>> # <<"second", e>>
  BY DEF CR, LF

\* The halves of one event are that event, and nothing is none.
LEMMA ParsedIs ==
  ASSUME NEW e
  PROVE  /\ \A frame : Len(frame) = 2 /\ DOMAIN frame = 1..2 /\ frame[1] = <<"first", e>> /\ frame[2] = <<"second", e>>
                         => Parsed(frame) = {e}
         /\ Parsed(<<>>) = {}
<1>1. ASSUME NEW frame, DOMAIN frame = 1..2, frame[1] = <<"first", e>>, frame[2] = <<"second", e>>
      PROVE  Parsed(frame) = {e}
  <2> DEFINE data == {i \in DOMAIN frame : frame[i] \notin {CR, LF}}
             whole == {i \in data : frame[i][1] = "first" /\ \E j \in data : data = {i, j} /\ i < j /\ frame[j][1] = "second"}
  <2>1. data = {1, 2}
    BY <1>1, Tokens
  <2>2. whole = {1}
    <3>1. frame[1][1] = "first" /\ frame[2][1] = "second" BY <1>1
    <3> HIDE DEF data
    <3> QED BY <2>1, <3>1
  <2>3. frame[1][2] = e BY <1>1
  <2>4. Parsed(frame) = {frame[i][2] : i \in whole} BY DEF Parsed
  <2> HIDE DEF whole
  <2> QED BY <2>2, <2>3, <2>4
<1>2. Parsed(<<>>) = {}
  BY DEF Parsed
<1> QED BY <1>1, <1>2

\* The frame of the next event brings the collector to what one event more says.
LEMMA FrameReadIs ==
  ASSUME NEW events \in Seq(StreamEvent), NEW k \in Nat, k + 1 <= Len(events), NEW buffer,
         NEW frame, DOMAIN frame = 1..2, Len(frame) = 2,
         frame[1] = <<"first", events[k + 1]>>, frame[2] = <<"second", events[k + 1]>>
  PROVE  FrameRead(Says(events, k, buffer), frame) = Says(events, k + 1, buffer)
<1> DEFINE e == events[k + 1]
           c == Says(events, k, buffer)
           used == [in |-> e.in, out |-> e.out]
<1>1. e \in StreamEvent
  BY k + 1 \in 1..Len(events)
<1>2. used \in [in : Nat, out : Nat] /\ used # NoUsage /\ used.in = e.in /\ used.out = e.out
  <2>1. used \in [in : Nat, out : Nat] BY <1>1 DEF StreamEvent
  <2>2. used.in \in Nat BY <2>1
  <2>3. NoUsage.in = -1 BY DEF NoUsage
  <2> HIDE DEF used
  <2>4. used # NoUsage BY <2>2, <2>3
  <2> QED BY <2>1, <2>4 DEF used
<1>3. /\ LastOf(events, {"usage"}, k + 1) = IF e.kind = "usage" THEN used ELSE LastOf(events, {"usage"}, k)
      /\ LastOf(events, {"start"}, k + 1) = IF e.kind = "start" THEN used ELSE LastOf(events, {"start"}, k)
      /\ LastOf(events, {"start", "delta"}, k + 1) = IF e.kind \in {"start", "delta"} THEN used ELSE LastOf(events, {"start", "delta"}, k)
  <2>1. \A kinds : LastOf(events, kinds, k + 1) = IF e.kind \in kinds THEN used ELSE LastOf(events, kinds, k)
    BY LastOfNext
  <2> HIDE DEF e, used
  <2> QED BY <2>1
<1>4. LastOf(events, {"start", "delta"}, k) = NoUsage => LastOf(events, {"start"}, k) = NoUsage
  <2>1. k \in 0..Len(events) OBVIOUS
  <2> QED BY <2>1, LastOfIs
<1>5. MessagesOf(events, k) = NoUsage <=> LastOf(events, {"start", "delta"}, k) = NoUsage
  <2>1. k \in 0..Len(events) OBVIOUS
  <2>2. LastOf(events, {"start", "delta"}, k) # NoUsage => MessagesOf(events, k).out \in Nat
    BY <2>1, LastOfIs DEF MessagesOf
  <2>3. NoUsage.out = -1 BY DEF NoUsage
  <2>4. -1 \notin Nat OBVIOUS
  <2> QED BY <2>2, <2>3, <2>4 DEF MessagesOf
<1>6. Parsed(frame) = {e}
  BY ParsedIs
<1>7. (CHOOSE f \in Parsed(frame) : TRUE) = e
  <2> HIDE DEF e
  <2> QED BY <1>6
<1>8. FrameRead(c, frame) = CASE e.kind = "usage" -> [c EXCEPT !.provider = [in |-> e.in, out |-> e.out]]
                              [] e.kind = "start" -> [c EXCEPT !.messages = [in |-> e.in, out |-> e.out]]
                              [] e.kind = "delta" -> [c EXCEPT !.messages = [in |-> IF @ = NoUsage THEN 0 ELSE @.in, out |-> e.out]]
                              [] OTHER -> c
  <2> HIDE DEF c, e
  <2>1. Parsed(frame) # {} BY <1>6
  <2> QED BY <1>7, <2>1 DEF FrameRead
<1>9. CASE e.kind = "usage"
  <2>1. MessagesOf(events, k + 1) = MessagesOf(events, k) BY <1>3, <1>9 DEF MessagesOf
  <2>2. FrameRead(c, frame) = [c EXCEPT !.provider = used] BY <1>8, <1>9
  <2> HIDE DEF e, used
  <2> QED BY <1>3, <1>9, <2>1, <2>2 DEF Says
<1>10. CASE e.kind = "start"
  <2>1. MessagesOf(events, k + 1) = used BY <1>2, <1>3, <1>10 DEF MessagesOf
  <2>2. FrameRead(c, frame) = [c EXCEPT !.messages = used] BY <1>8, <1>10
  <2> HIDE DEF e, used
  <2> QED BY <1>3, <1>10, <2>1, <2>2 DEF Says
<1>11. CASE e.kind = "delta"
  <2> DEFINE said == [in |-> IF MessagesOf(events, k) = NoUsage THEN 0 ELSE MessagesOf(events, k).in, out |-> e.out]
  <2>1. MessagesOf(events, k + 1) = [in |-> IF LastOf(events, {"start"}, k) = NoUsage THEN 0 ELSE LastOf(events, {"start"}, k).in,
                                     out |-> e.out]
    BY <1>2, <1>3, <1>11 DEF MessagesOf
  <2>2. LastOf(events, {"start", "delta"}, k) # NoUsage =>
          MessagesOf(events, k).in = IF LastOf(events, {"start"}, k) = NoUsage THEN 0 ELSE LastOf(events, {"start"}, k).in
    BY DEF MessagesOf
  <2>3. MessagesOf(events, k + 1) = said
    <3> HIDE DEF e
    <3> QED BY <1>4, <1>5, <2>1, <2>2
  <2>4. c.messages = MessagesOf(events, k) BY DEF Says
  <2>5. FrameRead(c, frame) = [c EXCEPT !.messages = said]
    <3>1. e.kind # "usage" /\ e.kind # "start" BY <1>11
    <3>2. FrameRead(c, frame) = [c EXCEPT !.messages = [in |-> IF @ = NoUsage THEN 0 ELSE @.in, out |-> e.out]]
      <4> HIDE DEF c, e
      <4> QED BY <1>8, <1>11
    <3>3. DOMAIN c = {"buffer", "provider", "messages"} BY DEF Says
    <3> HIDE DEF c, e
    <3> QED BY <2>4, <3>2, <3>3
  <2> HIDE DEF e, said
  <2> QED BY <1>3, <1>11, <2>3, <2>5 DEF Says
<1>12. CASE e.kind = "other"
  <2>1. MessagesOf(events, k + 1) = MessagesOf(events, k) BY <1>3, <1>12 DEF MessagesOf
  <2>2. FrameRead(c, frame) = c BY <1>8, <1>12
  <2> HIDE DEF e, used
  <2> QED BY <1>3, <1>12, <2>1, <2>2 DEF Says
<1> QED BY <1>1, <1>9, <1>10, <1>11, <1>12 DEF StreamEvent

----------------------------------------------------------------------------
(* The frames of a text. *)

Token == {CR, LF} \cup ({"first", "second"} \X StreamEvent)

\* A text without CRLF: the events after the first k of a body, n of them whole and b
\* tokens of the next.
Framed(text, events, k, n, b) ==
  /\ text \in Seq(Token) /\ Len(text) = 4 * n + b
  /\ \A q \in 1..n : /\ text[4 * q - 3] = <<"first", events[k + q]>> /\ text[4 * q - 2] = <<"second", events[k + q]>>
                     /\ text[4 * q - 1] = LF /\ text[4 * q] = LF
  /\ b >= 1 => text[4 * n + 1] # LF
  /\ b >= 2 => text[4 * n + 2] # LF
  /\ b = 4 => text[4 * n + 4] # LF

\* Its frames end where its events do.
LEMMA FrameEndsAre ==
  ASSUME NEW events \in Seq(StreamEvent), NEW k \in Nat, NEW n \in Nat, NEW b \in 0..4, k + n <= Len(events),
         NEW text, Framed(text, events, k, n, b)
  PROVE  FrameEnds(text) = [q \in 1..n |-> 4 * q - 1]
<1> DEFINE at == {i \in 1..(Len(text) - 1) : text[i] = LF /\ text[i + 1] = LF}
           g == [q \in 1..n |-> 4 * q - 1]
<1>0. Len(text) = 4 * n + b /\ b \in 0..4 /\ n \in Nat
  BY DEF Framed
<1>1. ASSUME NEW q \in 1..n PROVE 4 * q - 1 \in at
  BY <1>0, <1>1 DEF Framed
<1>2. ASSUME NEW i \in at PROVE \E q \in 1..n : i = 4 * q - 1
  <2> DEFINE q == ((i - 1) \div 4) + 1
  <2>0. i \in Nat /\ 1 <= i /\ i <= 4 * n + b - 1 /\ text[i] = LF /\ text[i + 1] = LF
    BY <1>0
  <2>1. q \in Nat /\ 4 * q - 3 <= i /\ i <= 4 * q
    BY <2>0
  <2> HIDE DEF q
  <2>2. q <= n + 1
    BY <1>0, <2>0, <2>1
  <2>3. CASE q <= n
    <3>1. q \in 1..n BY <2>0, <2>1, <2>3
    <3>2. text[4 * q - 3] # LF /\ text[4 * q - 2] # LF
      BY <3>1, Tokens DEF Framed
    <3>3. i # 4 * q
      <4>1. CASE q = n
        BY <1>0, <2>0, <4>1 DEF Framed
      <4>2. CASE q # n
        <5>1. q + 1 \in 1..n BY <3>1, <4>2
        <5>2. text[4 * (q + 1) - 3] # LF BY <5>1, Tokens DEF Framed
        <5>3. 4 * (q + 1) - 3 = 4 * q + 1 BY <3>1
        <5> QED BY <2>0, <5>2, <5>3
      <4> QED BY <4>1, <4>2
    <3>4. i = 4 * q - 1
      BY <2>0, <2>1, <3>2, <3>3
    <3> QED BY <3>1, <3>4
  <2>4. CASE q = n + 1
    <3>1. i = 4 * n + 1 \/ i = 4 * n + 2 \/ i = 4 * n + 3
      BY <1>0, <2>0, <2>1, <2>4
    <3>2. i = 4 * n + 1 => b >= 1 BY <1>0, <2>0
    <3>3. i = 4 * n + 2 => b >= 2 BY <1>0, <2>0
    <3>4. i = 4 * n + 3 => b = 4 BY <1>0, <2>0
    <3>5. i = 4 * n + 3 => i + 1 = 4 * n + 4 BY <1>0
    <3> QED BY <2>0, <3>1, <3>2, <3>3, <3>4, <3>5 DEF Framed
  <2> QED BY <2>1, <2>2, <2>3, <2>4, <1>0
<1>3. at = {g[q] : q \in 1..n}
  <2> HIDE DEF at
  <2> QED BY <1>1, <1>2
<1>4. g \in [1..n -> Nat] /\ \A p, q \in 1..n : p < q => g[p] < g[q]
  OBVIOUS
<1>5. Rising(at) = g
  <2> HIDE DEF at, g
  <2> QED BY <1>0, <1>3, <1>4, RisingIs
<1> QED BY <1>5 DEF FrameEnds

\* Two functions that unfold alike from the same start are one.
Unfolds(f, c, text, ends) ==
  f = [n \in 0..Len(ends) |->
         IF n = 0 THEN c
         ELSE FrameRead(f[n - 1], SubSeq(text, IF n = 1 THEN 1 ELSE ends[n - 1] + 2, ends[n] - 1))]

LEMMA UnfoldsOnce ==
  ASSUME NEW c, NEW text, NEW ends, Len(ends) \in Nat, NEW f, NEW g,
         Unfolds(f, c, text, ends), Unfolds(g, c, text, ends)
  PROVE  f[Len(ends)] = g[Len(ends)]
<1> DEFINE differ == {n \in 0..Len(ends) : f[n] # g[n]}
<1>1. SUFFICES ASSUME differ # {} PROVE FALSE
  OBVIOUS
<1>2. PICK n \in differ : \A m \in differ : n <= m
  <2>1. differ \subseteq Nat OBVIOUS
  <2> HIDE DEF differ
  <2> QED BY <1>1, <2>1, LeastOf
<1>3. n # 0
  BY DEF Unfolds
<1>4. n - 1 \in 0..Len(ends) /\ n - 1 \notin differ
  <2>1. n - 1 \in Nat /\ n - 1 < n BY <1>3
  <2> QED BY <1>2, <2>1
<1>5. f[n - 1] = g[n - 1]
  BY <1>4
<1> QED BY <1>3, <1>5 DEF Unfolds

\* The collector that reads a text has read its whole events and holds what is left.
LEMMA FramesReadIs ==
  ASSUME NEW events \in Seq(StreamEvent), NEW k \in Nat, NEW n \in Nat, NEW b \in 0..4, k + n <= Len(events),
         NEW text, Framed(text, events, k, n, b), NEW buffer
  PROVE  FramesRead(Says(events, k, buffer), text) = Says(events, k + n, SubSeq(text, 4 * n + 1, Len(text)))
<1> DEFINE ends == FrameEnds(text)
           c == Says(events, k, buffer)
           from(m) == IF m = 1 THEN 1 ELSE ends[m - 1] + 2
           g == [m \in 0..n |-> Says(events, k + m, buffer)]
           f == CHOOSE f : Unfolds(f, c, text, ends)
<1>1. ends = [q \in 1..n |-> 4 * q - 1] /\ Len(ends) = n
  <2>1. ends = [q \in 1..n |-> 4 * q - 1] BY FrameEndsAre
  <2>2. [q \in 1..n |-> 4 * q - 1] \in Seq(Int) OBVIOUS
  <2>3. Len([q \in 1..n |-> 4 * q - 1]) = n OBVIOUS
  <2> QED BY <2>1, <2>3
<1> HIDE DEF ends
<1>2. \A m \in 1..(n + 1) : from(m) = 4 * m - 3
  BY <1>1
<1>3. ASSUME NEW m \in 1..n PROVE g[m] = FrameRead(g[m - 1], SubSeq(text, from(m), ends[m] - 1))
  <2> DEFINE frame == SubSeq(text, 4 * m - 3, 4 * m - 2)
  <2>1. text \in Seq(Token) /\ Len(text) = 4 * n + b /\ 4 * m - 3 \in 1..Len(text) /\ 4 * m - 2 \in 1..Len(text)
    BY DEF Framed
  <2>2. Len(frame) = 2 /\ DOMAIN frame = 1..2 /\ frame[1] = text[4 * m - 3] /\ frame[2] = text[4 * m - 2]
    BY <2>1
  <2>3. text[4 * m - 3] = <<"first", events[k + m]>> /\ text[4 * m - 2] = <<"second", events[k + m]>>
    BY DEF Framed
  <2>4. from(m) = 4 * m - 3 /\ ends[m] - 1 = 4 * m - 2
    BY <1>1, <1>2
  <2>5. m - 1 \in 0..n /\ k + (m - 1) \in Nat /\ k + (m - 1) + 1 = k + m /\ k + m <= Len(events)
    OBVIOUS
  <2>6. g[m - 1] = Says(events, k + (m - 1), buffer) /\ g[m] = Says(events, k + m, buffer)
    BY <2>5
  <2> HIDE DEF frame, g, from
  <2>7. FrameRead(Says(events, k + (m - 1), buffer), frame) = Says(events, k + m, buffer)
    <3> DEFINE l == k + (m - 1)
    <3>1. l \in Nat /\ l + 1 = k + m /\ l + 1 <= Len(events) BY <2>5
    <3> HIDE DEF l
    <3>2. FrameRead(Says(events, l, buffer), frame) = Says(events, l + 1, buffer)
      <4>1. frame[1] = <<"first", events[l + 1]>> /\ frame[2] = <<"second", events[l + 1]>>
        BY <2>2, <2>3, <3>1
      <4> QED BY <2>2, <3>1, <4>1, FrameReadIs
    <3> QED BY <3>1, <3>2 DEF l
  <2> QED BY <2>4, <2>6, <2>7 DEF frame
<1>4. Unfolds(g, c, text, ends)
  <2>1. g[0] = c /\ DOMAIN g = 0..n
    BY DEF g
  <2>2. \A m \in 0..n : g[m] = IF m = 0 THEN c ELSE FrameRead(g[m - 1], SubSeq(text, from(m), ends[m] - 1))
    <3> HIDE DEF g, c, from
    <3> QED BY <1>3, <2>1
  <2>3. g = [m \in 0..n |-> g[m]]
    BY DEF g
  <2> HIDE DEF g, c
  <2>4. g = [m \in 0..n |-> IF m = 0 THEN c ELSE FrameRead(g[m - 1], SubSeq(text, from(m), ends[m] - 1))]
    <3> HIDE DEF from
    <3> QED BY <2>2, <2>3
  <2> QED BY <1>1, <2>4 DEF Unfolds
<1>5. Unfolds(f, c, text, ends)
  <2> HIDE DEF g, c
  <2> QED BY <1>4
<1>6. f[n] = g[n]
  <2> HIDE DEF f, g, c
  <2> QED BY <1>1, <1>4, <1>5, UnfoldsOnce
<1>7. FramesRead(c, text) = [f[n] EXCEPT !.buffer = SubSeq(text, from(n + 1), Len(text))]
  BY <1>1 DEF FramesRead, Unfolds, ends
<1>8. f[n] = Says(events, k + n, buffer)
  BY <1>6
<1>9. from(n + 1) = 4 * n + 1
  <2>1. n + 1 \in 1..(n + 1) /\ 4 * (n + 1) - 3 = 4 * n + 1 OBVIOUS
  <2> HIDE DEF from
  <2> QED BY <1>2, <2>1
<1>10. [Says(events, k + n, buffer) EXCEPT !.buffer = SubSeq(text, 4 * n + 1, Len(text))]
         = Says(events, k + n, SubSeq(text, 4 * n + 1, Len(text)))
  <2> DEFINE provider == LastOf(events, {"usage"}, k + n)
             messages == MessagesOf(events, k + n)
             left == SubSeq(text, 4 * n + 1, Len(text))
  <2>1. Says(events, k + n, buffer) = [buffer |-> buffer, provider |-> provider, messages |-> messages]
    BY DEF Says
  <2>2. Says(events, k + n, left) = [buffer |-> left, provider |-> provider, messages |-> messages]
    BY DEF Says
  <2> HIDE DEF provider, messages, left
  <2>3. [Says(events, k + n, buffer) EXCEPT !.buffer = left] = Says(events, k + n, left)
    BY <2>1, <2>2
  <2> QED BY <2>3 DEF left
<1> HIDE DEF f, c, from
<1> QED BY <1>7, <1>8, <1>9, <1>10 DEF c

----------------------------------------------------------------------------
(* The text of a body, and what the collector holds of it. *)

\* What was sent of each event with a line end of one token, or of two.
SentLF(text, events) ==
  /\ text \in Seq(Token)
  /\ Len(text) = 4 * Len(events) \/ (Len(text) = 4 * Len(events) - 2 /\ Len(events) >= 1)
  /\ \A q \in 1..Len(events) :
       /\ text[4 * q - 3] = <<"first", events[q]>> /\ text[4 * q - 2] = <<"second", events[q]>>
       /\ 4 * q <= Len(text) => text[4 * q - 1] = LF /\ text[4 * q] = LF

SentCRLF(text, events) ==
  /\ text \in Seq(Token)
  /\ Len(text) = 6 * Len(events) \/ (Len(text) = 6 * Len(events) - 4 /\ Len(events) >= 1)
  /\ \A q \in 1..Len(events) :
       /\ text[6 * q - 5] = <<"first", events[q]>> /\ text[6 * q - 4] = <<"second", events[q]>>
       /\ 6 * q <= Len(text) => text[6 * q - 3] = CR /\ text[6 * q - 2] = LF /\ text[6 * q - 1] = CR /\ text[6 * q] = LF

LEMMA EncodedLF ==
  ASSUME NEW events \in Seq(StreamEvent), NEW closed \in BOOLEAN
  PROVE  SentLF(Encoded(events, <<LF>>, closed), events)
<1> DEFINE frame(e) == <<<<"first", e>>, <<"second", e>>>> \o <<LF>> \o <<LF>>
           total == 4 * Len(events) - (IF closed THEN 0 ELSE 2)
           text == [p \in 1..total |-> frame(events[((p - 1) \div 4) + 1])[((p - 1) % 4) + 1]]
<1>1. Encoded(events, <<LF>>, closed) = text
  <2>1. 2 + 2 * Len(<<LF>>) = 4 OBVIOUS
  <2> QED BY <2>1 DEF Encoded
<1>2. \A e \in StreamEvent : /\ frame(e)[1] = <<"first", e>> /\ frame(e)[2] = <<"second", e>>
                             /\ frame(e)[3] = LF /\ frame(e)[4] = LF
  OBVIOUS
<1>3. \A q \in 1..Len(events) : events[q] \in StreamEvent
  OBVIOUS
<1> HIDE DEF frame
<1>4. ASSUME NEW q \in 1..Len(events), NEW u \in 1..4, 4 * (q - 1) + u <= total
      PROVE  text[4 * (q - 1) + u] = frame(events[q])[u]
  <2> DEFINE p == 4 * (q - 1) + u
  <2>1. p \in 1..total /\ ((p - 1) \div 4) + 1 = q /\ ((p - 1) % 4) + 1 = u
    BY <1>4
  <2> HIDE DEF p, total
  <2>2. text[p] = frame(events[q])[u] BY <2>1
  <2> QED BY <2>2 DEF p
<1>5. total \in Int /\ Len(events) \in Nat /\ (total = 4 * Len(events) \/ total = 4 * Len(events) - 2)
  OBVIOUS
<1>6. ASSUME NEW p \in 1..total PROVE text[p] \in Token
  <2> DEFINE q == ((p - 1) \div 4) + 1
             u == ((p - 1) % 4) + 1
  <2>1. q \in 1..Len(events) /\ u \in 1..4 /\ p = 4 * (q - 1) + u
    BY <1>5
  <2> HIDE DEF q, u, total, text
  <2>2. text[p] = frame(events[q])[u]
    <3>1. 4 * (q - 1) + u <= total BY <2>1
    <3>2. text[4 * (q - 1) + u] = frame(events[q])[u] BY <1>4, <2>1, <3>1
    <3> QED BY <2>1, <3>2
  <2>3. frame(events[q])[u] \in Token
    <3>1. u = 1 \/ u = 2 \/ u = 3 \/ u = 4 BY <2>1
    <3>2. events[q] \in StreamEvent BY <1>3, <2>1
    <3>3. LF \in Token /\ <<"first", events[q]>> \in Token /\ <<"second", events[q]>> \in Token
      BY <3>2 DEF Token
    <3> QED BY <1>2, <3>1, <3>2, <3>3
  <2> QED BY <2>2, <2>3
<1>7. CASE Len(events) = 0
  <2>1. text = <<>> BY <1>5, <1>7
  <2> QED BY <1>1, <1>7, <2>1 DEF SentLF
<1>8. CASE Len(events) # 0
  <2>1. total \in Nat BY <1>5, <1>8
  <2>2. text \in Seq(Token) /\ Len(text) = total
    <3>1. text \in [1..total -> Token] BY <1>6
    <3> HIDE DEF text, total
    <3> QED BY <2>1, <3>1
  <2>3. ASSUME NEW q \in 1..Len(events)
        PROVE  /\ text[4 * q - 3] = <<"first", events[q]>> /\ text[4 * q - 2] = <<"second", events[q]>>
               /\ 4 * q <= total => text[4 * q - 1] = LF /\ text[4 * q] = LF
    <3> HIDE DEF text
    <3>1. 4 * q - 3 <= total /\ 4 * q - 2 <= total BY <1>5
    <3>2. 4 * (q - 1) + 1 = 4 * q - 3 /\ 4 * (q - 1) + 2 = 4 * q - 2 /\ 4 * (q - 1) + 3 = 4 * q - 1 /\ 4 * (q - 1) + 4 = 4 * q
      OBVIOUS
    <3>3. events[q] \in StreamEvent BY <1>3
    <3>4. text[4 * (q - 1) + 1] = <<"first", events[q]>> /\ text[4 * (q - 1) + 2] = <<"second", events[q]>>
      <4>1. 4 * (q - 1) + 1 <= total /\ 4 * (q - 1) + 2 <= total BY <3>1, <3>2
      <4>2. 1 \in 1..4 /\ 2 \in 1..4 OBVIOUS
      <4> HIDE DEF total
      <4>3. text[4 * (q - 1) + 1] = frame(events[q])[1] /\ text[4 * (q - 1) + 2] = frame(events[q])[2]
        BY <1>4, <4>1, <4>2
      <4> QED BY <1>2, <3>3, <4>3
    <3>5. 4 * q <= total => text[4 * (q - 1) + 3] = LF /\ text[4 * (q - 1) + 4] = LF
      <4> SUFFICES ASSUME 4 * q <= total PROVE text[4 * (q - 1) + 3] = LF /\ text[4 * (q - 1) + 4] = LF
        OBVIOUS
      <4>1. 4 * (q - 1) + 3 <= total BY <1>5
      <4> HIDE DEF total
      <4> QED BY <1>2, <1>4, <3>2, <3>3, <4>1
    <3> HIDE DEF total
    <3> QED BY <3>2, <3>4, <3>5
  <2> HIDE DEF text, total
  <2>4. Len(text) = 4 * Len(events) \/ (Len(text) = 4 * Len(events) - 2 /\ Len(events) >= 1)
    BY <1>5, <1>8, <2>2
  <2>5. SentLF(text, events)
    BY <2>2, <2>3, <2>4 DEF SentLF
  <2> QED BY <1>1, <2>5
<1> QED BY <1>7, <1>8

LEMMA EncodedCRLF ==
  ASSUME NEW events \in Seq(StreamEvent), NEW closed \in BOOLEAN
  PROVE  SentCRLF(Encoded(events, <<CR, LF>>, closed), events)
<1> DEFINE frame(e) == <<<<"first", e>>, <<"second", e>>>> \o <<CR, LF>> \o <<CR, LF>>
           total == 6 * Len(events) - (IF closed THEN 0 ELSE 4)
           text == [p \in 1..total |-> frame(events[((p - 1) \div 6) + 1])[((p - 1) % 6) + 1]]
<1>1. Encoded(events, <<CR, LF>>, closed) = text
  <2>1. 2 + 2 * Len(<<CR, LF>>) = 6 OBVIOUS
  <2> QED BY <2>1 DEF Encoded
<1>2. \A e \in StreamEvent : /\ frame(e)[1] = <<"first", e>> /\ frame(e)[2] = <<"second", e>>
                             /\ frame(e)[3] = CR /\ frame(e)[4] = LF /\ frame(e)[5] = CR /\ frame(e)[6] = LF
  OBVIOUS
<1>3. \A q \in 1..Len(events) : events[q] \in StreamEvent
  OBVIOUS
<1> HIDE DEF frame
<1>4. ASSUME NEW q \in 1..Len(events), NEW u \in 1..6, 6 * (q - 1) + u <= total
      PROVE  text[6 * (q - 1) + u] = frame(events[q])[u]
  <2> DEFINE p == 6 * (q - 1) + u
  <2>1. p \in 1..total /\ ((p - 1) \div 6) + 1 = q /\ ((p - 1) % 6) + 1 = u
    BY <1>4
  <2> HIDE DEF p, total
  <2>2. text[p] = frame(events[q])[u] BY <2>1
  <2> QED BY <2>2 DEF p
<1>5. total \in Int /\ Len(events) \in Nat /\ (total = 6 * Len(events) \/ total = 6 * Len(events) - 4)
  OBVIOUS
<1>6. ASSUME NEW p \in 1..total PROVE text[p] \in Token
  <2> DEFINE q == ((p - 1) \div 6) + 1
             u == ((p - 1) % 6) + 1
  <2>1. q \in 1..Len(events) /\ u \in 1..6 /\ p = 6 * (q - 1) + u
    BY <1>5
  <2> HIDE DEF q, u, total, text
  <2>2. text[p] = frame(events[q])[u]
    <3>1. 6 * (q - 1) + u <= total BY <2>1
    <3>2. text[6 * (q - 1) + u] = frame(events[q])[u] BY <1>4, <2>1, <3>1
    <3> QED BY <2>1, <3>2
  <2>3. frame(events[q])[u] \in Token
    <3>1. u = 1 \/ u = 2 \/ u = 3 \/ u = 4 \/ u = 5 \/ u = 6 BY <2>1
    <3>2. events[q] \in StreamEvent BY <1>3, <2>1
    <3>3. LF \in Token /\ CR \in Token /\ <<"first", events[q]>> \in Token /\ <<"second", events[q]>> \in Token
      BY <3>2 DEF Token
    <3> QED BY <1>2, <3>1, <3>2, <3>3
  <2> QED BY <2>2, <2>3
<1>7. CASE Len(events) = 0
  <2>1. text = <<>> BY <1>5, <1>7
  <2> QED BY <1>1, <1>7, <2>1 DEF SentCRLF
<1>8. CASE Len(events) # 0
  <2>1. total \in Nat BY <1>5, <1>8
  <2>2. text \in Seq(Token) /\ Len(text) = total
    <3>1. text \in [1..total -> Token] BY <1>6
    <3> HIDE DEF text, total
    <3> QED BY <2>1, <3>1
  <2>3. ASSUME NEW q \in 1..Len(events)
        PROVE  /\ text[6 * q - 5] = <<"first", events[q]>> /\ text[6 * q - 4] = <<"second", events[q]>>
               /\ 6 * q <= total => text[6 * q - 3] = CR /\ text[6 * q - 2] = LF /\ text[6 * q - 1] = CR /\ text[6 * q] = LF
    <3> HIDE DEF text
    <3>1. 6 * q - 5 <= total /\ 6 * q - 4 <= total BY <1>5
    <3>2. /\ 6 * (q - 1) + 1 = 6 * q - 5 /\ 6 * (q - 1) + 2 = 6 * q - 4 /\ 6 * (q - 1) + 3 = 6 * q - 3
        /\ 6 * (q - 1) + 4 = 6 * q - 2 /\ 6 * (q - 1) + 5 = 6 * q - 1 /\ 6 * (q - 1) + 6 = 6 * q
      OBVIOUS
    <3>3. events[q] \in StreamEvent BY <1>3
    <3>4. text[6 * (q - 1) + 1] = <<"first", events[q]>> /\ text[6 * (q - 1) + 2] = <<"second", events[q]>>
      <4>1. 6 * (q - 1) + 1 <= total /\ 6 * (q - 1) + 2 <= total BY <3>1, <3>2
      <4>2. 1 \in 1..6 /\ 2 \in 1..6 OBVIOUS
      <4> HIDE DEF total
      <4>3. text[6 * (q - 1) + 1] = frame(events[q])[1] /\ text[6 * (q - 1) + 2] = frame(events[q])[2]
        BY <1>4, <4>1, <4>2
      <4> QED BY <1>2, <3>3, <4>3
    <3>5. 6 * q <= total => /\ text[6 * (q - 1) + 3] = CR /\ text[6 * (q - 1) + 4] = LF
                      /\ text[6 * (q - 1) + 5] = CR /\ text[6 * (q - 1) + 6] = LF
      <4> SUFFICES ASSUME 6 * q <= total PROVE  /\ text[6 * (q - 1) + 3] = CR /\ text[6 * (q - 1) + 4] = LF
             /\ text[6 * (q - 1) + 5] = CR /\ text[6 * (q - 1) + 6] = LF
        OBVIOUS
      <4>1. 6 * (q - 1) + 3 <= total /\ 6 * (q - 1) + 4 <= total /\ 6 * (q - 1) + 5 <= total /\ 6 * (q - 1) + 6 <= total BY <1>5
      <4>2. 3 \in 1..6 /\ 4 \in 1..6 /\ 5 \in 1..6 /\ 6 \in 1..6 OBVIOUS
      <4> HIDE DEF total
      <4>3. /\ text[6 * (q - 1) + 3] = frame(events[q])[3] /\ text[6 * (q - 1) + 4] = frame(events[q])[4]
            /\ text[6 * (q - 1) + 5] = frame(events[q])[5] /\ text[6 * (q - 1) + 6] = frame(events[q])[6]
        BY <1>4, <4>1, <4>2
      <4> QED BY <1>2, <3>3, <4>3
    <3> HIDE DEF total
    <3> QED BY <3>2, <3>4, <3>5
  <2> HIDE DEF text, total
  <2>4. Len(text) = 6 * Len(events) \/ (Len(text) = 6 * Len(events) - 4 /\ Len(events) >= 1)
    BY <1>5, <1>8, <2>2
  <2>5. SentCRLF(text, events)
    BY <2>2, <2>3, <2>4 DEF SentCRLF
  <2> QED BY <1>1, <2>5
<1> QED BY <1>7, <1>8

\* What is held of the first i tokens: those of an event that is not whole, an end of
\* two tokens as one.
Folded(size, i) == IF size = 6 /\ i % size >= 4 THEN 1 ELSE 0
Held(text, size, i) ==
  [p \in 1..((i % size) - Folded(size, i)) |->
     text[size * (i \div size) + (IF p <= 2 \/ Folded(size, i) = 0 THEN p ELSE p + 1)]]

\* The numbers of a cut.
LEMMA Cuts ==
  ASSUME NEW size \in {4, 6}, NEW i \in Nat, NEW c \in Nat
  PROVE  /\ i \div size \in Nat /\ i % size \in 0..(size - 1) /\ i = size * (i \div size) + (i % size)
         /\ i \div size <= (i + c) \div size
         /\ Folded(size, i) \in 0..1 /\ (Folded(size, i) = 1 <=> size = 6 /\ i % size >= 4)
<1>1. CASE size = 4 BY <1>1 DEF Folded
<1>2. CASE size = 6 BY <1>2 DEF Folded
<1> QED BY <1>1, <1>2

LEMMA HeldIs ==
  ASSUME NEW text \in Seq(Token), NEW size \in {4, 6}, NEW i \in 0..Len(text)
  PROVE  /\ Held(text, size, i) \in Seq(Token) /\ Len(Held(text, size, i)) = (i % size) - Folded(size, i)
         /\ \A p \in 1..((i % size) - Folded(size, i)) :
              Held(text, size, i)[p] = text[size * (i \div size) + (IF p <= 2 \/ Folded(size, i) = 0 THEN p ELSE p + 1)]
<1> DEFINE k == i \div size
           m == i % size
           d == Folded(size, i)
           of(p) == IF p <= 2 \/ d = 0 THEN p ELSE p + 1
           s == size * k
           held == [p \in 1..(m - d) |-> text[s + of(p)]]
<1>1. k \in Nat /\ m \in 0..(size - 1) /\ i = s + m /\ d \in 0..1 /\ (d = 1 <=> size = 6 /\ m >= 4)
  BY Cuts, 0 \in Nat
<1>2. s \in Nat
  BY <1>1
<1>3. Held(text, size, i) = held
  BY DEF Held
<1> HIDE DEF k, m, d, s
<1>4. m - d \in Nat
  BY <1>1
<1>5. \A p \in 1..(m - d) : s + of(p) \in 1..Len(text)
  BY <1>1, <1>2
<1>6. held \in [1..(m - d) -> Token]
  <2> HIDE DEF of
  <2> QED BY <1>5
<1>7. held \in Seq(Token) /\ Len(held) = m - d
  <2> HIDE DEF held
  <2> QED BY <1>4, <1>6
<1> HIDE DEF of
<1>8. \A p \in 1..(m - d) : held[p] = text[s + of(p)]
  OBVIOUS
<1> QED BY <1>3, <1>7, <1>8 DEF k, m, d, s, of

\* What is held and the next chunk are the tokens after the last whole event, as they are held.
LEMMA JoinIs ==
  ASSUME NEW text \in Seq(Token), NEW size \in {4, 6}, NEW i \in Nat, NEW c \in Nat, i + c <= Len(text)
  PROVE  LET x == Held(text, size, i) \o SubSeq(text, i + 1, i + c)
             d == Folded(size, i)
         IN /\ x \in Seq(Token) /\ Len(x) = (i % size) - d + c
            /\ \A p \in 1..((i % size) - d + c) : x[p] = text[size * (i \div size) + (IF p <= 2 \/ d = 0 THEN p ELSE p + 1)]
<1> DEFINE k == i \div size
           m == i % size
           d == Folded(size, i)
           s == size * k
           held == Held(text, size, i)
           chunk == SubSeq(text, i + 1, i + c)
           x == held \o chunk
<1>1. k \in Nat /\ m \in 0..(size - 1) /\ i = s + m /\ d \in 0..1 /\ (d = 1 <=> size = 6 /\ m >= 4)
  BY Cuts, 0 \in Nat
<1>2. s \in Nat
  BY <1>1
<1>3. /\ held \in Seq(Token) /\ Len(held) = m - d
      /\ \A p \in 1..(m - d) : held[p] = text[s + (IF p <= 2 \/ d = 0 THEN p ELSE p + 1)]
  BY HeldIs, i \in 0..Len(text)
<1> HIDE DEF k, m, d, s, held
<1>4. chunk \in Seq(Token) /\ Len(chunk) = c /\ \A p \in 1..c : chunk[p] = text[i + p]
  <2>1. Len(text) \in Nat /\ DOMAIN text = 1..Len(text) OBVIOUS
  <2>2. chunk = [p \in 1..c |-> text[i + p]]
    <3>1. chunk = [p \in 1..(i + c - (i + 1) + 1) |-> text[i + 1 + p - 1]] OBVIOUS
    <3>2. i + c - (i + 1) + 1 = c /\ \A p \in 1..c : i + 1 + p - 1 = i + p OBVIOUS
    <3> HIDE DEF chunk
    <3> QED BY <3>1, <3>2
  <2>3. \A p \in 1..c : i + p \in 1..Len(text) OBVIOUS
  <2>4. chunk \in [1..c -> Token]
    <3>1. \A p \in 1..c : text[i + p] \in Token BY <2>1, <2>3
    <3> HIDE DEF chunk
    <3> QED BY <2>2, <3>1
  <2> HIDE DEF chunk
  <2> QED BY <2>2, <2>4
<1> HIDE DEF chunk
<1>4a. \A a, b \in Seq(Token) : /\ a \o b \in Seq(Token) /\ Len(a \o b) = Len(a) + Len(b)
                              /\ \A p \in 1..(Len(a) + Len(b)) : (a \o b)[p] = IF p <= Len(a) THEN a[p] ELSE b[p - Len(a)]
  OBVIOUS
<1>5. x \in Seq(Token) /\ Len(x) = m - d + c /\ \A p \in 1..(m - d + c) : x[p] = IF p <= m - d THEN held[p] ELSE chunk[p - (m - d)]
  <2>1. /\ x \in Seq(Token) /\ Len(x) = Len(held) + Len(chunk)
        /\ \A p \in 1..(Len(held) + Len(chunk)) : x[p] = IF p <= Len(held) THEN held[p] ELSE chunk[p - Len(held)]
    BY <1>3, <1>4, <1>4a
  <2> HIDE DEF x
  <2> QED BY <1>3, <1>4, <2>1
<1> HIDE DEF x
<1>6. ASSUME NEW p \in 1..(m - d + c) PROVE x[p] = text[s + (IF p <= 2 \/ d = 0 THEN p ELSE p + 1)]
  <2>1. CASE p <= m - d
    <3>1. p \in 1..(m - d) BY <1>1, <2>1
    <3>2. x[p] = held[p] BY <1>5, <2>1
    <3> QED BY <1>3, <3>1, <3>2
  <2>2. CASE p > m - d
    <3>1. p - (m - d) \in 1..c BY <1>1, <2>2
    <3>2. x[p] = chunk[p - (m - d)] BY <1>1, <1>5, <2>2
    <3>3. i + (p - (m - d)) = s + (IF p <= 2 \/ d = 0 THEN p ELSE p + 1) BY <1>1, <1>2, <2>2
    <3> QED BY <1>4, <3>1, <3>2, <3>3
  <2>3. p <= m - d \/ p > m - d BY <1>1
  <2> QED BY <2>1, <2>2, <2>3
<1> QED BY <1>5, <1>6 DEF k, m, d, s, held, chunk, x

----------------------------------------------------------------------------
(* One chunk more. *)

LEMMA NormalizedIs ==
  ASSUME NEW x, NEW N \in Nat, NEW g \in [1..N -> Nat], \A m, n \in 1..N : m < n => g[m] < g[n],
         {i \in DOMAIN x : ~(x[i] = CR /\ i < Len(x) /\ x[i + 1] = LF)} = {g[n] : n \in 1..N}
  PROVE  Normalized(x) = [n \in 1..N |-> x[g[n]]]
<1> DEFINE at == {i \in DOMAIN x : ~(x[i] = CR /\ i < Len(x) /\ x[i + 1] = LF)}
<1>1. Rising(at) = g
  <2>1. at = {g[n] : n \in 1..N} OBVIOUS
  <2> HIDE DEF at
  <2> QED BY <2>1, RisingIs
<1>2. DOMAIN g = 1..N
  OBVIOUS
<1> QED BY <1>1, <1>2 DEF Normalized

\* The collector of the first i tokens, and of a chunk of c more.
CollectorOf(text, events, size, i) == Says(events, i \div size, Held(text, size, i))
CollectsNext(text, events, size, i, c) ==
  Collected(CollectorOf(text, events, size, i), SubSeq(text, i + 1, i + c)) = {CollectorOf(text, events, size, i + c)}

\* A line end of one token: what joins is the text itself.
LEMMA CollectedLF ==
  ASSUME NEW events \in Seq(StreamEvent), NEW text, SentLF(text, events), NEW i \in Nat, NEW c \in Nat, i + c <= Len(text)
  PROVE  CollectsNext(text, events, 4, i, c)
<1> DEFINE k == i \div 4
           m == i % 4
           l == (i + c) \div 4
           b == (i + c) % 4
           n == l - k
           x == Held(text, 4, i) \o SubSeq(text, i + 1, i + c)
<1>1. /\ k \in Nat /\ m \in 0..3 /\ i = 4 * k + m /\ l \in Nat /\ b \in 0..3 /\ i + c = 4 * l + b /\ n \in Nat /\ k + n = l
  BY Cuts
<1>2. text \in Seq(Token) /\ Len(text) \in Nat /\ Len(events) \in Nat
      /\ (Len(text) = 4 * Len(events) \/ (Len(text) = 4 * Len(events) - 2 /\ Len(events) >= 1))
  BY DEF SentLF
<1>3. x \in Seq(Token) /\ Len(x) = m + c /\ \A p \in 1..(m + c) : x[p] = text[4 * k + p]
  <2>1. Folded(4, i) = 0 BY DEF Folded
  <2>2. /\ x \in Seq(Token) /\ Len(x) = m - 0 + c
        /\ \A p \in 1..(m - 0 + c) : x[p] = text[4 * k + (IF p <= 2 \/ 0 = 0 THEN p ELSE p + 1)]
    <3>1. LET d == Folded(4, i)
          IN /\ x \in Seq(Token) /\ Len(x) = (i % 4) - d + c
             /\ \A p \in 1..((i % 4) - d + c) : x[p] = text[4 * (i \div 4) + (IF p <= 2 \/ d = 0 THEN p ELSE p + 1)]
      <4>1. 4 \in {4, 6} OBVIOUS
      <4> QED BY <1>2, <4>1, JoinIs
    <3> HIDE DEF x
    <3> QED BY <2>1, <3>1
  <2> HIDE DEF x, k, m
  <2> QED BY <1>1, <2>2
<1> HIDE DEF k, m, l, b, x
<1>3a. Len(x) = 4 * n + b
  <2> HIDE DEF n
  <2>1. m + c = 4 * n + b BY <1>1
  <2> QED BY <1>3, <2>1
<1>3b. l <= Len(events) /\ (b >= 1 => l + 1 <= Len(events))
  BY <1>1, <1>2
<1>4. \A q \in 1..n : /\ x[4 * q - 3] = <<"first", events[k + q]>> /\ x[4 * q - 2] = <<"second", events[k + q]>>
                      /\ x[4 * q - 1] = LF /\ x[4 * q] = LF
  <2> SUFFICES ASSUME NEW q \in 1..n
               PROVE  /\ x[4 * q - 3] = <<"first", events[k + q]>> /\ x[4 * q - 2] = <<"second", events[k + q]>>
                      /\ x[4 * q - 1] = LF /\ x[4 * q] = LF
    OBVIOUS
  <2>1. k + q \in 1..Len(events) /\ 4 * (k + q) <= Len(text)
    BY <1>1, <1>2, <1>3b
  <2>2. 4 * q \in 1..(m + c) /\ 4 * q - 1 \in 1..(m + c) /\ 4 * q - 2 \in 1..(m + c) /\ 4 * q - 3 \in 1..(m + c)
    BY <1>1
  <2>3. /\ x[4 * q - 3] = text[4 * (k + q) - 3] /\ x[4 * q - 2] = text[4 * (k + q) - 2]
        /\ x[4 * q - 1] = text[4 * (k + q) - 1] /\ x[4 * q] = text[4 * (k + q)]
    BY <1>1, <1>3, <2>2
  <2> QED BY <2>1, <2>3 DEF SentLF
<1>5. b >= 1 => x[4 * n + 1] = <<"first", events[l + 1]>>
  <2> SUFFICES ASSUME b >= 1 PROVE x[4 * n + 1] = <<"first", events[l + 1]>>
    OBVIOUS
  <2>1. l + 1 \in 1..Len(events) BY <1>1, <1>3b
  <2>1a. 4 * n + 1 \in 1..(m + c) /\ 4 * k + (4 * n + 1) = 4 * (l + 1) - 3 BY <1>1, <1>3, <1>3a
  <2>2. x[4 * n + 1] = text[4 * (l + 1) - 3] BY <1>3, <2>1a
  <2> QED BY <2>1, <2>2 DEF SentLF
<1>6. b >= 2 => x[4 * n + 2] = <<"second", events[l + 1]>>
  <2> SUFFICES ASSUME b >= 2 PROVE x[4 * n + 2] = <<"second", events[l + 1]>>
    OBVIOUS
  <2>1. l + 1 \in 1..Len(events) BY <1>1, <1>3b
  <2>1a. 4 * n + 2 \in 1..(m + c) /\ 4 * k + (4 * n + 2) = 4 * (l + 1) - 2 BY <1>1, <1>3, <1>3a
  <2>2. x[4 * n + 2] = text[4 * (l + 1) - 2] BY <1>3, <2>1a
  <2> QED BY <2>1, <2>2 DEF SentLF
<1>7. b = 3 => x[4 * n + 3] = LF
  <2> SUFFICES ASSUME b = 3 PROVE x[4 * n + 3] = LF
    OBVIOUS
  <2>1. l + 1 \in 1..Len(events) BY <1>1, <1>3b
  <2>1a. 4 * n + 3 \in 1..(m + c) /\ 4 * k + (4 * n + 3) = 4 * (l + 1) - 1 BY <1>1, <1>3, <1>3a
  <2>2. x[4 * n + 3] = text[4 * (l + 1) - 1] BY <1>3, <2>1a
  <2>3. 4 * (l + 1) <= Len(text) BY <1>1, <1>2
  <2> QED BY <2>1, <2>2, <2>3 DEF SentLF
<1>8. \A p \in 1..Len(x) : x[p] # CR
  <2> SUFFICES ASSUME NEW p \in 1..Len(x) PROVE x[p] # CR
    OBVIOUS
  <2> DEFINE q == ((p - 1) \div 4) + 1
  <2>1. q \in Nat /\ 1 <= q /\ p \in {4 * q - 3, 4 * q - 2, 4 * q - 1, 4 * q}
    BY <1>1, <1>3a
  <2> HIDE DEF q
  <2>2. CASE q <= n
    <3>1. q \in 1..n BY <2>1, <2>2
    <3> QED BY <1>4, <2>1, <3>1, Tokens
  <2>3. CASE q > n
    <3>1. p = 4 * n + 1 \/ p = 4 * n + 2 \/ p = 4 * n + 3 BY <1>1, <1>3a, <2>1, <2>3
    <3>2. /\ p = 4 * n + 1 => b >= 1
          /\ p = 4 * n + 2 => b >= 2
          /\ p = 4 * n + 3 => b = 3
      BY <1>1, <1>3a
    <3> QED BY <1>5, <1>6, <1>7, <3>1, <3>2, Tokens
  <2>4. q <= n \/ q > n BY <1>1, <2>1
  <2> QED BY <2>2, <2>3, <2>4
<1>9. Normalized(x) = x
  <2> DEFINE g == [p \in 1..Len(x) |-> p]
  <2>1. Len(x) \in Nat /\ DOMAIN x = 1..Len(x) /\ x = [p \in 1..Len(x) |-> x[p]] BY <1>3
  <2>2. {p \in DOMAIN x : ~(x[p] = CR /\ p < Len(x) /\ x[p + 1] = LF)} = {g[p] : p \in 1..Len(x)}
    BY <1>8, <2>1
  <2>3. g \in [1..Len(x) -> Nat] /\ (\A o, p \in 1..Len(x) : o < p => g[o] < g[p]) /\ \A p \in 1..Len(x) : g[p] = p
    BY <2>1
  <2> HIDE DEF g
  <2>4. Normalized(x) = [p \in 1..Len(x) |-> x[g[p]]]
    BY <2>1, <2>2, <2>3, NormalizedIs
  <2> QED BY <2>1, <2>3, <2>4
<1>10. Framed(x, events, k, n, b)
  <2>1. b >= 1 => x[4 * n + 1] # LF BY <1>5, Tokens
  <2>2. b >= 2 => x[4 * n + 2] # LF BY <1>6, Tokens
  <2> QED BY <1>1, <1>3, <1>3a, <1>4, <2>1, <2>2 DEF Framed
<1>11. FramesRead(Says(events, k, Held(text, 4, i)), x) = Says(events, k + n, SubSeq(x, 4 * n + 1, Len(x)))
  BY <1>1, <1>3b, <1>10, FramesReadIs
<1>12. SubSeq(x, 4 * n + 1, Len(x)) = Held(text, 4, i + c)
  <2>1. Folded(4, i + c) = 0 BY DEF Folded
  <2>2. Held(text, 4, i + c) = [p \in 1..b |-> text[4 * l + p]]
    <3>1. Held(text, 4, i + c) = [p \in 1..(b - 0) |-> text[4 * l + (IF p <= 2 \/ 0 = 0 THEN p ELSE p + 1)]]
      BY <2>1 DEF Held, b, l
    <3>2. b - 0 = b BY <1>1
    <3> QED BY <3>1, <3>2
  <2>3. SubSeq(x, 4 * n + 1, Len(x)) = [p \in 1..b |-> x[4 * n + p]]
    <3>1. SubSeq(x, 4 * n + 1, Len(x)) = [p \in 1..(Len(x) - (4 * n + 1) + 1) |-> x[4 * n + 1 + p - 1]]
      <4> DEFINE a == 4 * n + 1
      <4>1. a \in Int /\ Len(x) \in Int BY <1>1, <1>3
      <4> HIDE DEF a
      <4>2. SubSeq(x, a, Len(x)) = [p \in 1..(Len(x) - a + 1) |-> x[a + p - 1]] BY <1>3, <4>1
      <4> QED BY <4>2 DEF a
    <3>2. Len(x) - (4 * n + 1) + 1 = b /\ \A p \in 1..b : 4 * n + 1 + p - 1 = 4 * n + p
      BY <1>1, <1>3a
    <3> QED BY <3>1, <3>2
  <2>4. \A p \in 1..b : x[4 * n + p] = text[4 * l + p]
    <3> SUFFICES ASSUME NEW p \in 1..b PROVE x[4 * n + p] = text[4 * l + p]
      OBVIOUS
    <3>1. 4 * n + p \in 1..(m + c) /\ 4 * k + (4 * n + p) = 4 * l + p BY <1>1
    <3> QED BY <1>3, <3>1
  <2> QED BY <2>2, <2>3, <2>4
<1>13. Collected(Says(events, k, Held(text, 4, i)), SubSeq(text, i + 1, i + c))
         = {FramesRead(Says(events, k, Held(text, 4, i)), Normalized(x))}
  <2>1. Says(events, k, Held(text, 4, i)).buffer = Held(text, 4, i) BY DEF Says
  <2> QED BY <2>1 DEF Collected, x
<1>14. Collected(Says(events, k, Held(text, 4, i)), SubSeq(text, i + 1, i + c)) = {Says(events, l, Held(text, 4, i + c))}
  BY <1>1, <1>9, <1>11, <1>12, <1>13
<1> QED BY <1>14 DEF k, l, CollectsNext, CollectorOf

\* Where the v-th token of a normalized text was, its line ends of two tokens.
Raw(v) == 6 * ((v - 1) \div 4) + (IF (v - 1) % 4 <= 1 THEN ((v - 1) % 4) + 1 ELSE 2 * ((v - 1) % 4))

LEMMA RawIs ==
  /\ \A q \in Nat : /\ Raw(4 * q + 1) = 6 * q + 1 /\ Raw(4 * q + 2) = 6 * q + 2
                    /\ Raw(4 * q + 3) = 6 * q + 4 /\ Raw(4 * q + 4) = 6 * q + 6
  /\ \A v \in Nat \ {0} : \E q \in Nat : v = 4 * q + 1 \/ v = 4 * q + 2 \/ v = 4 * q + 3 \/ v = 4 * q + 4
  /\ \A v \in Nat \ {0} : Raw(v) \in Nat /\ Raw(v) >= v /\ (v >= 3 => Raw(v) > v) /\ (v <= 2 => Raw(v) = v)
  /\ \A v, w \in Nat \ {0} : v < w => Raw(v) < Raw(w)
<1>1. ASSUME NEW q \in Nat
      PROVE  /\ Raw(4 * q + 1) = 6 * q + 1 /\ Raw(4 * q + 2) = 6 * q + 2
             /\ Raw(4 * q + 3) = 6 * q + 4 /\ Raw(4 * q + 4) = 6 * q + 6
  BY DEF Raw
<1>2. ASSUME NEW v \in Nat \ {0}
      PROVE  \E q \in Nat : v = 4 * q + 1 \/ v = 4 * q + 2 \/ v = 4 * q + 3 \/ v = 4 * q + 4
  <2>1. (v - 1) \div 4 \in Nat OBVIOUS
  <2>2. \/ v = 4 * ((v - 1) \div 4) + 1 \/ v = 4 * ((v - 1) \div 4) + 2
        \/ v = 4 * ((v - 1) \div 4) + 3 \/ v = 4 * ((v - 1) \div 4) + 4
    OBVIOUS
  <2> QED BY <2>1, <2>2
<1>3. ASSUME NEW v \in Nat \ {0}
      PROVE  Raw(v) \in Nat /\ Raw(v) >= v /\ (v >= 3 => Raw(v) > v) /\ (v <= 2 => Raw(v) = v)
  BY DEF Raw
<1>4. ASSUME NEW v \in Nat \ {0}, NEW w \in Nat \ {0}, v < w PROVE Raw(v) < Raw(w)
  BY <1>4 DEF Raw
<1> QED BY <1>1, <1>2, <1>3, <1>4

\* Which of r tokens are kept, d of them already gone: all but the first of each end but
\* where the text breaks off, and in that order.
Kept(r, d, v) == IF v <= 2 THEN v ELSE IF Raw(v) > r THEN r - d ELSE Raw(v) - d
Of(d, p) == IF p <= 2 \/ d = 0 THEN p ELSE p + 1

Keeps(r, d, b, size) ==
  /\ \A v \in 1..size : Kept(r, d, v) \in 1..(r - d)
  /\ \A v, w \in 1..size : v < w => Kept(r, d, v) < Kept(r, d, w)
  /\ \A v \in 1..size : Of(d, Kept(r, d, v)) = IF Raw(v) > r THEN r ELSE Raw(v)
  /\ \A v \in 1..size : Raw(v) > r => v = size /\ b \in {3, 5}
  /\ \A v \in 1..size : Of(d, Kept(r, d, v)) % 6 \notin {3, 5} \/ Kept(r, d, v) = r - d
  /\ \A p \in 1..(r - d) : Of(d, p) % 6 \notin {3, 5} \/ p = r - d => \E v \in 1..size : p = Kept(r, d, v)

LEMMA KeptIs ==
  ASSUME NEW n \in Nat, NEW b \in 0..5, NEW d \in 0..1, d = 1 => 6 * n + b >= 4
  PROVE  Keeps(6 * n + b, d, b, 4 * n + (b - (IF b >= 4 THEN 1 ELSE 0)))
<1> DEFINE r == 6 * n + b
           left == b - (IF b >= 4 THEN 1 ELSE 0)
           size == 4 * n + left
<1>0. r \in Nat /\ left \in 0..4 /\ size \in Nat
  OBVIOUS
<1>1. ASSUME NEW v \in 1..size, Raw(v) > r PROVE v = size /\ b \in {3, 5}
  <2>1. v \in Nat \ {0} BY <1>0
  <2>2. PICK q \in Nat : v = 4 * q + 1 \/ v = 4 * q + 2 \/ v = 4 * q + 3 \/ v = 4 * q + 4
    BY <2>1, RawIs
  <2>3. Raw(4 * q + 1) = 6 * q + 1 /\ Raw(4 * q + 2) = 6 * q + 2 /\ Raw(4 * q + 3) = 6 * q + 4 /\ Raw(4 * q + 4) = 6 * q + 6
    BY RawIs
  <2>4. b = 0 \/ b = 1 \/ b = 2 \/ b = 3 \/ b = 4 \/ b = 5 OBVIOUS
  <2> QED BY <1>1, <2>2, <2>3, <2>4
<1>2. ASSUME NEW v \in 1..size
      PROVE  Kept(r, d, v) \in 1..(r - d) /\ Of(d, Kept(r, d, v)) = IF Raw(v) > r THEN r ELSE Raw(v)
  <2>1. v \in Nat \ {0} BY <1>0
  <2>2. Raw(v) \in Nat /\ Raw(v) >= v /\ (v >= 3 => Raw(v) > v) /\ (v <= 2 => Raw(v) = v)
    BY <2>1, RawIs
  <2>3. v <= 2 => v <= r /\ v <= r - d
    BY <1>0
  <2>4. v >= 3 => r - d >= 3
    BY <1>0
  <2> HIDE DEF r, size, left
  <2> QED BY <1>0, <2>1, <2>2, <2>3, <2>4 DEF Kept, Of
<1>3. ASSUME NEW v \in 1..size, NEW w \in 1..size, v < w PROVE Kept(r, d, v) < Kept(r, d, w)
  <2>1. v \in Nat \ {0} /\ w \in Nat \ {0} /\ v # size BY <1>0, <1>3
  <2>2. Raw(v) <= r
    <3>1. Raw(v) \in Nat BY <2>1, RawIs
    <3> QED BY <1>0, <1>1, <2>1, <3>1
  <2>3. Raw(v) < Raw(w) /\ Raw(v) \in Nat /\ Raw(w) \in Nat BY <1>3, <2>1, RawIs
  <2>4. /\ Raw(v) >= v /\ (v >= 3 => Raw(v) > v) /\ (v <= 2 => Raw(v) = v)
        /\ Raw(w) >= w /\ (w >= 3 => Raw(w) > w) /\ (w <= 2 => Raw(w) = w)
    BY <2>1, RawIs
  <2>5. Raw(w) > r => Raw(v) # r
    <3> SUFFICES ASSUME Raw(w) > r, Raw(v) = r PROVE FALSE
      OBVIOUS
    <3>1. b = 3 \/ b = 5 BY <1>1
    <3>2. PICK q \in Nat : v = 4 * q + 1 \/ v = 4 * q + 2 \/ v = 4 * q + 3 \/ v = 4 * q + 4
      BY <2>1, RawIs
    <3>3. Raw(4 * q + 1) = 6 * q + 1 /\ Raw(4 * q + 2) = 6 * q + 2 /\ Raw(4 * q + 3) = 6 * q + 4 /\ Raw(4 * q + 4) = 6 * q + 6
      BY RawIs
    <3> QED BY <3>1, <3>2, <3>3
  <2>6. w >= 3 => r - d >= 3
    BY <1>0
  <2> HIDE DEF r, size, left
  <2> QED BY <1>0, <1>3, <2>1, <2>2, <2>3, <2>4, <2>5, <2>6 DEF Kept
<1>4. ASSUME NEW v \in 1..size PROVE Of(d, Kept(r, d, v)) % 6 \notin {3, 5} \/ Kept(r, d, v) = r - d
  <2>1. v \in Nat \ {0} BY <1>0
  <2>2. CASE Raw(v) > r
    <3>1. v >= 3
      <4>1. v <= 2 => Raw(v) = v BY <2>1, RawIs
      <4> QED BY <1>0, <2>1, <2>2, <4>1
    <3>2. ~ (v <= 2) BY <2>1, <3>1
    <3> HIDE DEF r
    <3> QED BY <2>2, <3>2 DEF Kept
  <2>3. CASE ~ (Raw(v) > r)
    <3>1. PICK q \in Nat : v = 4 * q + 1 \/ v = 4 * q + 2 \/ v = 4 * q + 3 \/ v = 4 * q + 4
      BY <2>1, RawIs
    <3>2. Raw(4 * q + 1) = 6 * q + 1 /\ Raw(4 * q + 2) = 6 * q + 2 /\ Raw(4 * q + 3) = 6 * q + 4 /\ Raw(4 * q + 4) = 6 * q + 6
      BY RawIs
    <3>3. Raw(v) % 6 \notin {3, 5}
      BY <3>1, <3>2
    <3>4. Of(d, Kept(r, d, v)) = Raw(v) BY <1>2, <2>3
    <3> QED BY <3>3, <3>4
  <2> QED BY <2>2, <2>3
<1>5. ASSUME NEW p \in 1..(r - d), Of(d, p) % 6 \notin {3, 5} \/ p = r - d PROVE \E v \in 1..size : p = Kept(r, d, v)
  <2>1. CASE p = r - d
    <3>1. size \in 1..size BY <2>1
    <3>2. Raw(size) >= r
      <4>1. \A q \in Nat : Raw(4 * q + 1) = 6 * q + 1 /\ Raw(4 * q + 2) = 6 * q + 2 /\ Raw(4 * q + 3) = 6 * q + 4 /\ Raw(4 * q + 4) = 6 * q + 6
        BY RawIs
      <4>2. CASE b = 0
        <5>1. n - 1 \in Nat /\ size = 4 * (n - 1) + 4 /\ r = 6 * (n - 1) + 6 BY <2>1, <4>2
        <5>2. Raw(4 * (n - 1) + 4) = 6 * (n - 1) + 6 BY <4>1, <5>1
        <5>3. r \in Int BY <1>0
        <5> HIDE DEF size, r
        <5> QED BY <5>1, <5>2, <5>3
      <4>3. CASE b # 0
        <5>1. Raw(4 * n + 1) = 6 * n + 1 /\ Raw(4 * n + 2) = 6 * n + 2 /\ Raw(4 * n + 3) = 6 * n + 4 /\ Raw(4 * n + 4) = 6 * n + 6
          BY <4>1
        <5>2. b = 1 \/ b = 2 \/ b = 3 \/ b = 4 \/ b = 5 BY <4>3
        <5> QED BY <5>1, <5>2
      <4> QED BY <4>2, <4>3
    <3>3. Kept(r, d, size) = r - d
      <4>1. Raw(size) \in Nat /\ (size <= 2 => Raw(size) = size) BY <1>0, <3>1, RawIs
      <4>2. size <= 2 => size = r - d
        BY <1>0, <2>1
      <4> HIDE DEF size, r, left
      <4> QED BY <1>0, <3>1, <3>2, <4>1, <4>2 DEF Kept
    <3> HIDE DEF size, r
    <3> QED BY <2>1, <3>1, <3>3
  <2>2. CASE p # r - d
    <3> DEFINE w == Of(d, p)
               q == (w - 1) \div 6
               u == ((w - 1) % 6) + 1
               v == 4 * q + (IF u <= 2 THEN u ELSE (u \div 2) + 1)
    <3>1. w \in Nat /\ w >= 1 /\ w <= r - 1 /\ w % 6 \notin {3, 5} /\ (p <= 2 => w = p) /\ (p > 2 => w = p + d)
      BY <1>0, <1>5, <2>2 DEF Of
    <3> HIDE DEF w
    <3>2. q \in Nat /\ (w = 6 * q + 1 \/ w = 6 * q + 2 \/ w = 6 * q + 4 \/ w = 6 * q + 6) /\ u = w - 6 * q
      BY <3>1
    <3> HIDE DEF q
    <3>3. \/ w = 6 * q + 1 /\ v = 4 * q + 1
          \/ w = 6 * q + 2 /\ v = 4 * q + 2
          \/ w = 6 * q + 4 /\ v = 4 * q + 3
          \/ w = 6 * q + 6 /\ v = 4 * q + 4
      <4> HIDE DEF u
      <4>1. w = 6 * q + 1 => u = 1 BY <3>1, <3>2
      <4>2. w = 6 * q + 2 => u = 2 BY <3>1, <3>2
      <4>3. w = 6 * q + 4 => u = 4 BY <3>1, <3>2
      <4>4. w = 6 * q + 6 => u = 6 BY <3>1, <3>2
      <4>5. 4 \div 2 = 2 /\ 6 \div 2 = 3 OBVIOUS
      <4> QED BY <3>2, <4>1, <4>2, <4>3, <4>4, <4>5
    <3> HIDE DEF v
    <3>4. Raw(v) = w
      <4>1. Raw(4 * q + 1) = 6 * q + 1 /\ Raw(4 * q + 2) = 6 * q + 2 /\ Raw(4 * q + 3) = 6 * q + 4 /\ Raw(4 * q + 4) = 6 * q + 6
        BY <3>2, RawIs
      <4> QED BY <3>3, <4>1
    <3>5. v \in 1..size
      BY <1>0, <3>1, <3>2, <3>3
    <3>6. Kept(r, d, v) = p
      <4>1. v \in Nat /\ (v <= 2 => Raw(v) = v) /\ (v >= 3 => Raw(v) > v)
        <5>1. v \in Nat \ {0} BY <1>0, <3>5
        <5> QED BY <5>1, RawIs
      <4>2. v <= 2 => w = v BY <3>4, <4>1
      <4>3. v >= 3 => w >= 4 BY <3>1, <3>4, <4>1
      <4>4. p \in Nat BY <1>0
      <4>5. v <= 2 => p = v
        <5> SUFFICES ASSUME v <= 2 PROVE p = v OBVIOUS
        <5>1. w = v BY <4>2
        <5> QED BY <3>1, <4>1, <4>4, <5>1
      <4>6. v >= 3 => p = w - d
        <5> SUFFICES ASSUME v >= 3 PROVE p = w - d OBVIOUS
        <5> QED BY <3>1, <4>3, <4>4
      <4> HIDE DEF r, size, left
      <4> QED BY <1>0, <3>1, <3>4, <4>1, <4>5, <4>6 DEF Kept
    <3> HIDE DEF r, size
    <3> QED BY <3>5, <3>6
  <2> QED BY <2>1, <2>2
<1> HIDE DEF r, left, size
<1>6. Keeps(r, d, b, size)
  BY <1>1, <1>2, <1>3, <1>4, <1>5 DEF Keeps
<1> QED BY <1>6 DEF r, left, size

\* A token of a text with line ends of two, by its place in its event.
Placed(text, events, k, r) ==
  \A q \in Nat :
    /\ 6 * q + 1 <= r => k + q + 1 <= Len(events) /\ text[6 * k + (6 * q + 1)] = <<"first", events[k + q + 1]>>
    /\ 6 * q + 2 <= r => text[6 * k + (6 * q + 2)] = <<"second", events[k + q + 1]>>
    /\ 6 * q + 3 <= r => text[6 * k + (6 * q + 3)] = CR
    /\ 6 * q + 4 <= r => text[6 * k + (6 * q + 4)] = LF
    /\ 6 * q + 5 <= r => text[6 * k + (6 * q + 5)] = CR
    /\ 6 * q + 6 <= r => text[6 * k + (6 * q + 6)] = LF
EndsPlaced(text, k, r) ==
  \A w \in 1..r : /\ text[6 * k + w] = CR <=> w % 6 \in {3, 5}
                  /\ w % 6 \in {3, 5} /\ w < r => text[6 * k + (w + 1)] = LF

LEMMA SentCRLFIs ==
  ASSUME NEW events \in Seq(StreamEvent), NEW text, SentCRLF(text, events), NEW k \in Nat, NEW r \in Nat, 6 * k + r <= Len(text)
  PROVE  Placed(text, events, k, r) /\ EndsPlaced(text, k, r)
<1>1. text \in Seq(Token) /\ Len(text) \in Nat /\ Len(events) \in Nat
      /\ (Len(text) = 6 * Len(events) \/ (Len(text) = 6 * Len(events) - 4 /\ Len(events) >= 1))
  BY DEF SentCRLF
<1>2. ASSUME NEW q \in Nat
      PROVE  /\ 6 * q + 1 <= r => k + q + 1 <= Len(events) /\ text[6 * k + (6 * q + 1)] = <<"first", events[k + q + 1]>>
             /\ 6 * q + 2 <= r => text[6 * k + (6 * q + 2)] = <<"second", events[k + q + 1]>>
             /\ 6 * q + 3 <= r => text[6 * k + (6 * q + 3)] = CR
             /\ 6 * q + 4 <= r => text[6 * k + (6 * q + 4)] = LF
             /\ 6 * q + 5 <= r => text[6 * k + (6 * q + 5)] = CR
             /\ 6 * q + 6 <= r => text[6 * k + (6 * q + 6)] = LF
  <2> DEFINE e == k + q + 1
  <2>1. /\ 6 * k + (6 * q + 1) = 6 * e - 5 /\ 6 * k + (6 * q + 2) = 6 * e - 4 /\ 6 * k + (6 * q + 3) = 6 * e - 3
        /\ 6 * k + (6 * q + 4) = 6 * e - 2 /\ 6 * k + (6 * q + 5) = 6 * e - 1 /\ 6 * k + (6 * q + 6) = 6 * e
    OBVIOUS
  <2>2. 6 * q + 1 <= r => e \in 1..Len(events)
    BY <1>1
  <2>3. 6 * q + 3 <= r => 6 * e <= Len(text)
    BY <1>1
  <2>4. e \in 1..Len(events) => /\ text[6 * e - 5] = <<"first", events[e]>> /\ text[6 * e - 4] = <<"second", events[e]>>
                                /\ 6 * e <= Len(text) => /\ text[6 * e - 3] = CR /\ text[6 * e - 2] = LF
                                                         /\ text[6 * e - 1] = CR /\ text[6 * e] = LF
    BY DEF SentCRLF
  <2>5. /\ 6 * q + 2 <= r => 6 * q + 1 <= r
        /\ 6 * q + 3 <= r => 6 * q + 1 <= r
        /\ 6 * q + 4 <= r => 6 * q + 3 <= r
        /\ 6 * q + 5 <= r => 6 * q + 3 <= r
        /\ 6 * q + 6 <= r => 6 * q + 3 <= r
    OBVIOUS
  <2>6. e \in 1..Len(events) => k + q + 1 <= Len(events) BY <1>1
  <2>7. e = k + q + 1 OBVIOUS
  <2> HIDE DEF e
  <2> QED BY <2>1, <2>2, <2>3, <2>4, <2>5, <2>6, <2>7
<1>3. ASSUME NEW w \in 1..r
      PROVE  /\ text[6 * k + w] = CR <=> w % 6 \in {3, 5}
             /\ w % 6 \in {3, 5} /\ w < r => text[6 * k + (w + 1)] = LF
  <2> DEFINE q == (w - 1) \div 6
  <2>1. q \in Nat /\ (w = 6 * q + 1 \/ w = 6 * q + 2 \/ w = 6 * q + 3 \/ w = 6 * q + 4 \/ w = 6 * q + 5 \/ w = 6 * q + 6)
    OBVIOUS
  <2> HIDE DEF q
  <2>2. CASE w = 6 * q + 1
    <3>1. w % 6 = 1 BY <2>1, <2>2
    <3>1a. 6 * q + 1 <= r BY <2>2
    <3>2. text[6 * k + w] = <<"first", events[k + q + 1]>> BY <1>2, <2>1, <2>2, <3>1a
    <3>3. text[6 * k + w] # CR BY <3>2, Tokens
    <3> QED BY <3>1, <3>3
  <2>3. CASE w = 6 * q + 2
    <3>1. w % 6 = 2 BY <2>1, <2>3
    <3>1a. 6 * q + 2 <= r BY <2>3
    <3>2. text[6 * k + w] = <<"second", events[k + q + 1]>> BY <1>2, <2>1, <2>3, <3>1a
    <3>3. text[6 * k + w] # CR BY <3>2, Tokens
    <3> QED BY <3>1, <3>3
  <2>4. CASE w = 6 * q + 3
    <3>1. w % 6 = 3 /\ w + 1 = 6 * q + 4 BY <2>1, <2>4
    <3>2. w < r => 6 * q + 4 <= r BY <2>1, <2>4
    <3> QED BY <1>2, <2>1, <2>4, <3>1, <3>2
  <2>5. CASE w = 6 * q + 4
    <3>1. w % 6 = 4 BY <2>1, <2>5
    <3> QED BY <1>2, <2>1, <2>5, <3>1, Tokens
  <2>6. CASE w = 6 * q + 5
    <3>1. w % 6 = 5 /\ w + 1 = 6 * q + 6 BY <2>1, <2>6
    <3>2. w < r => 6 * q + 6 <= r BY <2>1, <2>6
    <3> QED BY <1>2, <2>1, <2>6, <3>1, <3>2
  <2>7. CASE w = 6 * q + 6
    <3>1. w % 6 = 0 BY <2>1, <2>7
    <3> QED BY <1>2, <2>1, <2>7, <3>1, Tokens
  <2> QED BY <2>1, <2>2, <2>3, <2>4, <2>5, <2>6, <2>7
<1> QED BY <1>2, <1>3 DEF Placed, EndsPlaced

\* A line end of two tokens: what joins loses the first of each.
LEMMA CollectedCRLF ==
  ASSUME NEW events \in Seq(StreamEvent), NEW text, SentCRLF(text, events), NEW i \in Nat, NEW c \in Nat, i + c <= Len(text)
  PROVE  CollectsNext(text, events, 6, i, c)
<1> DEFINE k == i \div 6
           m == i % 6
           d == Folded(6, i)
           l == (i + c) \div 6
           b == (i + c) % 6
           n == l - k
           r == 6 * n + b
           left == b - (IF b >= 4 THEN 1 ELSE 0)
           size == 4 * n + left
           x == Held(text, 6, i) \o SubSeq(text, i + 1, i + c)
           g == [v \in 1..size |-> Kept(r, d, v)]
           y == [v \in 1..size |-> x[g[v]]]
<1>1. /\ k \in Nat /\ m \in 0..5 /\ i = 6 * k + m /\ l \in Nat /\ b \in 0..5 /\ i + c = 6 * l + b
      /\ d \in 0..1 /\ (d = 1 <=> m >= 4) /\ n \in Nat /\ k + n = l
  <2>1. /\ k \in Nat /\ m \in 0..(6 - 1) /\ i = 6 * k + m /\ k <= l
        /\ d \in 0..1 /\ (d = 1 <=> 6 = 6 /\ m >= 4)
    BY Cuts
  <2>2. l \in Nat /\ b \in 0..(6 - 1) /\ i + c = 6 * l + b
    BY Cuts, i + c \in Nat
  <2> HIDE DEF k, m, l, b, d
  <2> QED BY <2>1, <2>2
<1>2. /\ Len(text) \in Nat /\ Len(events) \in Nat /\ text \in Seq(Token)
      /\ (Len(text) = 6 * Len(events) \/ (Len(text) = 6 * Len(events) - 4 /\ Len(events) >= 1))
  BY DEF SentCRLF
<1>3. x \in Seq(Token) /\ Len(x) = r - d /\ \A p \in 1..(r - d) : x[p] = text[6 * k + Of(d, p)]
  <2>1. /\ x \in Seq(Token) /\ Len(x) = (i % 6) - Folded(6, i) + c
        /\ \A p \in 1..((i % 6) - Folded(6, i) + c) :
             x[p] = text[6 * (i \div 6) + (IF p <= 2 \/ Folded(6, i) = 0 THEN p ELSE p + 1)]
    <3>1. 6 \in {4, 6} OBVIOUS
    <3>2. text \in Seq(Token) BY <1>2
    <3> HIDE DEF k, m, d, l, b, n, r
    <3> QED BY <3>1, <3>2, JoinIs
  <2>2. m - d + c = r - d
    BY <1>1
  <2> HIDE DEF x, k, m, d, r
  <2>3. /\ x \in Seq(Token) /\ Len(x) = m - d + c
        /\ \A p \in 1..(m - d + c) : x[p] = text[6 * k + (IF p <= 2 \/ d = 0 THEN p ELSE p + 1)]
    BY <2>1 DEF k, m, d
  <2> QED BY <2>2, <2>3 DEF Of
<1>4. 6 * k + r = i + c /\ 6 * k + r <= Len(text) /\ r \in Nat /\ (d = 1 => r >= 4) /\ size \in Nat /\ left \in 0..4
  BY <1>1
<1> HIDE DEF k, m, l, b, d, x
<1>5. /\ \A v \in 1..size : Kept(r, d, v) \in 1..(r - d)
      /\ \A v, w \in 1..size : v < w => Kept(r, d, v) < Kept(r, d, w)
      /\ \A v \in 1..size : Of(d, Kept(r, d, v)) = IF Raw(v) > r THEN r ELSE Raw(v)
      /\ \A v \in 1..size : Raw(v) > r => v = size /\ b \in {3, 5}
      /\ \A v \in 1..size : Of(d, Kept(r, d, v)) % 6 \notin {3, 5} \/ Kept(r, d, v) = r - d
      /\ \A p \in 1..(r - d) : Of(d, p) % 6 \notin {3, 5} \/ p = r - d => \E v \in 1..size : p = Kept(r, d, v)
  <2>1. n \in Nat /\ b \in 0..5 /\ d \in 0..1 /\ (d = 1 => 6 * n + b >= 4) BY <1>1, <1>4
  <2> HIDE DEF n
  <2>2. Keeps(6 * n + b, d, b, 4 * n + (b - (IF b >= 4 THEN 1 ELSE 0)))
    BY <2>1, KeptIs
  <2> QED BY <2>2 DEF Keeps
<1>6. Placed(text, events, k, r) /\ EndsPlaced(text, k, r)
  <2> HIDE DEF r
  <2> QED BY <1>1, <1>4, SentCRLFIs
<1> HIDE DEF r, size, left, n
<1>7. g \in [1..size -> Nat] /\ \A v, w \in 1..size : v < w => g[v] < g[w]
  BY <1>1, <1>4, <1>5
<1>8. ASSUME NEW p \in 1..(r - d)
      PROVE  x[p] = CR /\ p < Len(x) /\ x[p + 1] = LF <=> Of(d, p) % 6 \in {3, 5} /\ p # r - d
  <2>1. Of(d, p) \in 1..r /\ (p < r - d => Of(d, p) < r)
    BY <1>1, <1>4 DEF Of
  <2>2. x[p] = text[6 * k + Of(d, p)] BY <1>3
  <2>2a. /\ text[6 * k + Of(d, p)] = CR <=> Of(d, p) % 6 \in {3, 5}
         /\ Of(d, p) % 6 \in {3, 5} /\ Of(d, p) < r => text[6 * k + (Of(d, p) + 1)] = LF
    BY <1>6, <2>1, Zenon DEF EndsPlaced
  <2>3. x[p] = CR <=> Of(d, p) % 6 \in {3, 5} BY <2>2, <2>2a, Zenon
  <2>4. p < Len(x) <=> p # r - d BY <1>1, <1>3, <1>4
  <2>5. ASSUME Of(d, p) % 6 \in {3, 5}, p # r - d PROVE x[p + 1] = LF
    <3>1. p < r - d /\ p + 1 \in 1..(r - d) BY <1>1, <1>4, <2>5
    <3>2. Of(d, p + 1) = Of(d, p) + 1
      <4>1. p # 2 /\ p # 1
        <5>1. 1 % 6 = 1 /\ 2 % 6 = 2 OBVIOUS
        <5> QED BY <2>5, <5>1 DEF Of
      <4> QED BY <4>1, <1>4 DEF Of
    <3>3. x[p + 1] = text[6 * k + (Of(d, p) + 1)] BY <1>3, <3>1, <3>2
    <3> QED BY <2>1, <2>2a, <2>5, <3>1, <3>3
  <2> HIDE DEF x
  <2> QED BY <2>3, <2>4, <2>5
<1>9. {p \in DOMAIN x : ~(x[p] = CR /\ p < Len(x) /\ x[p + 1] = LF)} = {g[v] : v \in 1..size}
  <2>1. DOMAIN x = 1..(r - d) BY <1>3
  <2>2. {p \in DOMAIN x : ~(x[p] = CR /\ p < Len(x) /\ x[p + 1] = LF)}
          = {p \in 1..(r - d) : Of(d, p) % 6 \notin {3, 5} \/ p = r - d}
    BY <1>8, <2>1
  <2>3. {p \in 1..(r - d) : Of(d, p) % 6 \notin {3, 5} \/ p = r - d} = {g[v] : v \in 1..size}
    BY <1>5
  <2> QED BY <2>2, <2>3
<1>10. Normalized(x) = y
  <2> HIDE DEF g
  <2> QED BY <1>4, <1>7, <1>9, NormalizedIs
<1>11. ASSUME NEW v \in 1..size PROVE y[v] = text[6 * k + (IF Raw(v) > r THEN r ELSE Raw(v))]
  <2>1. y[v] = x[Kept(r, d, v)] OBVIOUS
  <2> QED BY <1>3, <1>5, <2>1
<1>12. y \in Seq(Token) /\ Len(y) = size
  <2>1. \A v \in 1..size : x[g[v]] \in Token
    <3>1. \A v \in 1..size : g[v] \in 1..(r - d) BY <1>5
    <3> HIDE DEF g
    <3> QED BY <1>3, <3>1
  <2> HIDE DEF g
  <2>2. y \in [1..size -> Token] BY <2>1
  <2> HIDE DEF y
  <2> QED BY <1>4, <2>2
<1> HIDE DEF g, y
<1>13. n \in Nat /\ left \in 0..4 /\ size = 4 * n + left /\ r = 6 * n + b /\ k + n = l
       /\ (b <= 3 => left = b) /\ (b >= 4 => left = b - 1)
  BY <1>1 DEF n, left, size, r
<1>14. \A q \in Nat : /\ Raw(4 * q + 1) = 6 * q + 1 /\ Raw(4 * q + 2) = 6 * q + 2
                      /\ Raw(4 * q + 3) = 6 * q + 4 /\ Raw(4 * q + 4) = 6 * q + 6
  BY RawIs
<1>15. ASSUME NEW q \in 1..n
       PROVE  /\ y[4 * q - 3] = <<"first", events[k + q]>> /\ y[4 * q - 2] = <<"second", events[k + q]>>
              /\ y[4 * q - 1] = LF /\ y[4 * q] = LF
  <2> DEFINE o == q - 1
  <2>1. /\ o \in Nat /\ k + o + 1 = k + q
        /\ 4 * q - 3 = 4 * o + 1 /\ 4 * q - 2 = 4 * o + 2 /\ 4 * q - 1 = 4 * o + 3 /\ 4 * q = 4 * o + 4
    BY <1>1
  <2>2. 6 * o + 6 <= r /\ 4 * o + 4 <= size
    BY <1>1, <1>13
  <2> HIDE DEF o
  <2>3. /\ 4 * o + 1 \in 1..size /\ 4 * o + 2 \in 1..size /\ 4 * o + 3 \in 1..size /\ 4 * o + 4 \in 1..size
        /\ ~(6 * o + 1 > r) /\ ~(6 * o + 2 > r) /\ ~(6 * o + 4 > r) /\ ~(6 * o + 6 > r)
    BY <1>4, <2>1, <2>2
  <2>4. /\ y[4 * o + 1] = text[6 * k + (6 * o + 1)] /\ y[4 * o + 2] = text[6 * k + (6 * o + 2)]
        /\ y[4 * o + 3] = text[6 * k + (6 * o + 4)] /\ y[4 * o + 4] = text[6 * k + (6 * o + 6)]
    BY <1>11, <1>14, <2>1, <2>3
  <2>5. /\ text[6 * k + (6 * o + 1)] = <<"first", events[k + o + 1]>> /\ text[6 * k + (6 * o + 2)] = <<"second", events[k + o + 1]>>
        /\ text[6 * k + (6 * o + 4)] = LF /\ text[6 * k + (6 * o + 6)] = LF
    <3>1. 6 * o + 1 <= r /\ 6 * o + 2 <= r /\ 6 * o + 4 <= r
      BY <1>4, <2>1, <2>2
    <3> QED BY <1>6, <2>1, <2>2, <3>1 DEF Placed
  <2> QED BY <2>1, <2>4, <2>5
<1>16. l <= Len(events) /\ 6 * l + b <= Len(text)
  BY <1>1, <1>2, <1>4
\* What is left of the next event.
<1>17. ASSUME NEW p \in 1..left PROVE y[4 * n + p] = text[6 * l + (IF p <= 2 \/ b <= 3 THEN p ELSE p + 1)]
  <2>1. 4 * n + p \in 1..size
    BY <1>13
  <2>2. y[4 * n + p] = text[6 * k + (IF Raw(4 * n + p) > r THEN r ELSE Raw(4 * n + p))]
    BY <1>11, <2>1
  <2>3. /\ p = 1 => Raw(4 * n + p) = 6 * n + 1
        /\ p = 2 => Raw(4 * n + p) = 6 * n + 2
        /\ p = 3 => Raw(4 * n + p) = 6 * n + 4
        /\ p = 4 => Raw(4 * n + p) = 6 * n + 6
    BY <1>13, <1>14
  <2>4. 6 * k + (IF Raw(4 * n + p) > r THEN r ELSE Raw(4 * n + p)) = 6 * l + (IF p <= 2 \/ b <= 3 THEN p ELSE p + 1)
    <3>1. 6 * l = 6 * k + 6 * n BY <1>1, <1>13
    <3>2. CASE p = 1 BY <1>1, <1>13, <2>3, <3>1, <3>2
    <3>3. CASE p = 2 BY <1>1, <1>13, <2>3, <3>1, <3>3
    <3>4. CASE p = 3 BY <1>1, <1>13, <2>3, <3>1, <3>4
    <3>5. CASE p = 4 BY <1>1, <1>13, <2>3, <3>1, <3>5
    <3>6. p = 1 \/ p = 2 \/ p = 3 \/ p = 4 BY <1>13
    <3> QED BY <3>2, <3>3, <3>4, <3>5, <3>6
  <2> QED BY <2>2, <2>4
<1>18. Framed(y, events, k, n, left)
  <2>1. left >= 1 => y[4 * n + 1] # LF
    <3> SUFFICES ASSUME left >= 1 PROVE y[4 * n + 1] # LF
      OBVIOUS
    <3>0. 1 \in 1..left BY <1>13
    <3>1. y[4 * n + 1] = text[6 * l + 1] BY <1>17, <3>0
    <3>2. 6 * l + 1 = 6 * k + (6 * n + 1) /\ 6 * n + 1 <= r BY <1>1, <1>13
    <3>3. text[6 * k + (6 * n + 1)] = <<"first", events[k + n + 1]>> BY <1>6, <1>13, <3>2 DEF Placed
    <3> QED BY <3>1, <3>2, <3>3, Tokens
  <2>2. left >= 2 => y[4 * n + 2] # LF
    <3> SUFFICES ASSUME left >= 2 PROVE y[4 * n + 2] # LF
      OBVIOUS
    <3>0. 2 \in 1..left BY <1>13
    <3>1. y[4 * n + 2] = text[6 * l + 2] BY <1>17, <3>0
    <3>2. 6 * l + 2 = 6 * k + (6 * n + 2) /\ 6 * n + 2 <= r BY <1>1, <1>13
    <3>3. text[6 * k + (6 * n + 2)] = <<"second", events[k + n + 1]>> BY <1>6, <1>13, <3>2 DEF Placed
    <3> QED BY <3>1, <3>2, <3>3, Tokens
  <2>3. left = 4 => y[4 * n + 4] # LF
    <3> SUFFICES ASSUME left = 4 PROVE y[4 * n + 4] # LF
      OBVIOUS
    <3>1. b = 5 BY <1>1, <1>13
    <3>2. y[4 * n + 4] = text[6 * l + 5] BY <1>13, <1>17, <3>1
    <3>3. 6 * l + 5 = 6 * k + (6 * n + 5) /\ 6 * n + 5 <= r BY <1>1, <1>13, <3>1
    <3>4. text[6 * k + (6 * n + 5)] = CR BY <1>6, <1>13, <3>3 DEF Placed
    <3> QED BY <3>2, <3>3, <3>4, Tokens
  <2> QED BY <1>12, <1>13, <1>15, <2>1, <2>2, <2>3 DEF Framed
<1>19. FramesRead(Says(events, k, Held(text, 6, i)), y) = Says(events, k + n, SubSeq(y, 4 * n + 1, Len(y)))
  <2>1. k \in Nat /\ n \in Nat /\ left \in 0..4 /\ k + n <= Len(events)
    BY <1>1, <1>13, <1>16
  <2> HIDE DEF k, n, left
  <2> QED BY <1>18, <2>1, FramesReadIs
<1>20. SubSeq(y, 4 * n + 1, Len(y)) = Held(text, 6, i + c)
  <2> DEFINE a == 4 * n + 1
  <2>1. a \in Int /\ Len(y) \in Int /\ Len(y) - a + 1 = left /\ \A p \in 1..left : a + p - 1 = 4 * n + p
    BY <1>12, <1>13
  <2> HIDE DEF a
  <2>2. SubSeq(y, a, Len(y)) = [p \in 1..(Len(y) - a + 1) |-> y[a + p - 1]]
    BY <1>12, <2>1
  <2>3. SubSeq(y, a, Len(y)) = [p \in 1..left |-> y[4 * n + p]]
    BY <2>1, <2>2
  <2>4. Folded(6, i + c) = IF b >= 4 THEN 1 ELSE 0 BY DEF Folded, b
  <2>5. b - Folded(6, i + c) = left /\ (Folded(6, i + c) = 0 <=> b <= 3)
    BY <1>1, <1>13, <2>4
  <2>6. Held(text, 6, i + c) = [p \in 1..(b - Folded(6, i + c)) |->
                                  text[6 * l + (IF p <= 2 \/ Folded(6, i + c) = 0 THEN p ELSE p + 1)]]
    BY DEF Held, b, l
  <2>7. Held(text, 6, i + c) = [p \in 1..left |-> text[6 * l + (IF p <= 2 \/ b <= 3 THEN p ELSE p + 1)]]
    BY <2>5, <2>6
  <2>8. SubSeq(y, a, Len(y)) = Held(text, 6, i + c)
    BY <1>17, <2>3, <2>7
  <2> QED BY <2>8 DEF a
<1>21. Collected(Says(events, k, Held(text, 6, i)), SubSeq(text, i + 1, i + c))
         = {FramesRead(Says(events, k, Held(text, 6, i)), Normalized(x))}
  <2>1. Says(events, k, Held(text, 6, i)).buffer = Held(text, 6, i) BY DEF Says
  <2> QED BY <2>1 DEF Collected, x
<1>22. Collected(Says(events, k, Held(text, 6, i)), SubSeq(text, i + 1, i + c)) = {Says(events, l, Held(text, 6, i + c))}
  BY <1>10, <1>13, <1>19, <1>20, <1>21
<1> QED BY <1>22 DEF k, l, CollectsNext, CollectorOf

----------------------------------------------------------------------------
(* What is read at the end. *)

Sent(text, events, size) == (size = 4 /\ SentLF(text, events)) \/ (size = 6 /\ SentCRLF(text, events))

\* Whatever is sent is sent with one of the line ends.
LEMMA EncodedIs ==
  ASSUME NEW events \in Seq(StreamEvent), NEW closed \in BOOLEAN, NEW lineEnd \in {<<LF>>, <<CR, LF>>}
  PROVE  \E size \in {4, 6} : Sent(Encoded(events, lineEnd, closed), events, size)
<1>1. CASE lineEnd = <<LF>>
  BY <1>1, EncodedLF DEF Sent
<1>2. CASE lineEnd = <<CR, LF>>
  BY <1>2, EncodedCRLF DEF Sent
<1> QED BY <1>1, <1>2

LEMMA CollectedIs ==
  ASSUME NEW events \in Seq(StreamEvent), NEW text, NEW size \in {4, 6}, Sent(text, events, size),
         NEW i \in Nat, NEW c \in Nat, i + c <= Len(text)
  PROVE  CollectsNext(text, events, size, i, c)
<1>1. CASE size = 4
  <2>1. SentLF(text, events) BY <1>1 DEF Sent
  <2>2. CollectsNext(text, events, 4, i, c) BY <2>1, CollectedLF
  <2> QED BY <1>1, <2>2, Zenon
<1>2. CASE size = 6
  <2>1. SentCRLF(text, events) BY <1>2 DEF Sent
  <2>2. CollectsNext(text, events, 6, i, c) BY <2>1, CollectedCRLF
  <2> QED BY <1>2, <2>2, Zenon
<1> QED BY <1>1, <1>2

\* Before the first token it is empty.
LEMMA CollectorStarts ==
  ASSUME NEW events \in Seq(StreamEvent), NEW text, NEW size \in {4, 6}
  PROVE  CollectorOf(text, events, size, 0) = EmptyCollector
<1>1. 0 \div size = 0 /\ 0 % size = 0
  <2>1. CASE size = 4 BY <2>1
  <2>2. CASE size = 6 BY <2>2
  <2> QED BY <2>1, <2>2
<1>2. Held(text, size, 0) = <<>>
  BY <1>1 DEF Held, Folded
<1>3. \A kinds : LastOf(events, kinds, 0) = NoUsage
  BY LastOfIs
<1>4. MessagesOf(events, 0) = NoUsage
  BY <1>3 DEF MessagesOf
<1> QED BY <1>1, <1>2, <1>3, <1>4 DEF CollectorOf, Says, EmptyCollector

\* A collector of every event reads what they say.
LEMMA UsageOfAll ==
  ASSUME NEW events \in Seq(StreamEvent), NEW buffer
  PROVE  LET c == Says(events, Len(events), buffer)
         IN (IF c.provider # NoUsage THEN c.provider ELSE c.messages) = UsageOf(events)
<1> DEFINE last(kinds) == LastOf(events, kinds, Len(events))
<1>1. DOMAIN events = 1..Len(events)
  OBVIOUS
<1>2. UsageOf(events) = IF last({"usage"}) # NoUsage THEN last({"usage"})
                        ELSE IF last({"start", "delta"}) = NoUsage THEN NoUsage
                        ELSE [in |-> IF last({"start"}) = NoUsage THEN 0 ELSE last({"start"}).in, out |-> last({"start", "delta"}).out]
  BY <1>1 DEF UsageOf, LastOf
<1> HIDE DEF last
<1>3. Says(events, Len(events), buffer).provider = last({"usage"})
      /\ Says(events, Len(events), buffer).messages = MessagesOf(events, Len(events))
  BY DEF Says, last
<1>4. MessagesOf(events, Len(events)) = IF last({"start", "delta"}) = NoUsage THEN NoUsage
        ELSE [in |-> IF last({"start"}) = NoUsage THEN 0 ELSE last({"start"}).in, out |-> last({"start", "delta"}).out]
  BY DEF MessagesOf, last
<1> QED BY <1>2, <1>3, <1>4

\* The usage read of a whole text is what its events say.
LEMMA UsageReadIs ==
  ASSUME NEW events \in Seq(StreamEvent), NEW text, NEW size \in {4, 6}, Sent(text, events, size)
  PROVE  UsageRead(CollectorOf(text, events, size, Len(text))) = UsageOf(events)
<1> DEFINE E == Len(events)
           T == Len(text)
           held == Held(text, size, T)
           c == CollectorOf(text, events, size, T)
<1>1. /\ text \in Seq(Token) /\ T \in Nat /\ E \in Nat
      /\ T = size * E \/ (T = size * (E - 1) + 2 /\ E >= 1)
  BY DEF Sent, SentLF, SentCRLF
<1>2. c = Says(events, T \div size, held)
  BY DEF CollectorOf
<1>3. /\ held \in Seq(Token) /\ Len(held) = (T % size) - Folded(size, T)
      /\ \A p \in 1..((T % size) - Folded(size, T)) :
           held[p] = text[size * (T \div size) + (IF p <= 2 \/ Folded(size, T) = 0 THEN p ELSE p + 1)]
  BY <1>1, HeldIs, T \in 0..Len(text)
<1>4. CASE T = size * E
  <2>1. T \div size = E /\ T % size = 0
    <3> HIDE DEF T, E
    <3>1. CASE size = 4 BY <1>1, <1>4, <3>1
    <3>2. CASE size = 6 BY <1>1, <1>4, <3>2
    <3> QED BY <3>1, <3>2
  <2>2. held = <<>>
    <3>1. Folded(size, T) = 0 BY <2>1 DEF Folded
    <3> HIDE DEF held, T
    <3> QED BY <1>3, <2>1, <3>1
  <2>3. c.buffer = <<>> BY <1>2, <2>2 DEF Says
  <2>4. FrameRead(c, c.buffer) = c
    <3>1. Parsed(c.buffer) = {} BY <2>3, ParsedIs
    <3> HIDE DEF c
    <3> QED BY <3>1, Zenon DEF FrameRead
  <2>5. c = Says(events, E, held) BY <1>2, <2>1
  <2> HIDE DEF c, E, held
  <2>6. UsageRead(c) = IF c.provider # NoUsage THEN c.provider ELSE c.messages
    BY <2>4 DEF UsageRead
  <2> QED BY <2>5, <2>6, UsageOfAll DEF c, E
<1>5. CASE T = size * (E - 1) + 2 /\ E >= 1
  <2> DEFINE k == E - 1
  <2>1. T \div size = k /\ T % size = 2 /\ k \in Nat /\ k + 1 = E
    <3> HIDE DEF T, E
    <3>1. CASE size = 4 BY <1>1, <1>5, <3>1
    <3>2. CASE size = 6 BY <1>1, <1>5, <3>2
    <3> QED BY <3>1, <3>2
  <2>2. Folded(size, T) = 0 BY <2>1 DEF Folded
  <2>3. text[size * k + 1] = <<"first", events[k + 1]>> /\ text[size * k + 2] = <<"second", events[k + 1]>>
    <3>1. E \in 1..Len(events) BY <1>1, <1>5
    <3>2. CASE size = 4
      <4>1. 4 * k + 1 = 4 * E - 3 /\ 4 * k + 2 = 4 * E - 2 BY <1>1
      <4> QED BY <2>1, <3>1, <3>2, <4>1 DEF Sent, SentLF
    <3>3. CASE size = 6
      <4>1. 6 * k + 1 = 6 * E - 5 /\ 6 * k + 2 = 6 * E - 4 BY <1>1
      <4> QED BY <2>1, <3>1, <3>3, <4>1 DEF Sent, SentCRLF
    <3> QED BY <3>2, <3>3
  <2> HIDE DEF T, k, held, c, E
  <2>4. Len(held) = 2 /\ DOMAIN held = 1..2 /\ held[1] = <<"first", events[k + 1]>> /\ held[2] = <<"second", events[k + 1]>>
    <3>1. Len(held) = 2 BY <1>3, <2>1, <2>2
    <3>2. \A p \in 1..2 : held[p] = text[size * k + p]
      BY <1>3, <2>1, <2>2
    <3>3. DOMAIN held = 1..2 BY <1>3, <3>1
    <3>4. 1 \in 1..2 /\ 2 \in 1..2 OBVIOUS
    <3> QED BY <2>3, <3>1, <3>2, <3>3, <3>4
  <2>5. c = Says(events, k, held) BY <1>2, <2>1
  <2>6. c.buffer = held BY <2>5 DEF Says
  <2>7. FrameRead(c, c.buffer) = Says(events, E, held)
    <3>1. k + 1 <= Len(events) BY <1>1, <2>1 DEF E
    <3>2. FrameRead(Says(events, k, held), held) = Says(events, k + 1, held)
      BY <2>1, <2>4, <3>1, FrameReadIs
    <3> QED BY <2>1, <2>5, <2>6, <3>2
  <2>8. UsageRead(c) = IF Says(events, E, held).provider # NoUsage THEN Says(events, E, held).provider ELSE Says(events, E, held).messages
    BY <2>7 DEF UsageRead
  <2> QED BY <2>8, UsageOfAll DEF c, E, T
<1> QED BY <1>1, <1>4, <1>5

----------------------------------------------------------------------------
(* The invariant of the pipeline. *)

Early == {"absent", "connecting", "first"}
States == Early \cup {"open", "done", "failed", "ended", "errored", "destroyed", "closed"}

StreamTyped ==
  /\ body \in [events : Seq(StreamEvent), text : Seq(Token), collected : Nat, failed : BOOLEAN]
  /\ source \in [unread : Seq(Token), chunk : Seq(Token), state : States,
                 reader : {"none", "held", "cancelled"}, calls : 0..MaxCalls]
  /\ output \in [held : 0..(HighWater + Len(body.text)), state : {"open", "finishing", "destroyed", "closed"}]
  /\ client \in {"waiting", "reading", "served", "left"}
  /\ released \in 0..1

\* What was collected is a part of the text, and the collector is that of this part.
Collecting(b, c) ==
  \E size \in {4, 6} : Sent(b.text, b.events, size) /\ c = CollectorOf(b.text, b.events, size, b.collected)

\* The rest of the text is in the source.
Pumped(b, s) ==
  LET i == b.collected
      n == Len(s.chunk)
  IN /\ i + n + Len(s.unread) = Len(b.text)
     /\ s.chunk = SubSeq(b.text, i + 1, i + n)
     /\ s.unread = SubSeq(b.text, i + n + 1, Len(b.text))

Outcome(r) ==
  /\ r.status \in {200, 502, 499}
  /\ r.status = 200 => body.collected = Len(body.text) /\ r.usage = UsageOf(body.events) /\ ~body.failed
  /\ r.status = 502 => body.failed
  /\ r.status = 499 => client = "left"

StreamInv ==
  /\ StreamTyped
  /\ Collecting(body, collector)
  /\ source.state \in Early => /\ body.collected = 0 /\ ~body.failed /\ source.chunk = <<>>
                             /\ output = NoOutput /\ client = "waiting"
  /\ source.state = "first" => source.unread = body.text
  /\ source.state \in {"open", "done"} => Pumped(body, source) /\ ~body.failed
  /\ source.state = "done" => source.unread = <<>>
  /\ source.state = "failed" => body.failed
  /\ source.state = "destroyed" => client = "left"
  /\ source.state \in {"ended", "errored"} => recorded # <<>>
  /\ source.state \notin {"ended", "errored", "closed"} => recorded = <<>>
  /\ output.state = "finishing" => source.state \in {"ended", "closed"}
  /\ output.state = "destroyed" /\ source.state \in {"open", "done"} => client = "left"
  /\ recorded = <<>> \/ \E r : recorded = <<r>> /\ Outcome(r)

LEMMA StreamNumbers == HighWater \in Nat /\ HighWater > 0 /\ MaxCalls \in Nat
  BY StreamAssumption

\* A chunk read takes the next tokens of what is unread.
Takes(text, unread, i, n) ==
  /\ SubSeq(unread, 1, n) = SubSeq(text, i + 1, i + n) /\ SubSeq(unread, 1, n) \in Seq(Token) /\ Len(SubSeq(unread, 1, n)) = n
  /\ SubSeq(unread, n + 1, Len(unread)) = SubSeq(text, i + n + 1, Len(text))
  /\ SubSeq(unread, n + 1, Len(unread)) \in Seq(Token)
  /\ Len(unread) = Len(text) - i
  /\ i + n + Len(SubSeq(unread, n + 1, Len(unread))) = Len(text)

LEMMA PumpedNext ==
  ASSUME NEW text \in Seq(Token), NEW i \in Nat, i <= Len(text), NEW n \in 1..(Len(text) - i),
         NEW unread, unread = SubSeq(text, i + 1, Len(text))
  PROVE  Takes(text, unread, i, n)
<1> DEFINE T == Len(text)
<1>0. T \in Nat /\ DOMAIN text = 1..T
  OBVIOUS
<1>1. \A s \in Seq(Token) : \A a, b \in Nat : 1 <= a /\ a <= b + 1 /\ b <= Len(s) =>
        /\ SubSeq(s, a, b) \in Seq(Token) /\ Len(SubSeq(s, a, b)) = b - a + 1
        /\ SubSeq(s, a, b) = [p \in 1..(b - a + 1) |-> s[a + p - 1]]
  <2> SUFFICES ASSUME NEW s \in Seq(Token), NEW a \in Nat, NEW b \in Nat, 1 <= a, a <= b + 1, b <= Len(s)
               PROVE  /\ SubSeq(s, a, b) \in Seq(Token) /\ Len(SubSeq(s, a, b)) = b - a + 1
                      /\ SubSeq(s, a, b) = [p \in 1..(b - a + 1) |-> s[a + p - 1]]
    OBVIOUS
  <2>1. SubSeq(s, a, b) = [p \in 1..(b - a + 1) |-> s[a + p - 1]] OBVIOUS
  <2>2. \A p \in 1..(b - a + 1) : s[a + p - 1] \in Token
    <3>1. \A p \in 1..(b - a + 1) : a + p - 1 \in 1..Len(s) OBVIOUS
    <3> QED BY <3>1
  <2>3. [p \in 1..(b - a + 1) |-> s[a + p - 1]] \in Seq(Token) /\ Len([p \in 1..(b - a + 1) |-> s[a + p - 1]]) = b - a + 1
    <3> DEFINE f == [p \in 1..(b - a + 1) |-> s[a + p - 1]]
               l == b - a + 1
    <3>1. f \in [1..l -> Token] BY <2>2
    <3>2. l \in Nat OBVIOUS
    <3> HIDE DEF f, l
    <3>3. f \in Seq(Token) /\ Len(f) = l BY <3>1, <3>2
    <3> QED BY <3>3 DEF f, l
  <2> QED BY <2>1, <2>3
<1>1a. n \in Nat /\ 1 <= n /\ n <= T - i /\ i <= T
  OBVIOUS
<1> HIDE DEF T
<1>2. unread \in Seq(Token) /\ Len(unread) = T - i /\ unread = [p \in 1..(T - i) |-> text[i + p]]
  <2>1. i + 1 \in Nat /\ 1 <= i + 1 /\ i + 1 <= T + 1 /\ T <= Len(text) /\ T - (i + 1) + 1 = T - i
    BY <1>0 DEF T
  <2>2. unread = SubSeq(text, i + 1, T) BY DEF T
  <2>3. unread \in Seq(Token) /\ Len(unread) = T - (i + 1) + 1 /\ unread = [p \in 1..(T - (i + 1) + 1) |-> text[i + 1 + p - 1]]
    BY <1>0, <1>1, <2>1, <2>2
  <2>4. \A p \in 1..(T - i) : i + 1 + p - 1 = i + p BY <1>0
  <2> QED BY <2>1, <2>3, <2>4
<1>3. /\ SubSeq(unread, 1, n) \in Seq(Token) /\ Len(SubSeq(unread, 1, n)) = n
      /\ SubSeq(unread, 1, n) = [p \in 1..n |-> text[i + p]]
  <2>1. n \in Nat /\ n <= Len(unread) /\ n <= T - i /\ n - 1 + 1 = n BY <1>0, <1>1a, <1>2
  <2>2. /\ SubSeq(unread, 1, n) \in Seq(Token) /\ Len(SubSeq(unread, 1, n)) = n - 1 + 1
        /\ SubSeq(unread, 1, n) = [p \in 1..(n - 1 + 1) |-> unread[1 + p - 1]]
    BY <1>1, <1>2, <2>1
  <2>3. \A p \in 1..n : unread[1 + p - 1] = text[i + p]
    <3> SUFFICES ASSUME NEW p \in 1..n PROVE unread[1 + p - 1] = text[i + p]
      OBVIOUS
    <3>1. 1 + p - 1 = p /\ p \in 1..(T - i) BY <1>0, <2>1
    <3> QED BY <1>2, <3>1
  <2> QED BY <2>1, <2>2, <2>3
<1>4. SubSeq(text, i + 1, i + n) = [p \in 1..n |-> text[i + p]]
  <2>1. i + 1 \in Nat /\ i + n \in Nat /\ 1 <= i + 1 /\ i + 1 <= i + n + 1 /\ i + n <= Len(text) /\ i + n - (i + 1) + 1 = n
    BY <1>0 DEF T
  <2>2. SubSeq(text, i + 1, i + n) = [p \in 1..(i + n - (i + 1) + 1) |-> text[i + 1 + p - 1]]
    BY <1>1, <2>1
  <2>3. \A p \in 1..n : i + 1 + p - 1 = i + p OBVIOUS
  <2> QED BY <2>1, <2>2, <2>3
<1>5. /\ SubSeq(unread, n + 1, Len(unread)) \in Seq(Token) /\ Len(SubSeq(unread, n + 1, Len(unread))) = T - i - n
      /\ SubSeq(unread, n + 1, Len(unread)) = [p \in 1..(T - i - n) |-> text[i + n + p]]
  <2>1. n + 1 \in Nat /\ Len(unread) \in Nat /\ 1 <= n + 1 /\ n + 1 <= Len(unread) + 1 /\ Len(unread) - (n + 1) + 1 = T - i - n
    BY <1>0, <1>1a, <1>2
  <2>2. /\ SubSeq(unread, n + 1, Len(unread)) \in Seq(Token)
        /\ Len(SubSeq(unread, n + 1, Len(unread))) = Len(unread) - (n + 1) + 1
        /\ SubSeq(unread, n + 1, Len(unread)) = [p \in 1..(Len(unread) - (n + 1) + 1) |-> unread[n + 1 + p - 1]]
    BY <1>1, <1>2, <2>1
  <2>3. \A p \in 1..(T - i - n) : unread[n + 1 + p - 1] = text[i + n + p]
    <3> SUFFICES ASSUME NEW p \in 1..(T - i - n) PROVE unread[n + 1 + p - 1] = text[i + n + p]
      OBVIOUS
    <3>1. n + 1 + p - 1 \in 1..(T - i) /\ i + (n + 1 + p - 1) = i + n + p BY <1>0
    <3> QED BY <1>2, <3>1
  <2> QED BY <2>1, <2>2, <2>3
<1>6. SubSeq(text, i + n + 1, Len(text)) = [p \in 1..(T - i - n) |-> text[i + n + p]]
  <2>1. i + n + 1 \in Nat /\ T \in Nat /\ 1 <= i + n + 1 /\ i + n + 1 <= T + 1 /\ T <= Len(text) /\ T - (i + n + 1) + 1 = T - i - n
    BY <1>0 DEF T
  <2>2. SubSeq(text, i + n + 1, T) = [p \in 1..(T - (i + n + 1) + 1) |-> text[i + n + 1 + p - 1]]
    BY <1>1, <2>1
  <2>3. \A p \in 1..(T - i - n) : i + n + 1 + p - 1 = i + n + p BY <1>0
  <2> QED BY <2>1, <2>2, <2>3 DEF T
<1>7. i + n + (T - i - n) = T /\ T = Len(text)
  BY <1>0 DEF T
<1> QED BY <1>2, <1>3, <1>4, <1>5, <1>6, <1>7 DEF Takes

LEMMA StreamInvInit == StreamInit => StreamInv
<1> SUFFICES ASSUME StreamInit PROVE StreamInv
  OBVIOUS
<1>1. body = [events |-> <<>>, text |-> <<>>, collected |-> 0, failed |-> FALSE]
      /\ source = [unread |-> <<>>, chunk |-> <<>>, state |-> "absent", reader |-> "none", calls |-> 0]
  BY DEF StreamInit
<1>2. StreamTyped
  BY StreamNumbers, <1>1 DEF StreamInit, StreamTyped, NoOutput, States, Early
<1>3. Collecting(body, collector)
  <2>1. SentLF(<<>>, <<>>)
    BY DEF SentLF
  <2>2. CollectorOf(<<>>, <<>>, 4, 0) = EmptyCollector
    <3>1. <<>> \in Seq(StreamEvent) /\ 4 \in {4, 6} OBVIOUS
    <3> QED BY <3>1, CollectorStarts
  <2>3. /\ Sent(body.text, body.events, 4)
        /\ collector = CollectorOf(body.text, body.events, 4, body.collected)
    BY <1>1, <2>1, <2>2 DEF StreamInit, Sent
  <2> QED BY <2>3 DEF Collecting
<1> QED BY <1>1, <1>2, <1>3 DEF StreamInit, StreamInv, NoOutput, Early

\* A call of a provider, until its first chunk has been read.
LEMMA CallKeeps ==
  StreamInv /\ (Connect \/ ConnectFails \/ Refused \/ FirstFails) => StreamInv'
<1> SUFFICES ASSUME StreamInv, Connect \/ ConnectFails \/ Refused \/ FirstFails PROVE StreamInv'
  OBVIOUS
<1>1. UNCHANGED <<body, output, client, collector, recorded, released>>
  BY DEF Connect, ConnectFails, Refused, FirstFails
<1>2. source.state \in Early /\ source'.state \in {"absent", "connecting"} /\ source'.chunk = source.chunk
      /\ source' \in [unread : Seq(Token), chunk : Seq(Token), state : States,
                      reader : {"none", "held", "cancelled"}, calls : 0..MaxCalls]
  <2>1. source \in [unread : Seq(Token), chunk : Seq(Token), state : States,
                    reader : {"none", "held", "cancelled"}, calls : 0..MaxCalls]
    BY DEF StreamInv, StreamTyped
  <2>2. CASE Connect
    <3>1. source.state = "absent" /\ source.calls < MaxCalls
          /\ source' = [source EXCEPT !.state = "connecting", !.reader = "none", !.calls = source.calls + 1]
      BY <2>2 DEF Connect
    <3>2. source.calls + 1 \in 0..MaxCalls BY StreamNumbers, <2>1, <3>1
    <3> QED BY <2>1, <3>1, <3>2 DEF Early, States
  <2>3. CASE ConnectFails \/ Refused
    <3>1. source.state = "connecting" /\ source' = [source EXCEPT !.state = "absent"]
      BY <2>3 DEF ConnectFails, Refused, CallFails
    <3> QED BY <2>1, <3>1 DEF Early, States
  <2>4. CASE FirstFails
    <3>1. source.state = "first" /\ source' = [source EXCEPT !.state = "absent", !.reader = "cancelled", !.unread = <<>>]
      BY <2>4 DEF FirstFails
    <3>2. <<>> \in Seq(Token) OBVIOUS
    <3> QED BY <2>1, <3>1, <3>2 DEF Early, States
  <2> QED BY <2>2, <2>3, <2>4
<1>3. StreamTyped'
  BY <1>1, <1>2 DEF StreamInv, StreamTyped
<1>4. recorded' = <<>>
  BY <1>1, <1>2 DEF StreamInv, Early
<1> QED BY <1>1, <1>2, <1>3, <1>4 DEF StreamInv, Early

LEMMA RespondKeeps ==
  ASSUME StreamInv, NEW events \in Bodies, NEW lineEnd \in LineEnds, NEW closed \in BOOLEAN, Respond(events, lineEnd, closed)
  PROVE  StreamInv'
<1> DEFINE text == Encoded(events, lineEnd, closed)
<1>1. events \in Seq(StreamEvent) /\ lineEnd \in {<<LF>>, <<CR, LF>>}
  BY StreamAssumption
<1>2. PICK size \in {4, 6} : Sent(text, events, size)
  BY <1>1, EncodedIs
<1>3. text \in Seq(Token)
  BY <1>2 DEF Sent, SentLF, SentCRLF
<1> HIDE DEF text
<1>4. /\ source.state = "connecting" /\ UNCHANGED <<output, client, collector, recorded, released>>
      /\ body' = [body EXCEPT !.events = events, !.text = text]
      /\ source' = [source EXCEPT !.state = "first", !.reader = "held", !.unread = text]
  BY DEF Respond, text
<1>5. /\ body \in [events : Seq(StreamEvent), text : Seq(Token), collected : Nat, failed : BOOLEAN]
      /\ source \in [unread : Seq(Token), chunk : Seq(Token), state : States,
                     reader : {"none", "held", "cancelled"}, calls : 0..MaxCalls]
      /\ body.collected = 0 /\ ~body.failed /\ source.chunk = <<>> /\ output = NoOutput
  BY <1>4 DEF StreamInv, StreamTyped, Early
<1>6. /\ body' \in [events : Seq(StreamEvent), text : Seq(Token), collected : Nat, failed : BOOLEAN]
      /\ body'.events = events /\ body'.text = text /\ body'.collected = 0 /\ ~body'.failed
  BY <1>1, <1>3, <1>4, <1>5
<1>7. /\ source' \in [unread : Seq(Token), chunk : Seq(Token), state : States,
                      reader : {"none", "held", "cancelled"}, calls : 0..MaxCalls]
      /\ source'.state = "first" /\ source'.unread = text /\ source'.chunk = <<>>
  BY <1>3, <1>4, <1>5 DEF States, Early
<1>8. StreamTyped'
  <2>1. Len(text) \in Nat BY <1>3
  <2>2. output' \in [held : 0..(HighWater + Len(body'.text)), state : {"open", "finishing", "destroyed", "closed"}]
    BY StreamNumbers, <1>4, <1>5, <1>6, <2>1 DEF NoOutput
  <2> QED BY <1>4, <1>6, <1>7, <2>2 DEF StreamInv, StreamTyped
<1>9. Collecting(body', collector')
  <2>1. \E s \in {4, 6} : collector = CollectorOf(body.text, body.events, s, 0)
    BY <1>5 DEF StreamInv, Collecting
  <2>2. collector = EmptyCollector
    BY <1>5, <2>1, CollectorStarts
  <2>3. CollectorOf(text, events, size, 0) = EmptyCollector
    BY <1>1, CollectorStarts
  <2> QED BY <1>2, <1>4, <1>6, <2>2, <2>3 DEF Collecting
<1>10. recorded' = <<>>
  BY <1>4 DEF StreamInv
<1> QED BY <1>4, <1>5, <1>6, <1>7, <1>8, <1>9, <1>10 DEF StreamInv, NoOutput, Early

\* The first chunk, and those after it.
LEMMA ReadKeeps ==
  ASSUME StreamInv, Compose \/ Pull
  PROVE  StreamInv'
<1>1. PICK n \in 1..Len(source.unread) :
        \/ source' = [source EXCEPT !.state = "open", !.chunk = SubSeq(source.unread, 1, n),
                                    !.unread = SubSeq(@, n + 1, Len(@))]
        \/ source' = [source EXCEPT !.chunk = SubSeq(source.unread, 1, n), !.unread = SubSeq(@, n + 1, Len(@))]
           /\ source.state = "open"
  BY DEF Compose, Pull, Pumping
<1>2. /\ UNCHANGED <<body, output, collector, recorded, released>>
      /\ source.state \in {"first", "open"} /\ source.chunk = <<>> /\ ~body.failed
      /\ client' \in {client, "reading"} /\ (source.state = "open" => client' = client)
  BY DEF Compose, Pull, Pumping, StreamInv, Early
<1> DEFINE i == body.collected
           T == Len(body.text)
           chunk == SubSeq(source.unread, 1, n)
           rest == SubSeq(source.unread, n + 1, Len(source.unread))
<1>3. /\ body \in [events : Seq(StreamEvent), text : Seq(Token), collected : Nat, failed : BOOLEAN]
      /\ source \in [unread : Seq(Token), chunk : Seq(Token), state : States,
                     reader : {"none", "held", "cancelled"}, calls : 0..MaxCalls]
  BY DEF StreamInv, StreamTyped
<1>4. body.text \in Seq(Token) /\ T \in Nat /\ i \in Nat /\ source.unread \in Seq(Token)
  BY <1>3
<1>5. i <= T /\ source.unread = SubSeq(body.text, i + 1, T) /\ Len(source.unread) = T - i
  <2>1. CASE source.state = "first"
    <3>1. i = 0 /\ source.unread = body.text BY <2>1 DEF StreamInv, Early
    <3>2. SubSeq(body.text, 1, Len(body.text)) = body.text BY <1>4
    <3> QED BY <1>4, <3>1, <3>2
  <2>2. CASE source.state = "open"
    <3>1. Pumped(body, source) BY <2>2 DEF StreamInv
    <3>2. Len(source.chunk) = 0 BY <1>2
    <3>3. i + 0 + Len(source.unread) = T /\ source.unread = SubSeq(body.text, i + 0 + 1, T)
      BY <3>1, <3>2 DEF Pumped
    <3>4. \A a, b, c \in Nat : a + 0 + b = c => a <= c /\ b = c - a /\ a + 0 + 1 = a + 1 OBVIOUS
    <3>5. Len(source.unread) \in Nat BY <1>4
    <3> HIDE DEF i, T
    <3>6. i <= T /\ Len(source.unread) = T - i /\ i + 0 + 1 = i + 1 BY <1>4, <3>3, <3>4, <3>5
    <3> QED BY <3>3, <3>6
  <2> QED BY <1>2, <2>1, <2>2
<1>6. n \in 1..(T - i)
  BY <1>5
<1>7. /\ chunk = SubSeq(body.text, i + 1, i + n) /\ chunk \in Seq(Token) /\ Len(chunk) = n
      /\ rest = SubSeq(body.text, i + n + 1, T) /\ rest \in Seq(Token)
      /\ i + n + Len(rest) = T
  <2> DEFINE text == body.text
             unread == source.unread
  <2>1. text \in Seq(Token) /\ i \in Nat /\ i <= Len(text) /\ n \in 1..(Len(text) - i) /\ unread = SubSeq(text, i + 1, Len(text))
    BY <1>4, <1>5, <1>6
  <2> HIDE DEF i, text, unread
  <2>2. Takes(text, unread, i, n) BY <2>1, PumpedNext
  <2> QED BY <2>2 DEF Takes, text, unread
<1> HIDE DEF chunk, rest
<1>8. /\ source' \in [unread : Seq(Token), chunk : Seq(Token), state : States,
                      reader : {"none", "held", "cancelled"}, calls : 0..MaxCalls]
      /\ source'.state = "open" /\ source'.chunk = chunk /\ source'.unread = rest
  BY <1>1, <1>3, <1>7 DEF States, Early, chunk, rest
<1>9. Pumped(body', source')
  BY <1>2, <1>7, <1>8 DEF Pumped
<1>10. StreamTyped'
  BY <1>2, <1>8 DEF StreamInv, StreamTyped
<1>11. recorded' = <<>>
  BY <1>2 DEF StreamInv
<1>12. output.state = "destroyed" => source.state = "open"
  BY <1>2 DEF StreamInv, Early, NoOutput
<1> QED BY <1>2, <1>8, <1>9, <1>10, <1>11, <1>12 DEF StreamInv, Early

\* What every step of the pipeline finds.
LEMMA Parts ==
  ASSUME StreamInv
  PROVE  /\ body \in [events : Seq(StreamEvent), text : Seq(Token), collected : Nat, failed : BOOLEAN]
         /\ source \in [unread : Seq(Token), chunk : Seq(Token), state : States,
                        reader : {"none", "held", "cancelled"}, calls : 0..MaxCalls]
         /\ output \in [held : 0..(HighWater + Len(body.text)), state : {"open", "finishing", "destroyed", "closed"}]
         /\ 0 \in 0..(HighWater + Len(body.text)) /\ Len(body.text) \in Nat
<1>1. Len(body.text) \in Nat
  BY DEF StreamInv, StreamTyped
<1> QED BY <1>1, StreamNumbers DEF StreamInv, StreamTyped

LEMMA EndReadKeeps ==
  ASSUME StreamInv, PullEnds \/ PullFails
  PROVE  StreamInv'
<1>1. UNCHANGED <<output, client, collector, recorded, released>> /\ source.state = "open" /\ source.chunk = <<>>
  BY DEF PullEnds, PullFails, Pumping
<1>2. CASE PullEnds
  <2>1. body' = body /\ source.unread = <<>> /\ source' = [source EXCEPT !.state = "done", !.reader = "cancelled"]
    BY <1>2 DEF PullEnds
  <2>2. /\ source' \in [unread : Seq(Token), chunk : Seq(Token), state : States,
                        reader : {"none", "held", "cancelled"}, calls : 0..MaxCalls]
        /\ source'.state = "done" /\ source'.chunk = source.chunk /\ source'.unread = source.unread
    BY <2>1, Parts DEF States
  <2>3. StreamTyped' BY <1>1, <2>1, <2>2 DEF StreamInv, StreamTyped
  <2>4. Pumped(body', source') BY <1>1, <2>1, <2>2 DEF StreamInv, Pumped
  <2>5. recorded' = <<>> BY <1>1 DEF StreamInv
  <2> QED BY <1>1, <2>1, <2>2, <2>3, <2>4, <2>5 DEF StreamInv, Early
<1>3. CASE PullFails
  <2>1. body' = [body EXCEPT !.failed = TRUE] /\ source' = [source EXCEPT !.state = "failed", !.reader = "cancelled"]
    BY <1>3 DEF PullFails
  <2>2. /\ source' \in [unread : Seq(Token), chunk : Seq(Token), state : States,
                        reader : {"none", "held", "cancelled"}, calls : 0..MaxCalls]
        /\ source'.state = "failed"
    BY <2>1, Parts DEF States
  <2>3. /\ body' \in [events : Seq(StreamEvent), text : Seq(Token), collected : Nat, failed : BOOLEAN]
        /\ body'.text = body.text /\ body'.events = body.events /\ body'.collected = body.collected /\ body'.failed
    BY <2>1, Parts
  <2>4. StreamTyped' BY <1>1, <2>2, <2>3 DEF StreamInv, StreamTyped
  <2>5. Collecting(body', collector') BY <1>1, <2>3 DEF StreamInv, Collecting
  <2>6. recorded' = <<>> BY <1>1 DEF StreamInv
  <2>7. output.state # "finishing" BY <1>1 DEF StreamInv
  <2> QED BY <1>1, <2>2, <2>3, <2>4, <2>5, <2>6, <2>7 DEF StreamInv, Early
<1> QED BY <1>2, <1>3

\* A chunk is collected and written.
LEMMA DataKeeps ==
  ASSUME StreamInv, DataEvent
  PROVE  StreamInv'
<1> DEFINE i == body.collected
           n == Len(source.chunk)
           T == Len(body.text)
<1>1. /\ source.state \in {"open", "done"} /\ source.chunk # <<>> /\ Flowing
      /\ collector' \in Collected(collector, source.chunk)
      /\ body' = [body EXCEPT !.collected = body.collected + Len(source.chunk)]
      /\ output' = IF output.state = "open" THEN [output EXCEPT !.held = output.held + Len(source.chunk)] ELSE output
      /\ source' = [source EXCEPT !.chunk = <<>>]
      /\ UNCHANGED <<client, recorded, released>>
  BY Parts DEF DataEvent
<1>2. /\ i \in Nat /\ n \in Nat /\ T \in Nat /\ body.text \in Seq(Token) /\ source.chunk \in Seq(Token)
      /\ source.unread \in Seq(Token) /\ Len(source.unread) \in Nat /\ body.events \in Seq(StreamEvent)
  <2>1. body.text \in Seq(Token) /\ source.chunk \in Seq(Token) /\ source.unread \in Seq(Token) /\ body.events \in Seq(StreamEvent)
        /\ body.collected \in Nat
    BY Parts
  <2> QED BY <2>1
<1>3. i + n + Len(source.unread) = T /\ source.chunk = SubSeq(body.text, i + 1, i + n) /\ source.unread = SubSeq(body.text, i + n + 1, T)
  BY <1>1 DEF StreamInv, Pumped
<1>4. i + n <= T /\ n <= T
  <2> HIDE DEF i, n, T
  <2> QED BY <1>2, <1>3
<1>5. /\ body' \in [events : Seq(StreamEvent), text : Seq(Token), collected : Nat, failed : BOOLEAN]
      /\ body'.text = body.text /\ body'.events = body.events /\ body'.collected = i + n /\ body'.failed = body.failed
  <2>1. body.collected + Len(source.chunk) \in Nat BY <1>2
  <2> QED BY <1>1, <2>1, Parts
<1>6. /\ source' \in [unread : Seq(Token), chunk : Seq(Token), state : States,
                      reader : {"none", "held", "cancelled"}, calls : 0..MaxCalls]
      /\ source'.state = source.state /\ source'.chunk = <<>> /\ source'.unread = source.unread
  <2>1. <<>> \in Seq(Token) OBVIOUS
  <2> QED BY <1>1, <2>1, Parts
<1>7. Collecting(body', collector')
  <2>1. PICK size \in {4, 6} : Sent(body.text, body.events, size) /\ collector = CollectorOf(body.text, body.events, size, i)
    BY DEF StreamInv, Collecting
  <2>2. CollectsNext(body.text, body.events, size, i, n)
    <3> HIDE DEF i, n
    <3> QED BY <1>2, <1>4, <2>1, CollectedIs DEF T
  <2>3. collector' = CollectorOf(body.text, body.events, size, i + n)
    BY <1>1, <1>3, <2>1, <2>2 DEF CollectsNext
  <2> HIDE DEF i, n
  <2> QED BY <1>5, <2>1, <2>3 DEF Collecting
<1>8. output' \in [held : 0..(HighWater + T), state : {"open", "finishing", "destroyed", "closed"}] /\ output'.state = output.state
  <2>1. CASE output.state = "open"
    <3>1. output.held < HighWater /\ output.held \in Nat
      <4>1. output.held < HighWater BY <1>1, <2>1 DEF Flowing
      <4>2. output.held \in 0..(HighWater + Len(body.text)) BY Parts
      <4> QED BY <4>1, <4>2
    <3> HIDE DEF n, T
    <3>2. output.held + n \in 0..(HighWater + T) BY StreamNumbers, <1>2, <1>4, <3>1
    <3>3. output' = [output EXCEPT !.held = output.held + n] BY <1>1, <2>1 DEF n
    <3> QED BY <2>1, <3>2, <3>3, Parts
  <2>2. CASE output.state # "open"
    BY <1>1, <2>2, Parts
  <2> QED BY <2>1, <2>2
<1>9. StreamTyped'
  BY <1>1, <1>5, <1>6, <1>8 DEF StreamInv, StreamTyped
<1>10. Pumped(body', source')
  <2>1. Len(source'.chunk) = 0 BY <1>6
  <2>2. SubSeq(body.text, i + n + 1, i + n + 0) = <<>>
    <3> DEFINE a == i + n
    <3>1. a \in Nat BY <1>2
    <3> HIDE DEF a
    <3>2. SubSeq(body.text, a + 1, a + 0) = <<>> BY <1>2, <3>1
    <3> QED BY <3>2 DEF a
  <2>3. i + n + 0 = i + n BY <1>2
  <2> HIDE DEF i, n, T
  <2> QED BY <1>3, <1>5, <1>6, <2>1, <2>2, <2>3 DEF Pumped, T
<1>11. recorded' = <<>>
  BY <1>1 DEF StreamInv
<1> QED BY <1>1, <1>5, <1>6, <1>7, <1>8, <1>9, <1>10, <1>11 DEF StreamInv, Early

\* The end: the usage of the whole text is recorded.
LEMMA EndKeeps ==
  ASSUME StreamInv, EndEvent
  PROVE  StreamInv'
<1>1. /\ source.state = "done" /\ source.chunk = <<>> /\ source.unread = <<>> /\ recorded = <<>> /\ ~body.failed
      /\ recorded' = <<[status |-> 200, usage |-> UsageRead(collector)]>>
      /\ source' = [source EXCEPT !.state = "ended"]
      /\ output' = IF output.state = "open" THEN [output EXCEPT !.state = "finishing"] ELSE output
      /\ UNCHANGED <<body, client, collector>> /\ released' \in 0..1
  <2>1. source.state = "done" /\ source.chunk = <<>> BY DEF EndEvent
  <2>2. source.unread = <<>> /\ recorded = <<>> /\ ~body.failed BY <2>1 DEF StreamInv
  <2>3. released' \in 0..1 BY DEF EndEvent, Freed, StreamInv, StreamTyped
  <2> QED BY <2>1, <2>2, <2>3 DEF EndEvent, Settled
<1>2. body.collected = Len(body.text)
  <2>1. Pumped(body, source) BY <1>1 DEF StreamInv
  <2>2. Len(source.chunk) = 0 /\ Len(source.unread) = 0 /\ body.collected \in Nat BY <1>1, Parts
  <2>3. body.collected + 0 + 0 = Len(body.text) BY <2>1, <2>2 DEF Pumped
  <2> QED BY <2>2, <2>3
<1>3. UsageRead(collector) = UsageOf(body.events)
  <2>1. PICK size \in {4, 6} : Sent(body.text, body.events, size) /\ collector = CollectorOf(body.text, body.events, size, body.collected)
    BY DEF StreamInv, Collecting
  <2>2. body.events \in Seq(StreamEvent) BY Parts
  <2>3. UsageRead(CollectorOf(body.text, body.events, size, Len(body.text))) = UsageOf(body.events)
    BY <2>1, <2>2, UsageReadIs
  <2> QED BY <1>2, <2>1, <2>3
<1>4. /\ source' \in [unread : Seq(Token), chunk : Seq(Token), state : States,
                      reader : {"none", "held", "cancelled"}, calls : 0..MaxCalls]
      /\ source'.state = "ended"
  BY <1>1, Parts DEF States
<1>5. /\ output' \in [held : 0..(HighWater + Len(body.text)), state : {"open", "finishing", "destroyed", "closed"}]
      /\ output'.state \in {output.state, "finishing"}
  BY <1>1, Parts
<1>6. StreamTyped'
  BY <1>1, <1>4, <1>5 DEF StreamInv, StreamTyped
<1>7. \E r : recorded' = <<r>> /\ Outcome(r)'
  <2>1. PICK r : recorded' = <<r>> /\ r.status = 200 /\ r.usage = UsageOf(body.events)
    BY <1>1, <1>3
  <2>2. Outcome(r)' BY <1>1, <1>2, <2>1 DEF Outcome
  <2> QED BY <2>1, <2>2
<1> QED BY <1>1, <1>4, <1>6, <1>7 DEF StreamInv, Early

\* An output that was open is destroyed with its source.
Destroys == output' = IF output.state = "open" THEN [held |-> 0, state |-> "destroyed"] ELSE output

LEMMA ErrorKeeps ==
  ASSUME StreamInv, ErrorEvent
  PROVE  StreamInv'
<1>1. /\ source.state = "failed" /\ recorded = <<>> /\ body.failed
      /\ recorded' = <<[status |-> 502, usage |-> UsageRead(collector)]>>
      /\ source' = [source EXCEPT !.state = "errored"]
      /\ Destroys /\ UNCHANGED <<body, client, collector>> /\ released' \in 0..1
  <2>1. source.state = "failed" BY DEF ErrorEvent
  <2>2. recorded = <<>> /\ body.failed BY <2>1 DEF StreamInv
  <2>3. released' \in 0..1 BY DEF ErrorEvent, Freed, StreamInv, StreamTyped
  <2> QED BY <2>1, <2>2, <2>3 DEF ErrorEvent, Settled, Destroys
<1>2. /\ source' \in [unread : Seq(Token), chunk : Seq(Token), state : States,
                      reader : {"none", "held", "cancelled"}, calls : 0..MaxCalls]
      /\ source'.state = "errored"
  BY <1>1, Parts DEF States
<1>3. /\ output' \in [held : 0..(HighWater + Len(body.text)), state : {"open", "finishing", "destroyed", "closed"}]
      /\ output'.state \in {output.state, "destroyed"}
  BY <1>1, Parts DEF Destroys
<1>4. StreamTyped'
  BY <1>1, <1>2, <1>3 DEF StreamInv, StreamTyped
<1>5. \E r : recorded' = <<r>> /\ Outcome(r)'
  <2>1. PICK r : recorded' = <<r>> /\ r.status = 502
    BY <1>1
  <2>2. Outcome(r)' BY <1>1, <2>1 DEF Outcome
  <2> QED BY <2>1, <2>2
<1>6. output'.state # "finishing"
  BY <1>1, <1>3 DEF StreamInv
<1> QED BY <1>1, <1>2, <1>4, <1>5, <1>6 DEF StreamInv, Early

LEMMA CloseKeeps ==
  ASSUME StreamInv, CloseEvent
  PROVE  StreamInv'
<1>1. /\ source.state \in {"ended", "errored", "destroyed"}
      /\ recorded' = IF recorded # <<>> THEN recorded ELSE <<[status |-> 499, usage |-> UsageRead(collector)]>>
      /\ recorded = <<>> => client = "left"
      /\ source' = [source EXCEPT !.state = "closed"]
      /\ Destroys /\ UNCHANGED <<body, client, collector>> /\ released' \in 0..1
  <2>1. source.state \in {"ended", "errored", "destroyed"} BY DEF CloseEvent
  <2>2. (source.state \in {"ended", "errored"} => recorded # <<>>) /\ (source.state = "destroyed" => client = "left")
    BY DEF StreamInv
  <2>3. released' \in 0..1 BY DEF CloseEvent, Freed, StreamInv, StreamTyped
  <2> QED BY <2>1, <2>2, <2>3 DEF CloseEvent, Settled, Destroys
<1>2. /\ source' \in [unread : Seq(Token), chunk : Seq(Token), state : States,
                      reader : {"none", "held", "cancelled"}, calls : 0..MaxCalls]
      /\ source'.state = "closed"
  BY <1>1, Parts DEF States
<1>3. output' \in [held : 0..(HighWater + Len(body.text)), state : {"open", "finishing", "destroyed", "closed"}]
  BY <1>1, Parts DEF Destroys
<1>4. StreamTyped'
  BY <1>1, <1>2, <1>3 DEF StreamInv, StreamTyped
<1>5. \E r : recorded' = <<r>> /\ Outcome(r)'
  <2>1. CASE recorded = <<>>
    <3>1. PICK r : recorded' = <<r>> /\ r.status = 499
      BY <1>1, <2>1
    <3>2. Outcome(r)' BY <1>1, <2>1, <3>1 DEF Outcome
    <3> QED BY <3>1, <3>2
  <2>2. CASE recorded # <<>>
    <3>1. PICK r : recorded = <<r>> /\ Outcome(r) BY <2>2 DEF StreamInv
    <3>2. recorded' = <<r>> BY <1>1, <2>2, <3>1
    <3>3. Outcome(r)' BY <1>1, <3>1 DEF Outcome
    <3> QED BY <3>2, <3>3
  <2> QED BY <2>1, <2>2
<1> QED BY <1>1, <1>2, <1>4, <1>5 DEF StreamInv, Early

\* What was recorded stays true while the body does not change and nobody who left
\* comes back.
LEMMA RecordedKept ==
  ASSUME StreamInv, UNCHANGED <<body, recorded>>, client = "left" => client' = "left"
  PROVE  recorded' = <<>> \/ \E r : recorded' = <<r>> /\ Outcome(r)'
<1>1. CASE recorded = <<>>
  BY <1>1
<1>2. CASE recorded # <<>>
  <2>1. PICK r : recorded = <<r>> /\ Outcome(r) BY <1>2 DEF StreamInv
  <2>2. Outcome(r)' BY <2>1 DEF Outcome
  <2> QED BY <2>1, <2>2
<1> QED BY <1>1, <1>2

LEMMA ClosedKeeps ==
  ASSUME StreamInv, OutputClosed
  PROVE  StreamInv'
<1>1. /\ output.state = "destroyed" /\ output' = [output EXCEPT !.state = "closed"]
      /\ source' = IF source.state \in {"open", "done"}
                     THEN [source EXCEPT !.state = "destroyed", !.chunk = <<>>, !.reader = "cancelled"] ELSE source
      /\ UNCHANGED <<body, client, collector, recorded, released>>
  BY DEF OutputClosed
<1>2. source.state \notin Early
  BY <1>1 DEF StreamInv, NoOutput
<1>3. /\ output' \in [held : 0..(HighWater + Len(body.text)), state : {"open", "finishing", "destroyed", "closed"}]
      /\ output'.state = "closed"
  BY <1>1, Parts
<1>4. CASE source.state \in {"open", "done"}
  <2>1. /\ source' \in [unread : Seq(Token), chunk : Seq(Token), state : States,
                        reader : {"none", "held", "cancelled"}, calls : 0..MaxCalls]
        /\ source'.state = "destroyed"
    <3>1. <<>> \in Seq(Token) OBVIOUS
    <3> QED BY <1>1, <1>4, <3>1, Parts DEF States
  <2>2. client = "left" /\ recorded = <<>> BY <1>1, <1>4 DEF StreamInv
  <2>3. StreamTyped' BY <1>1, <1>3, <2>1 DEF StreamInv, StreamTyped
  <2> QED BY <1>1, <1>3, <2>1, <2>2, <2>3 DEF StreamInv, Early
<1>5. CASE source.state \notin {"open", "done"}
  <2>1. source' = source BY <1>1, <1>5
  <2>2. StreamTyped' BY <1>1, <1>3, <2>1 DEF StreamInv, StreamTyped
  <2>3. recorded' = <<>> \/ \E r : recorded' = <<r>> /\ Outcome(r)'
    BY <1>1, RecordedKept
  <2> QED BY <1>1, <1>2, <1>3, <1>5, <2>1, <2>2, <2>3 DEF StreamInv
<1> QED BY <1>4, <1>5

LEMMA ReaderKeeps ==
  ASSUME StreamInv, Reader
  PROVE  StreamInv'
<1>1. /\ client = "reading" /\ output.state \in {"open", "finishing"} /\ client' \in {"reading", "served", "left"}
      /\ UNCHANGED <<body, source, collector, recorded, released>>
  BY DEF Reader, ClientReads, ClientFinishes, ClientLeaves
<1>2. source.state \notin Early
  BY <1>1 DEF StreamInv
<1>3. source.state # "destroyed"
  BY <1>1 DEF StreamInv
<1>4. /\ output' \in [held : 0..(HighWater + Len(body.text)), state : {"open", "finishing", "destroyed", "closed"}]
      /\ output'.state = output.state \/ (output'.state = "destroyed" /\ (source.state \in {"open", "done"} => client' = "left"))
  <2>1. CASE ClientReads
    <3>1. output.held > 0 /\ output' = [output EXCEPT !.held = output.held - 1]
      BY <2>1, Parts DEF ClientReads
    <3>2. output.held - 1 \in 0..(HighWater + Len(body.text))
      BY <3>1, Parts, StreamNumbers
    <3> QED BY <3>1, <3>2, Parts
  <2>2. CASE ClientFinishes
    <3>1. output.state = "finishing" /\ output' = [output EXCEPT !.state = "destroyed"] BY <2>2 DEF ClientFinishes
    <3>2. source.state \notin {"open", "done"} BY <3>1 DEF StreamInv
    <3> QED BY <3>1, <3>2, Parts
  <2>3. CASE ClientLeaves
    BY <2>3, Parts DEF ClientLeaves
  <2> QED BY <2>1, <2>2, <2>3 DEF Reader
<1>5. StreamTyped'
  BY <1>1, <1>4 DEF StreamInv, StreamTyped
<1>6. recorded' = <<>> \/ \E r : recorded' = <<r>> /\ Outcome(r)'
  BY <1>1, RecordedKept
<1>7. Collecting(body', collector')
  BY <1>1 DEF StreamInv
<1>8. /\ source.state \in {"open", "done"} => Pumped(body', source') /\ ~body'.failed
      /\ source'.state = "done" => source'.unread = <<>>
      /\ source'.state = "failed" => body'.failed
      /\ source'.state \in {"ended", "errored"} => recorded' # <<>>
      /\ source'.state \notin {"ended", "errored", "closed"} => recorded' = <<>>
  BY <1>1 DEF StreamInv
<1>9. /\ output'.state = "finishing" => source'.state \in {"ended", "closed"}
      /\ output'.state = "destroyed" /\ source'.state \in {"open", "done"} => client' = "left"
  BY <1>1, <1>4 DEF StreamInv
<1> QED BY <1>1, <1>2, <1>3, <1>5, <1>6, <1>7, <1>8, <1>9 DEF StreamInv, Early

LEMMA StreamInvNext ==
  ASSUME StreamInv, [StreamNext]_streamVars
  PROVE  StreamInv'
<1>1. CASE UNCHANGED streamVars
  <2>1. UNCHANGED <<body, source, output, client, collector, recorded, released>> BY <1>1 DEF streamVars
  <2>2. recorded' = <<>> \/ \E r : recorded' = <<r>> /\ Outcome(r)' BY <2>1, RecordedKept
  <2>3. StreamTyped' BY <2>1 DEF StreamInv, StreamTyped
  <2> QED BY <2>1, <2>2, <2>3 DEF StreamInv
<1>2. CASE Connect \/ ConnectFails \/ Refused \/ FirstFails
  BY <1>2, CallKeeps
<1>3. CASE \E events \in Bodies, lineEnd \in LineEnds, closed \in BOOLEAN : Respond(events, lineEnd, closed)
  BY <1>3, RespondKeeps
<1>4. CASE Compose \/ Pull
  BY <1>4, ReadKeeps
<1>5. CASE PullEnds \/ PullFails
  BY <1>5, EndReadKeeps
<1>6. CASE DataEvent BY <1>6, DataKeeps
<1>7. CASE EndEvent BY <1>7, EndKeeps
<1>8. CASE ErrorEvent BY <1>8, ErrorKeeps
<1>9. CASE CloseEvent BY <1>9, CloseKeeps
<1>10. CASE OutputClosed BY <1>10, ClosedKeeps
<1>11. CASE Reader BY <1>11, ReaderKeeps
<1> QED BY <1>1, <1>2, <1>3, <1>4, <1>5, <1>6, <1>7, <1>8, <1>9, <1>10, <1>11 DEF StreamNext, Called, Piped

\* The pipeline keeps its invariant: what was collected is a part of the body and the
\* collector is that of this part, however the chunks were cut and in whatever order the
\* events of the two ends came.
THEOREM StreamInvHolds == StreamSpec => []StreamInv
<1>1. StreamInit => StreamInv BY StreamInvInit
<1>2. StreamInv /\ [StreamNext]_streamVars => StreamInv' BY StreamInvNext
<1> QED BY <1>1, <1>2, PTL DEF StreamSpec

LEMMA StreamInvIsTyped == StreamInv => StreamTypeOK
<1> SUFFICES ASSUME StreamInv PROVE StreamTypeOK
  OBVIOUS
<1>1. Len(recorded) <= 1
  <2>1. CASE recorded = <<>> BY <2>1
  <2>2. CASE recorded # <<>>
    <3>1. PICK r : recorded = <<r>> BY <2>2 DEF StreamInv
    <3> QED BY <3>1
  <2> QED BY <2>1, <2>2
<1>2. /\ source.state \in States /\ source.reader \in {"none", "held", "cancelled"} /\ source.calls \in 0..MaxCalls
      /\ output.state \in {"open", "finishing", "destroyed", "closed"}
      /\ output.held \in 0..(HighWater + Len(body.text))
  BY Parts
<1> QED BY <1>1, <1>2 DEF StreamInv, StreamTyped, StreamTypeOK, States, Early

\* Every variable of a stream keeps to its values, the output never holds more than its
\* bound and a body, the lease is released once and one outcome is recorded.
THEOREM StreamTypeIsKept == StreamSpec => []StreamTypeOK
<1> QED BY StreamInvIsTyped, StreamInvHolds, PTL

LEMMA StreamInvTells == StreamInv => StreamOutcome
<1> SUFFICES ASSUME StreamInv, NEW i \in DOMAIN recorded
             PROVE  CASE recorded[i].status = 200 ->
                           body.collected = Len(body.text) /\ recorded[i].usage = UsageOf(body.events) /\ ~body.failed
                      [] recorded[i].status = 502 -> body.failed
                      [] recorded[i].status = 499 -> client = "left"
  BY Zenon DEF StreamOutcome
<1>1. recorded # <<>> OBVIOUS
<1>2. PICK r : recorded = <<r>> /\ Outcome(r) BY <1>1 DEF StreamInv
<1>3. i = 1 /\ recorded[1] = r BY <1>2
<1> QED BY <1>2, <1>3 DEF Outcome

\* A stream recorded as served was collected to its last byte and its usage is the one
\* its events state, wherever the provider cut its bytes and whatever ends its lines had;
\* 502 means that the provider broke off, 499 that the client left
\* (gateway-stream-pipeline.ts, gateway-usage-collector.ts).
THEOREM StreamOutcomeIsKept == StreamSpec => []StreamOutcome
<1> QED BY StreamInvTells, StreamInvHolds, PTL

----------------------------------------------------------------------------
(* Maintenance.  What is left of a run is an end of the list of tasks. *)

Queues == {<<"repair", "cleanup", "probes">>, <<"cleanup", "probes">>, <<"probes">>, <<>>}

Keeper == [phase : {"down", "starting", "up", "stopping"}, recent : SUBSET TaskIds, active : BOOLEAN,
           queue : Queues, call : {"none", "locking", "running"}, stage : 1..3,
           expired : [Tables -> 0..MaxBatches]]

KeeperTypeInv ==
  /\ keepers \in [Keepers -> Keeper]
  /\ taskLocks \in [TaskIds -> Keepers \cup {Nobody}]
  /\ backlog \in [Tables -> 0..MaxBatches]
  /\ troubles \in 0..MaxTroubles

\* A call belongs to a run and to a task of it, and a process that is down has neither.
Orderly(k) == /\ k.call # "none" => k.active /\ k.queue # <<>>
              /\ k.phase = "down" => ~k.active

\* A lock is held by a process that runs its task, and by every process that
\* runs it and is not stopping.
LockInv ==
  \A w \in Keepers : \A t \in TaskIds :
    /\ taskLocks[t] = w => Running(w, t)
    /\ Running(w, t) /\ ~Aborted(w) => taskLocks[t] = w

KeeperInv == KeeperTypeInv /\ (\A w \in Keepers : Orderly(keepers[w])) /\ LockInv

LEMMA TasksAre == /\ TaskIds = {"repair", "cleanup", "probes"} /\ Len(Tasks) = 3
                  /\ Tasks \in Queues /\ Tasks # <<>>
<1>1. Len(Tasks) = 3 /\ Tasks[1] = "repair" /\ Tasks[2] = "cleanup" /\ Tasks[3] = "probes"
  BY DEF Tasks
<1>2. 1..3 = {1, 2, 3}
  OBVIOUS
<1> QED BY <1>1, <1>2 DEF TaskIds, Tasks, Queues

LEMMA StagesAre == Len(Stages) = 3 /\ \A i \in 1..3 : Stages[i] \in Tables
<1>1. Len(Stages) = 3
  BY DEF Stages
<1> QED BY <1>1 DEF Tables

\* The first task of what is left is a task, and the rest is left behind it.
LEMMA QueueGoes ==
  ASSUME NEW q \in Queues, q # <<>>
  PROVE  Head(q) \in TaskIds /\ Tail(q) \in Queues
<1>1. CASE q = <<"repair", "cleanup", "probes">>
  <2>1. Head(q) = "repair" /\ Tail(q) = <<"cleanup", "probes">> BY <1>1
  <2> QED BY <2>1, TasksAre DEF Queues
<1>2. CASE q = <<"cleanup", "probes">>
  <2>1. Head(q) = "cleanup" /\ Tail(q) = <<"probes">> BY <1>2
  <2> QED BY <2>1, TasksAre DEF Queues
<1>3. CASE q = <<"probes">>
  <2>1. Head(q) = "probes" /\ Tail(q) = <<>> BY <1>3
  <2> QED BY <2>1, TasksAre DEF Queues
<1> QED BY <1>1, <1>2, <1>3 DEF Queues

LEMMA DownIs == DownKeeper \in Keeper /\ Orderly(DownKeeper) /\ DownKeeper.call = "none"
BY MaintenanceAssumption DEF DownKeeper, Keeper, Orderly, Queues

LEMMA KeeperInvInit == KeeperInit => KeeperInv
<1> SUFFICES ASSUME KeeperInit PROVE KeeperInv
  OBVIOUS
<1>1. KeeperTypeInv
  BY DownIs, MaintenanceAssumption DEF KeeperInit, KeeperTypeInv
<1>2. \A w \in Keepers : Orderly(keepers[w]) /\ keepers[w].call = "none"
  BY DownIs DEF KeeperInit
<1>3. \A t \in TaskIds : taskLocks[t] \notin Keepers
  BY MaintenanceAssumption DEF KeeperInit
<1> QED BY <1>1, <1>2, <1>3 DEF KeeperInv, LockInv, Running

\* A process that moves without touching a lock: it runs no other task than
\* before, and its own only if it stops.
LEMMA KeeperMoves ==
  ASSUME KeeperInv, NEW w \in Keepers, NEW k \in Keeper, Orderly(k),
         keepers' = [keepers EXCEPT ![w] = k],
         taskLocks' \in [TaskIds -> Keepers \cup {Nobody}],
         backlog' \in [Tables -> 0..MaxBatches], troubles' \in 0..MaxTroubles,
         \A t \in TaskIds : \A v \in Keepers \ {w} : taskLocks'[t] = v <=> taskLocks[t] = v,
         \A t \in TaskIds : taskLocks'[t] = w => k.call = "running" /\ Head(k.queue) = t,
         \A t \in TaskIds : k.call = "running" /\ Head(k.queue) = t /\ k.phase # "stopping" => taskLocks'[t] = w
  PROVE  KeeperInv'
<1>1. KeeperTypeInv'
  BY DEF KeeperInv, KeeperTypeInv
<1>2. /\ keepers'[w] = k
      /\ \A v \in Keepers \ {w} : keepers'[v] = keepers[v]
  BY DEF KeeperInv, KeeperTypeInv
<1>3. \A v \in Keepers : Orderly(keepers'[v])
  BY <1>2 DEF KeeperInv
<1>4. LockInv'
  BY <1>2 DEF KeeperInv, LockInv, Running, Aborted
<1> QED BY <1>1, <1>3, <1>4 DEF KeeperInv

\* What each action makes of the process that takes it is a keeper again.
LEMMA KeeperIs ==
  ASSUME KeeperInv, NEW w \in Keepers
  PROVE  /\ keepers[w] \in Keeper /\ Orderly(keepers[w])
         /\ \A t \in TaskIds : taskLocks[t] = w => keepers[w].call = "running" /\ Head(keepers[w].queue) = t
         /\ \A t \in TaskIds : keepers[w].call = "running" /\ Head(keepers[w].queue) = t /\ keepers[w].phase # "stopping"
                                 => taskLocks[t] = w
BY DEF KeeperInv, KeeperTypeInv, LockInv, Running, Aborted

\* A task that is left frees the lock of its process, and no other.
LEMMA LeavesTask ==
  ASSUME KeeperInv, NEW w \in Keepers, keepers[w].call # "none",
         keepers' = [keepers EXCEPT ![w] = TaskLeft(@)],
         backlog' \in [Tables -> 0..MaxBatches], troubles' \in 0..MaxTroubles,
         \/ keepers[w].call = "locking" /\ taskLocks' = taskLocks
         \/ keepers[w].call = "running" /\ taskLocks' = Unlocked(w, Head(keepers[w].queue), TRUE)
  PROVE  KeeperInv'
<1> DEFINE k == TaskLeft(keepers[w])
<1>1. /\ keepers[w] \in Keeper /\ Orderly(keepers[w])
      /\ \A t \in TaskIds : taskLocks[t] = w => keepers[w].call = "running" /\ Head(keepers[w].queue) = t
  BY KeeperIs
<1>2. Head(keepers[w].queue) \in TaskIds /\ Tail(keepers[w].queue) \in Queues
  BY <1>1, QueueGoes DEF Orderly, Keeper
<1>3. k \in Keeper /\ Orderly(k) /\ k.call = "none"
  <2>1. [b \in Tables |-> 0] \in [Tables -> 0..MaxBatches]
    BY MaintenanceAssumption
  <2>2. keepers[w].active /\ keepers[w].phase # "down"
    BY <1>1 DEF Orderly
  <2>3. k \in Keeper
    <3> DEFINE q == Tail(keepers[w].queue)
               none == [b \in Tables |-> 0]
    <3>1. k = [keepers[w] EXCEPT !.queue = q, !.call = "none", !.stage = 1, !.expired = none]
      BY DEF TaskLeft
    <3>2. q \in Queues /\ none \in [Tables -> 0..MaxBatches] /\ 1 \in 1..3
      BY <1>2, <2>1
    <3> HIDE DEF q, none, k
    <3> QED BY <1>1, <3>1, <3>2 DEF Keeper
  <2>4. k.call = "none" /\ k.active = keepers[w].active /\ k.phase = keepers[w].phase
    BY <1>1 DEF TaskLeft, Keeper
  <2> HIDE DEF k
  <2> QED BY <2>2, <2>3, <2>4 DEF Orderly
<1>4. keepers' = [keepers EXCEPT ![w] = k]
  OBVIOUS
<1>5. taskLocks \in [TaskIds -> Keepers \cup {Nobody}] /\ w # Nobody
  BY MaintenanceAssumption DEF KeeperInv, KeeperTypeInv
<1>6. /\ taskLocks' \in [TaskIds -> Keepers \cup {Nobody}]
      /\ \A t \in TaskIds : taskLocks'[t] # w
      /\ \A t \in TaskIds : \A v \in Keepers \ {w} : taskLocks'[t] = v <=> taskLocks[t] = v
  <2>1. CASE keepers[w].call = "locking" /\ taskLocks' = taskLocks
    BY <2>1, <1>1, <1>5
  <2>2. CASE keepers[w].call = "running" /\ taskLocks' = Unlocked(w, Head(keepers[w].queue), TRUE)
    BY <2>2, <1>1, <1>2, <1>5, MaintenanceAssumption DEF Unlocked
  <2> QED BY <2>1, <2>2
<1> HIDE DEF k
<1> QED BY <1>3, <1>4, <1>6, KeeperMoves

LEMMA KeeperInvNext == KeeperInv /\ [KeeperNext]_keeperVars => KeeperInv'
<1> SUFFICES ASSUME KeeperInv, [KeeperNext]_keeperVars PROVE KeeperInv'
  OBVIOUS
<1>t. /\ keepers \in [Keepers -> Keeper] /\ taskLocks \in [TaskIds -> Keepers \cup {Nobody}]
      /\ backlog \in [Tables -> 0..MaxBatches] /\ troubles \in 0..MaxTroubles
  BY DEF KeeperInv, KeeperTypeInv
<1>n. MaxBatches \in Nat /\ MaxBatches > 0 /\ MaxTroubles \in Nat /\ Nobody \notin Keepers
  BY MaintenanceAssumption
<1>u. ASSUME Troubled PROVE troubles' \in 0..MaxTroubles
  BY <1>u, <1>t, <1>n DEF Troubled
<1>0. CASE UNCHANGED keeperVars
  BY <1>0 DEF keeperVars, KeeperInv, KeeperTypeInv, LockInv, Running, Aborted
<1>1. CASE RowsExpire
  <2>1. backlog' \in [Tables -> 0..MaxBatches]
    BY <1>1, <1>n DEF RowsExpire
  <2> QED BY <1>1, <2>1 DEF RowsExpire, KeeperInv, KeeperTypeInv, LockInv, Running, Aborted
<1>2. ASSUME NEW w \in Keepers, StartKeeper(w) PROVE KeeperInv'
  <2> DEFINE k == RunBegins([keepers[w] EXCEPT !.phase = "starting"])
  <2>1. keepers' = [keepers EXCEPT ![w] = k] /\ UNCHANGED <<taskLocks, backlog, troubles>>
    BY <1>2 DEF StartKeeper
  <2>2. keepers[w].call = "none"
    BY <1>2, KeeperIs DEF StartKeeper, Orderly
  <2>3. k \in Keeper /\ Orderly(k) /\ k.call = "none"
    <3>1. keepers[w] \in Keeper
      BY KeeperIs
    <3>2. k \in Keeper
      BY <3>1, TasksAre DEF RunBegins, Keeper
    <3>3. k.call = keepers[w].call /\ k.active /\ k.phase = "starting"
      BY <3>1 DEF RunBegins, Keeper
    <3> HIDE DEF k
    <3> QED BY <2>2, <3>2, <3>3 DEF Orderly
  <2>4. \A t \in TaskIds : taskLocks[t] # w
    BY <2>2, KeeperIs
  <2> HIDE DEF k
  <2> QED BY <1>t, <2>1, <2>3, <2>4, KeeperMoves
<1>3. ASSUME NEW w \in Keepers, KeeperTick(w) PROVE KeeperInv'
  <2> DEFINE k == RunBegins(keepers[w])
  <2>1. keepers' = [keepers EXCEPT ![w] = k] /\ UNCHANGED <<taskLocks, backlog, troubles>>
    BY <1>3 DEF KeeperTick
  <2>2. keepers[w].call = "none"
    BY <1>3, KeeperIs DEF KeeperTick, Orderly
  <2>3. k \in Keeper /\ Orderly(k) /\ k.call = "none"
    <3>1. keepers[w] \in Keeper /\ keepers[w].phase = "up"
      BY <1>3, KeeperIs DEF KeeperTick
    <3>2. k \in Keeper
      BY <3>1, TasksAre DEF RunBegins, Keeper
    <3>3. k.call = keepers[w].call /\ k.active /\ k.phase = "up"
      BY <3>1 DEF RunBegins, Keeper
    <3> HIDE DEF k
    <3> QED BY <2>2, <3>2, <3>3 DEF Orderly
  <2>4. \A t \in TaskIds : taskLocks[t] # w
    BY <2>2, KeeperIs
  <2> HIDE DEF k
  <2> QED BY <1>t, <2>1, <2>3, <2>4, KeeperMoves
<1>4. ASSUME NEW w \in Keepers, SkipTask(w) PROVE KeeperInv'
  <2> DEFINE q == keepers[w].queue
             k == [keepers[w] EXCEPT !.queue = Tail(q), !.recent = keepers[w].recent \ {Head(q)}]
  <2>1. keepers' = [keepers EXCEPT ![w] = k] /\ UNCHANGED <<taskLocks, backlog, troubles>>
    BY <1>4, <1>t DEF SkipTask
  <2>2. keepers[w].call = "none" /\ keepers[w].active
    BY <1>4 DEF SkipTask
  <2>3. Tail(q) \in Queues
    BY <1>4, KeeperIs, QueueGoes DEF SkipTask, Keeper
  <2>4. k \in Keeper /\ Orderly(k) /\ k.call = "none"
    <3>1. keepers[w] \in Keeper /\ Orderly(keepers[w])
      BY KeeperIs
    <3>2. k \in Keeper
      BY <3>1, <2>3 DEF Keeper
    <3>3. k.call = keepers[w].call /\ k.active = keepers[w].active /\ k.phase = keepers[w].phase
      BY <3>1 DEF Keeper
    <3> HIDE DEF k
    <3> QED BY <2>2, <3>1, <3>2, <3>3 DEF Orderly
  <2>5. \A t \in TaskIds : taskLocks[t] # w
    BY <2>2, KeeperIs
  <2> HIDE DEF k
  <2> QED BY <1>t, <2>1, <2>4, <2>5, KeeperMoves
<1>5. ASSUME NEW w \in Keepers, NEW t \in TaskIds, BeginTask(w, t) PROVE KeeperInv'
  <2> DEFINE k == [keepers[w] EXCEPT !.recent = keepers[w].recent \cup {t}, !.call = "locking"]
  <2>1. keepers' = [keepers EXCEPT ![w] = k] /\ UNCHANGED <<taskLocks, backlog, troubles>>
    BY <1>5, <1>t DEF BeginTask
  <2>2. keepers[w].call = "none" /\ keepers[w].active /\ keepers[w].queue # <<>>
    BY <1>5 DEF BeginTask
  <2>3. k \in Keeper /\ Orderly(k) /\ k.call = "locking"
    <3>1. keepers[w] \in Keeper /\ Orderly(keepers[w])
      BY KeeperIs
    <3>2. k \in Keeper
      BY <3>1 DEF Keeper
    <3>3. /\ k.call = "locking" /\ k.queue = keepers[w].queue
          /\ k.active = keepers[w].active /\ k.phase = keepers[w].phase
      BY <3>1 DEF Keeper
    <3> HIDE DEF k
    <3> QED BY <2>2, <3>1, <3>2, <3>3 DEF Orderly
  <2>4. \A u \in TaskIds : taskLocks[u] # w
    BY <2>2, KeeperIs
  <2> HIDE DEF k
  <2> QED BY <1>t, <2>1, <2>3, <2>4, KeeperMoves
<1>6. ASSUME NEW w \in Keepers, LockAnswered(w) PROVE KeeperInv'
  <2> DEFINE t == Head(keepers[w].queue)
             free == taskLocks[t] = Nobody /\ ~Aborted(w)
             k == [keepers[w] EXCEPT !.call = "running",
                                     !.expired = IF t = "cleanup" THEN backlog ELSE keepers[w].expired]
  <2>1. keepers[w].call = "locking" /\ UNCHANGED <<backlog, troubles>>
    BY <1>6 DEF LockAnswered
  <2>2. CASE ~free
    <3>1. keepers' = [keepers EXCEPT ![w] = TaskLeft(@)] /\ taskLocks' = taskLocks
      BY <1>6, <2>2 DEF LockAnswered
    <3> QED BY <1>t, <2>1, <3>1, LeavesTask
  <2>3. CASE free
    <3>1. keepers' = [keepers EXCEPT ![w] = k] /\ taskLocks' = [taskLocks EXCEPT ![t] = w]
      BY <1>6, <1>t, <2>3 DEF LockAnswered
    <3>2. keepers[w] \in Keeper /\ Orderly(keepers[w])
      BY KeeperIs
    <3>3. t \in TaskIds
      BY <2>1, <3>2, QueueGoes DEF Orderly, Keeper
    <3>4. k \in Keeper /\ Orderly(k) /\ k.call = "running" /\ Head(k.queue) = t
      BY <1>t, <2>1, <3>2 DEF Keeper, Orderly
    <3>5. \A u \in TaskIds : taskLocks[u] # w
      BY <2>1, KeeperIs
    <3>6. taskLocks[t] = Nobody
      BY <2>3
    <3> HIDE DEF k, t
    <3>7. /\ taskLocks' \in [TaskIds -> Keepers \cup {Nobody}]
          /\ \A u \in TaskIds : taskLocks'[u] = w <=> u = t
          /\ \A u \in TaskIds : \A v \in Keepers \ {w} : taskLocks'[u] = v <=> taskLocks[u] = v
      BY <1>t, <1>n, <3>1, <3>3, <3>5, <3>6
    <3> QED BY <1>t, <2>1, <3>1, <3>4, <3>7, KeeperMoves
  <2> QED BY <2>2, <2>3
<1>7. ASSUME NEW w \in Keepers, LockFails(w) PROVE KeeperInv'
  BY <1>7, <1>t, <1>u, LeavesTask DEF LockFails
<1>8. ASSUME NEW w \in Keepers, Batch(w) PROVE KeeperInv'
  <2> DEFINE k == keepers[w]
             b == Stages[k.stage]
  <2>1. k \in Keeper /\ Orderly(k) /\ k.call = "running" /\ Head(k.queue) = "cleanup" /\ troubles' = troubles
    BY <1>8, KeeperIs DEF Batch, Running
  <2>2. b \in Tables /\ k.expired \in [Tables -> 0..MaxBatches]
    BY <2>1, StagesAre DEF Keeper
  <2>3. /\ \A u \in TaskIds : taskLocks[u] = w => k.call = "running" /\ Head(k.queue) = u
        /\ \A u \in TaskIds : k.call = "running" /\ Head(k.queue) = u /\ k.phase # "stopping" => taskLocks[u] = w
    BY KeeperIs
  <2>4. CASE ~Aborted(w) /\ k.expired[b] > 0 /\ backlog[b] > 0
    <3> DEFINE n == [k EXCEPT !.expired = [k.expired EXCEPT ![b] = k.expired[b] - 1]]
    <3>1. /\ keepers' = [keepers EXCEPT ![w].expired[b] = @ - 1] /\ taskLocks' = taskLocks
          /\ backlog' = [backlog EXCEPT ![b] = @ - 1]
      BY <1>8, <2>4 DEF Batch
    <3>2. keepers' = [keepers EXCEPT ![w] = n]
      BY <1>t, <3>1
    <3>3. [k.expired EXCEPT ![b] = k.expired[b] - 1] \in [Tables -> 0..MaxBatches]
      <4>1. k.expired[b] - 1 \in 0..MaxBatches
        BY <1>n, <2>2, <2>4
      <4> QED BY <2>2, <4>1
    <3>4. backlog' \in [Tables -> 0..MaxBatches]
      <4>1. backlog[b] - 1 \in 0..MaxBatches
        BY <1>n, <1>t, <2>2, <2>4
      <4> QED BY <1>t, <2>2, <3>1, <4>1
    <3>5. /\ n \in Keeper /\ n.call = k.call /\ n.queue = k.queue /\ n.phase = k.phase
          /\ n.active = k.active
      BY <2>1, <3>3 DEF Keeper
    <3>6. Orderly(n)
      BY <2>1, <3>5 DEF Orderly
    <3>7. \A u \in TaskIds : \A v \in Keepers \ {w} : taskLocks'[u] = v <=> taskLocks[u] = v
      BY <3>1
    <3>8. taskLocks' \in [TaskIds -> Keepers \cup {Nobody}]
      BY <1>t, <3>1
    <3>9. troubles' \in 0..MaxTroubles
      BY <1>t, <2>1
    <3>10. /\ \A u \in TaskIds : taskLocks'[u] = w => n.call = "running" /\ Head(n.queue) = u
           /\ \A u \in TaskIds : n.call = "running" /\ Head(n.queue) = u /\ n.phase # "stopping" => taskLocks'[u] = w
      BY <2>3, <3>1, <3>5
    <3> HIDE DEF n, k, b
    <3> QED BY <3>2, <3>4, <3>5, <3>6, <3>7, <3>8, <3>9, <3>10, KeeperMoves
  <2>5. CASE ~(~Aborted(w) /\ k.expired[b] > 0 /\ backlog[b] > 0) /\ k.stage < Len(Stages)
    <3> DEFINE n == [k EXCEPT !.stage = k.stage + 1]
    <3>1. keepers' = [keepers EXCEPT ![w] = n] /\ taskLocks' = taskLocks /\ backlog' = backlog
      BY <1>8, <1>t, <2>5 DEF Batch
    <3>2. k.stage + 1 \in 1..3
      BY <2>1, <2>5, StagesAre DEF Keeper
    <3>5. /\ n \in Keeper /\ n.call = k.call /\ n.queue = k.queue /\ n.phase = k.phase
          /\ n.active = k.active
      BY <2>1, <3>2 DEF Keeper
    <3>6. Orderly(n)
      BY <2>1, <3>5 DEF Orderly
    <3> HIDE DEF n, k, b
    <3> QED BY <1>t, <2>1, <2>3, <3>1, <3>5, <3>6, KeeperMoves
  <2>6. CASE ~(~Aborted(w) /\ k.expired[b] > 0 /\ backlog[b] > 0) /\ ~(k.stage < Len(Stages))
    <3>1. /\ keepers' = [keepers EXCEPT ![w] = TaskLeft(@)] /\ backlog' = backlog
          /\ taskLocks' = Unlocked(w, "cleanup", TRUE)
      BY <1>8, <2>6 DEF Batch
    <3> QED BY <1>t, <2>1, <3>1, LeavesTask
  <2> QED BY <2>4, <2>5, <2>6
<1>9. ASSUME NEW w \in Keepers, NEW t \in TaskIds, TaskEnds(w, t) PROVE KeeperInv'
  BY <1>9, <1>t, LeavesTask DEF TaskEnds, Running
<1>10. ASSUME NEW w \in Keepers, NEW t \in TaskIds, KeeperTaskFails(w, t) PROVE KeeperInv'
  <2>1. Unlocked(w, t, FALSE) = Unlocked(w, t, TRUE)
    BY DEF Unlocked
  <2> QED BY <1>10, <1>t, <1>u, <2>1, LeavesTask DEF KeeperTaskFails, Running
<1>11. ASSUME NEW w \in Keepers, RunEnds(w) PROVE KeeperInv'
  <2> DEFINE k == IF keepers[w].phase = "stopping" THEN DownKeeper
                  ELSE [keepers[w] EXCEPT !.active = FALSE, !.phase = "up"]
  <2>1. keepers' = [keepers EXCEPT ![w] = k] /\ UNCHANGED <<taskLocks, backlog, troubles>>
    BY <1>11 DEF RunEnds
  <2>2. keepers[w].call = "none"
    BY <1>11, KeeperIs DEF RunEnds, Orderly
  <2>3. k \in Keeper /\ Orderly(k) /\ k.call = "none"
    <3>1. CASE keepers[w].phase = "stopping" BY <3>1, DownIs
    <3>2. CASE keepers[w].phase # "stopping"
      <4>1. keepers[w] \in Keeper
        BY KeeperIs
      <4>2. k \in Keeper
        BY <3>2, <4>1 DEF Keeper
      <4>3. k.call = keepers[w].call /\ k.phase = "up"
        BY <3>2, <4>1 DEF Keeper
      <4> HIDE DEF k
      <4> QED BY <2>2, <4>2, <4>3 DEF Orderly
    <3> QED BY <3>1, <3>2
  <2>4. \A u \in TaskIds : taskLocks[u] # w
    BY <2>2, KeeperIs
  <2> HIDE DEF k
  <2> QED BY <1>t, <2>1, <2>3, <2>4, KeeperMoves
<1>12. ASSUME NEW w \in Keepers, NEW t \in TaskIds, LockSessionLost(w, t) PROVE KeeperInv'
  <2> DEFINE k == IF keepers[w].phase = "starting" THEN DownKeeper ELSE [keepers[w] EXCEPT !.phase = "stopping"]
  <2>1. /\ keepers' = [keepers EXCEPT ![w] = k] /\ taskLocks' = [taskLocks EXCEPT ![t] = Nobody]
        /\ backlog' = backlog /\ troubles' \in 0..MaxTroubles
    BY <1>12, <1>u DEF LockSessionLost
  <2>2. keepers[w].call = "running" /\ Head(keepers[w].queue) = t /\ taskLocks[t] = w
    BY <1>12 DEF LockSessionLost, Running
  <2>3. k \in Keeper /\ Orderly(k) /\ (k.call = "none" \/ k.phase = "stopping")
    <3>1. CASE keepers[w].phase = "starting" BY <3>1, DownIs
    <3>2. CASE keepers[w].phase # "starting" BY <3>2, <2>2, KeeperIs DEF Keeper, Orderly
    <3> QED BY <3>1, <3>2
  <2>4. \A u \in TaskIds : taskLocks[u] = w => u = t
    BY <2>2, KeeperIs
  <2> HIDE DEF k
  <2>5. /\ taskLocks' \in [TaskIds -> Keepers \cup {Nobody}]
        /\ \A u \in TaskIds : taskLocks'[u] # w
        /\ \A u \in TaskIds : \A v \in Keepers \ {w} : taskLocks'[u] = v <=> taskLocks[u] = v
    BY <1>t, <1>n, <2>1, <2>2, <2>4
  <2> QED BY <1>t, <2>1, <2>3, <2>5, KeeperMoves
<1>13. ASSUME NEW w \in Keepers, StopKeeper(w) PROVE KeeperInv'
  <2> DEFINE k == IF keepers[w].active THEN [keepers[w] EXCEPT !.phase = "stopping"] ELSE DownKeeper
  <2>1. keepers' = [keepers EXCEPT ![w] = k] /\ taskLocks' = taskLocks /\ backlog' = backlog /\ troubles' \in 0..MaxTroubles
    BY <1>13, <1>u DEF StopKeeper
  <2>2. CASE keepers[w].active
    <3>1. /\ k \in Keeper /\ Orderly(k) /\ k.phase = "stopping"
          /\ k.call = keepers[w].call /\ k.queue = keepers[w].queue
      BY <2>2, KeeperIs DEF Keeper, Orderly
    <3>2. \A u \in TaskIds : taskLocks[u] = w => keepers[w].call = "running" /\ Head(keepers[w].queue) = u
      BY KeeperIs
    <3>3. \A u \in TaskIds : taskLocks'[u] = w => k.call = "running" /\ Head(k.queue) = u
      BY <2>1, <3>1, <3>2
    <3> HIDE DEF k
    <3> QED BY <1>t, <2>1, <3>1, <3>3, KeeperMoves
  <2>3. CASE ~keepers[w].active
    <3>1. k \in Keeper /\ Orderly(k) /\ k.call = "none"
      BY <2>3, DownIs
    <3>2. \A u \in TaskIds : taskLocks[u] # w
      BY <2>3, KeeperIs DEF Orderly
    <3> HIDE DEF k
    <3> QED BY <1>t, <2>1, <3>1, <3>2, KeeperMoves
  <2> QED BY <2>2, <2>3
<1>14. ASSUME NEW w \in Keepers, KeeperDies(w) PROVE KeeperInv'
  <2>1. /\ keepers' = [keepers EXCEPT ![w] = DownKeeper] /\ backlog' = backlog /\ troubles' \in 0..MaxTroubles
        /\ taskLocks' = [t \in TaskIds |-> IF taskLocks[t] = w THEN Nobody ELSE taskLocks[t]]
    BY <1>14, <1>u DEF KeeperDies
  <2>2. /\ taskLocks' \in [TaskIds -> Keepers \cup {Nobody}]
        /\ \A u \in TaskIds : taskLocks'[u] # w
        /\ \A u \in TaskIds : \A v \in Keepers \ {w} : taskLocks'[u] = v <=> taskLocks[u] = v
    BY <1>t, <1>n, <2>1
  <2> QED BY <1>t, <2>1, <2>2, DownIs, KeeperMoves
<1> QED
  BY <1>0, <1>1, <1>2, <1>3, <1>4, <1>5, <1>6, <1>7, <1>8, <1>9, <1>10, <1>11, <1>12, <1>13, <1>14
  DEF KeeperNext

LEMMA KeeperInvHolds == KeeperSpec => []KeeperInv
<1> QED BY KeeperInvInit, KeeperInvNext, PTL DEF KeeperSpec

LEMMA QueuesAre == {SubSeq(Tasks, i, Len(Tasks)) : i \in 1..(Len(Tasks) + 1)} = Queues
<1>1. Len(Tasks) = 3 /\ 1..(3 + 1) = {1, 2, 3, 4}
  BY TasksAre
<1>2. /\ SubSeq(Tasks, 1, 3) = <<"repair", "cleanup", "probes">>
      /\ SubSeq(Tasks, 2, 3) = <<"cleanup", "probes">>
      /\ SubSeq(Tasks, 3, 3) = <<"probes">>
      /\ SubSeq(Tasks, 4, 3) = <<>>
  <2> DEFINE all == <<"repair", "cleanup", "probes">>
  <2>1. /\ all \in Seq(TaskIds) /\ Len(all) = 3
        /\ \A m \in 1..4 : /\ SubSeq(all, m, 3) \in Seq(TaskIds) /\ Len(SubSeq(all, m, 3)) = 4 - m
                          /\ \A i \in 1..(4 - m) : SubSeq(all, m, 3)[i] = all[i + m - 1]
    BY TasksAre
  <2>2. 1..3 = {1, 2, 3} /\ 1..2 = {1, 2} /\ 1..1 = {1} /\ 1..0 = {}
    OBVIOUS
  <2>3. SubSeq(all, 1, 3) = all
    <3> DEFINE s == SubSeq(all, 1, 3)
    <3>1. s \in Seq(TaskIds) /\ all \in Seq(TaskIds) /\ Len(s) = Len(all) /\ Len(s) = 3
      BY <2>1
    <3>2. \A i \in 1..3 : s[i] = all[i]
      BY <2>1
    <3> HIDE DEF s, all
    <3>3. \A i \in 1..Len(s) : s[i] = all[i]
      BY <3>1, <3>2
    <3>4. s = all
      BY <3>1, <3>3, SeqEqual
    <3> QED BY <3>4 DEF s
  <2>4. SubSeq(all, 2, 3) = <<"cleanup", "probes">>
    <3> DEFINE part == <<"cleanup", "probes">>
               s == SubSeq(all, 2, 3)
    <3>1. part \in Seq(TaskIds) /\ Len(part) = 2 /\ part[1] = all[2] /\ part[2] = all[3]
      BY TasksAre
    <3>2. s \in Seq(TaskIds) /\ Len(s) = 2 /\ s[1] = all[2] /\ s[2] = all[3]
      BY <2>1
    <3> HIDE DEF part, all, s
    <3>3. \A i \in 1..Len(s) : s[i] = part[i]
      BY <3>1, <3>2, <2>2
    <3>4. s = part
      BY <3>1, <3>2, <3>3, SeqEqual
    <3> QED BY <3>4 DEF s, part
  <2>5. SubSeq(all, 3, 3) = <<"probes">>
    <3> DEFINE part == <<"probes">>
               s == SubSeq(all, 3, 3)
    <3>1. part \in Seq(TaskIds) /\ Len(part) = 1 /\ part[1] = all[3]
      BY TasksAre
    <3>2. s \in Seq(TaskIds) /\ Len(s) = 1 /\ s[1] = all[3]
      BY <2>1
    <3> HIDE DEF part, all, s
    <3>3. \A i \in 1..Len(s) : s[i] = part[i]
      BY <3>1, <3>2, <2>2
    <3>4. s = part
      BY <3>1, <3>2, <3>3, SeqEqual
    <3> QED BY <3>4 DEF s, part
  <2>6. SubSeq(all, 4, 3) = <<>>
    BY <2>1
  <2> QED BY <2>3, <2>4, <2>5, <2>6 DEF Tasks
<1> QED BY <1>1, <1>2 DEF Queues

LEMMA KeeperInvIsTyped == KeeperInv => KeeperTypeOK
<1> SUFFICES ASSUME KeeperInv PROVE KeeperTypeOK
  OBVIOUS
<1>1. ASSUME NEW w \in Keepers
      PROVE  /\ keepers[w] \in Keeper
             /\ keepers[w].call # "none" => keepers[w].active /\ keepers[w].queue # <<>>
  BY KeeperIs DEF Orderly
<1>2. Len(Stages) = 3
  BY StagesAre
<1> QED BY <1>1, <1>2, QueuesAre DEF KeeperInv, KeeperTypeInv, KeeperTypeOK, Keeper

\* Processes, advisory locks and backlog keep their types (createMaintenanceScheduler).
THEOREM KeeperTyped == KeeperSpec => []KeeperTypeOK
<1> QED BY KeeperInvHolds, KeeperInvIsTyped, PTL

\* Two processes work on one task only when one of them lost the session of its
\* lock and is stopping: the half of TasksAreKept that speaks of every state.
THEOREM WorkersAlone == KeeperSpec => []AloneAtWork
<1>1. KeeperInv => AloneAtWork
  BY DEF KeeperInv, LockInv, AloneAtWork
<1> QED BY <1>1, KeeperInvHolds, PTL

\* No advisory lock outlives the work it protects: whoever holds one runs its task.
LocksAreUsed == \A w \in Keepers : \A t \in TaskIds : taskLocks[t] = w => Running(w, t)

THEOREM LocksUsed == KeeperSpec => []LocksAreUsed
<1>1. KeeperInv => LocksAreUsed
  BY DEF KeeperInv, LockInv, LocksAreUsed
<1> QED BY <1>1, KeeperInvHolds, PTL

----------------------------------------------------------------------------
(* JobWake. *)

\* A job that a claim may find has an attempt left, and what was enqueued since
\* the runner last looked is still there to be found.
JobsInv ==
  \A j \in WakeJobs :
    /\ wakeJobs[j].status \in {"absent", "due", "later"} => wakeJobs[j].tries < MaxTries
    /\ j \in fresh => wakeJobs[j].status = "due"

\* No timer is set during an iteration, nor before the first connect has settled,
\* and until then no session listens.
TimerInv ==
  /\ runner.at # "idle" => runner.timer = "off"
  /\ runner.phase \in {"new", "starting"} =>
       /\ runner.at = "idle" /\ runner.timer = "off"
       /\ \A s \in Sessions : sessions[s].state # "listening"
  /\ runner.phase = "new" => ~sub.reconnect /\ \A s \in Sessions : sessions[s] = FreeSession

WakeInv == WakeTypeOK /\ JobsInv /\ TimerInv /\ NoWakeLost

Runner == [phase : {"new", "starting", "running", "stopped"}, timer : {"off"} \cup Delays,
           at : {"idle", "claiming", "working"}, wakeRequested : BOOLEAN, threw : BOOLEAN]
Session == [state : {"free", "connecting", "opened", "listening", "leaked", "lost"},
            inbox : BOOLEAN, events : 0..2]
WakeJob == [status : {"absent", "due", "running", "later", "done"}, tries : 0..MaxTries]
Subscription == [client : Sessions \cup {NoSession}, reconnect : BOOLEAN, stopped : BOOLEAN]

LEMMA WakeInvInit == WakeInit => WakeInv
<1> SUFFICES ASSUME WakeInit PROVE WakeInv
  OBVIOUS
<1>1. WakeTypeOK
  <2>1. FreeSession \in [state : {"free", "connecting", "opened", "listening", "leaked", "lost"},
                         inbox : BOOLEAN, events : 0..2]
    BY DEF FreeSession
  <2> QED BY <2>1, WakeAssumption DEF WakeInit, WakeTypeOK
<1>2. JobsInv
  BY WakeAssumption DEF WakeInit, JobsInv
<1>3. TimerInv
  BY DEF WakeInit, TimerInv, FreeSession
<1>4. NoWakeLost
  BY DEF WakeInit, NoWakeLost
<1> QED BY <1>1, <1>2, <1>3, <1>4 DEF WakeInv

\* What the operators of the loop make of a runner.
LEMMA RequestIs ==
  ASSUME NEW r \in Runner
  PROVE  /\ requestWake(r) \in Runner /\ requestWake(r).phase = r.phase /\ requestWake(r).at = r.at
         /\ requestWake(r).threw = r.threw
         /\ r.at = "idle" => requestWake(r).wakeRequested = r.wakeRequested
         /\ r.at = "idle" /\ ~RunnerStopped(r) => requestWake(r).timer = "now"
         /\ r.at = "idle" /\ RunnerStopped(r) => requestWake(r) = r
         /\ r.at # "idle" => requestWake(r).wakeRequested /\ requestWake(r).timer = r.timer
BY DEF requestWake, schedule, Runner, Delays

LEMMA RearmedIs ==
  ASSUME NEW r \in Runner, NEW delay \in Delays
  PROVE  /\ Rearmed(r, delay) \in Runner /\ Rearmed(r, delay).phase = r.phase
         /\ Rearmed(r, delay).at = "idle"
         /\ r.phase = "running" /\ r.wakeRequested => Rearmed(r, delay).timer = "now"
         /\ RunnerStopped(r) => Rearmed(r, delay).timer = r.timer
<1> DEFINE idle == [r EXCEPT !.at = "idle", !.threw = FALSE]
           quiet == [idle EXCEPT !.wakeRequested = FALSE]
<1>1. /\ idle \in Runner /\ idle.phase = r.phase /\ idle.at = "idle" /\ idle.timer = r.timer
      /\ quiet \in Runner /\ quiet.phase = r.phase /\ quiet.at = "idle"
  BY DEF Runner
<1>2. \A q \in Runner, d \in Delays :
        /\ schedule(q, d) \in Runner /\ schedule(q, d).phase = q.phase /\ schedule(q, d).at = q.at
        /\ ~RunnerStopped(q) => schedule(q, d).timer = d
  BY DEF schedule, Runner
<1>3. Rearmed(r, delay) = IF RunnerStopped(r) THEN idle
                          ELSE IF r.wakeRequested THEN schedule(quiet, "now") ELSE schedule(idle, delay)
  BY DEF Rearmed
<1>4. "now" \in Delays /\ (RunnerStopped(quiet) <=> RunnerStopped(r)) /\ (r.phase = "running" => ~RunnerStopped(r))
  BY <1>1 DEF Delays, RunnerStopped
<1> HIDE DEF idle, quiet
<1> QED BY <1>1, <1>2, <1>3, <1>4

LEMMA CaughtIs ==
  ASSUME NEW r \in Runner
  PROVE  /\ Caught(r) \in Runner /\ Caught(r).phase = r.phase /\ Caught(r).at = "idle" /\ Caught(r).threw
         /\ ~RunnerStopped(r) => Caught(r).timer = "poll"
         /\ RunnerStopped(r) => Caught(r).timer = r.timer
BY DEF Caught, schedule, Runner, Delays, RunnerStopped

LEMMA SettledIs ==
  ASSUME NEW r \in Runner
  PROVE  /\ FirstSettled(r) \in Runner /\ FirstSettled(r).at = r.at
         /\ r.phase # "starting" => FirstSettled(r) = r
         /\ r.phase = "starting" => FirstSettled(r).phase = "running" /\ FirstSettled(r).timer = "now"
BY DEF FirstSettled, schedule, Runner, Delays, RunnerStopped

LEMMA DisconnectIs ==
  ASSUME NEW b \in Subscription PROVE handleDisconnect(b) \in Subscription
BY DEF handleDisconnect, Subscription

LEMMA WakeTypes ==
  WakeTypeOK <=> /\ wakeJobs \in [WakeJobs -> WakeJob] /\ runner \in Runner /\ sub \in Subscription
                 /\ sessions \in [Sessions -> Session] /\ fresh \subseteq WakeJobs
                 /\ wakeFaults \in [losses : 0..MaxLosses, errors : 0..MaxWakeErrors]
BY DEF WakeTypeOK, WakeJob, Runner, Subscription, Session

LEMMA WakeTypeNext == WakeInv /\ [WakeNext]_wakeVars => WakeTypeOK'
<1> SUFFICES ASSUME WakeInv, [WakeNext]_wakeVars PROVE WakeTypeOK'
  OBVIOUS
<1>t. /\ wakeJobs \in [WakeJobs -> WakeJob] /\ runner \in Runner /\ sub \in Subscription
      /\ sessions \in [Sessions -> Session] /\ fresh \subseteq WakeJobs
      /\ wakeFaults \in [losses : 0..MaxLosses, errors : 0..MaxWakeErrors]
  BY WakeTypes DEF WakeInv
<1>n. MaxTries \in Nat /\ MaxTries > 0 /\ MaxLosses \in Nat /\ MaxWakeErrors \in Nat
  BY WakeAssumption
<1>j. \A j \in WakeJobs : wakeJobs[j].status \in {"absent", "due", "later"} => wakeJobs[j].tries + 1 \in 0..MaxTries
  BY <1>t, <1>n DEF WakeInv, JobsInv, WakeJob
<1>f. FreeSession \in Session /\ "now" \in Delays /\ "poll" \in Delays /\ "backoff" \in Delays
  BY DEF FreeSession, Session, Delays
<1>l. Loses => wakeFaults' \in [losses : 0..MaxLosses, errors : 0..MaxWakeErrors]
  BY <1>t, <1>n DEF Loses
<1>e. Throws => wakeFaults' \in [losses : 0..MaxLosses, errors : 0..MaxWakeErrors]
  BY <1>t, <1>n DEF Throws
<1>0. CASE UNCHANGED wakeVars
  BY <1>0, <1>t DEF wakeVars, WakeTypeOK, WakeJob, Runner, Subscription, Session
<1>1. CASE StartRunner
  BY <1>1, <1>t DEF StartRunner, WakeTypeOK, WakeJob, Runner, Subscription, Session
<1>2. CASE StopRunner
  BY <1>2, <1>t, <1>f DEF StopRunner, WakeTypeOK, WakeJob, Runner, Subscription, Session
<1>3. CASE Wake
  BY <1>3, <1>t DEF Wake, WakeTypeOK, WakeJob, Runner, Subscription, Session
<1>4. CASE ClaimAnswered
  <2>1. CASE \E j \in Due : /\ wakeJobs' = [wakeJobs EXCEPT ![j] = [status |-> "running", tries |-> @.tries + 1]]
                            /\ fresh' = fresh \ {j}
                            /\ runner' = [runner EXCEPT !.at = "working"]
    BY <1>4, <2>1, <1>t, <1>j DEF ClaimAnswered, Due, WakeTypeOK, WakeJob, Runner, Subscription, Session
  <2>2. CASE runner' = Rearmed(runner, "poll") /\ UNCHANGED <<wakeJobs, fresh>>
    <3>1. runner' \in Runner
      BY <2>2, <1>t, <1>f, RearmedIs
    <3> QED BY <1>4, <2>2, <1>t, <3>1 DEF ClaimAnswered, WakeTypeOK, WakeJob, Runner, Subscription, Session
  <2> QED BY <1>4, <2>1, <2>2 DEF ClaimAnswered
<1>5. CASE ClaimThrows
  <2>1. runner' \in Runner
    BY <1>5, <1>t, CaughtIs DEF ClaimThrows
  <2>2. wakeJobs' \in [WakeJobs -> WakeJob] /\ fresh' \subseteq WakeJobs
    BY <1>5, <1>t, <1>j DEF ClaimThrows, Due, WakeJob
  <2> QED BY <1>5, <1>t, <1>e, <2>1, <2>2 DEF ClaimThrows, WakeTypeOK, WakeJob, Runner, Subscription, Session
<1>6. ASSUME NEW j \in WakeJobs, Enqueued(j) PROVE WakeTypeOK'
  <2>1. wakeJobs' \in [WakeJobs -> WakeJob]
    BY <1>6, <1>t DEF Enqueued, WakeJob
  <2>2. sessions' \in [Sessions -> Session]
    BY <1>6, <1>t DEF Enqueued, Session
  <2> QED BY <1>6, <1>t, <2>1, <2>2 DEF Enqueued, WakeTypeOK, WakeJob, Runner, Subscription, Session
<1>7. ASSUME NEW j \in WakeJobs, ComesDue(j) PROVE WakeTypeOK'
  <2>1. wakeJobs' \in [WakeJobs -> WakeJob]
    BY <1>7, <1>t DEF ComesDue, WakeJob
  <2> QED BY <1>7, <1>t, <2>1 DEF ComesDue, WakeTypeOK, WakeJob, Runner, Subscription, Session
<1>8. ASSUME NEW j \in WakeJobs, JobEnds(j) PROVE WakeTypeOK'
  <2>1. wakeJobs' \in [WakeJobs -> WakeJob]
    BY <1>8, <1>t DEF JobEnds, WakeJob
  <2>2. runner' \in Runner
    BY <1>8, <1>t, <1>f, RearmedIs DEF JobEnds
  <2> QED BY <1>8, <1>t, <2>1, <2>2 DEF JobEnds, WakeTypeOK, WakeJob, Runner, Subscription, Session
<1>9. ASSUME NEW j \in WakeJobs, SettleThrows(j) PROVE WakeTypeOK'
  <2>1. wakeJobs' \in [WakeJobs -> WakeJob]
    BY <1>9, <1>t DEF SettleThrows, WakeJob
  <2>2. runner' \in Runner
    BY <1>9, <1>t, CaughtIs DEF SettleThrows
  <2> QED BY <1>9, <1>t, <1>e, <2>1, <2>2 DEF SettleThrows, WakeTypeOK, WakeJob, Runner, Subscription, Session
<1>10. ASSUME NEW s \in Sessions, Reconnect(s) PROVE WakeTypeOK'
  <2>1. sub' \in Subscription /\ sessions' \in [Sessions -> Session]
    BY <1>10, <1>t DEF Reconnect, Subscription, Session
  <2> QED BY <1>10, <1>t, <2>1 DEF Reconnect, WakeTypeOK, WakeJob, Runner, Subscription, Session
<1>11. ASSUME NEW s \in Sessions, Connected(s) PROVE WakeTypeOK'
  <2>1. sub' \in Subscription
    BY <1>11, <1>t DEF Connected, Subscription
  <2>2. sessions' \in [Sessions -> Session]
    BY <1>11, <1>t, <1>f DEF Connected, Session
  <2> QED BY <1>11, <1>t, <2>1, <2>2 DEF Connected, WakeTypeOK, WakeJob, Runner, Subscription, Session
<1>12. ASSUME NEW s \in Sessions, SessionFails(s) PROVE WakeTypeOK'
  <2>1. sessions' \in [Sessions -> Session] /\ sub' \in Subscription /\ runner' \in Runner
    BY <1>12, <1>t, <1>f, DisconnectIs, SettledIs DEF SessionFails
  <2> QED BY <1>12, <1>t, <1>l, <2>1 DEF SessionFails, WakeTypeOK, WakeJob, Runner, Subscription, Session
<1>13. ASSUME NEW s \in Sessions, Listening(s) PROVE WakeTypeOK'
  <2>1. sessions' \in [Sessions -> Session]
    BY <1>13, <1>t DEF Listening, Session
  <2>2. runner' \in Runner
    BY <1>13, <1>t, RequestIs, SettledIs DEF Listening, GapCovered
  <2> QED BY <1>13, <1>t, <2>1, <2>2 DEF Listening, WakeTypeOK, WakeJob, Runner, Subscription, Session
<1>14. ASSUME NEW s \in Sessions, ListenFails(s) PROVE WakeTypeOK'
  <2>1. sessions' \in [Sessions -> Session]
    <3>1. \A x \in {"leaked"} : [sessions[s] EXCEPT !.state = x] \in Session
      BY <1>t DEF Session
    <3>2. [state |-> "lost", inbox |-> FALSE, events |-> 2] \in Session
      BY DEF Session
    <3> QED BY <1>14, <1>t, <3>1, <3>2 DEF ListenFails
  <2>2. sub' \in Subscription /\ runner' \in Runner
    BY <1>14, <1>t, DisconnectIs, SettledIs DEF ListenFails
  <2> QED BY <1>14, <1>t, <1>l, <2>1, <2>2 DEF ListenFails, WakeTypeOK, WakeJob, Runner, Subscription, Session
<1>15. ASSUME NEW s \in Sessions, JobHeard(s) PROVE WakeTypeOK'
  <2>1. sessions' \in [Sessions -> Session]
    BY <1>15, <1>t DEF JobHeard, Session
  <2>2. runner' \in Runner
    BY <1>15, <1>t, RequestIs DEF JobHeard
  <2> QED BY <1>15, <1>t, <2>1, <2>2 DEF JobHeard, WakeTypeOK, WakeJob, Runner, Subscription, Session
<1>16. ASSUME NEW s \in Sessions, SessionLost(s) PROVE WakeTypeOK'
  <2>1. sessions' \in [Sessions -> Session]
    BY <1>16, <1>t DEF SessionLost, Session
  <2> QED BY <1>16, <1>t, <1>l, <2>1 DEF SessionLost, WakeTypeOK, WakeJob, Runner, Subscription, Session
<1>17. ASSUME NEW s \in Sessions, LossHeard(s) PROVE WakeTypeOK'
  <2>1. sessions' \in [Sessions -> Session]
    <3>1. sessions[s] \in Session /\ sessions[s].events > 0
      BY <1>17, <1>t DEF LossHeard
    <3>2. [sessions[s] EXCEPT !.events = sessions[s].events - 1] \in Session
      BY <3>1 DEF Session
    <3>3. PICK n \in Session : sessions' = [sessions EXCEPT ![s] = n]
      <4>1. CASE sessions[s].events = 1
        BY <1>17, <1>t, <1>f, <4>1 DEF LossHeard
      <4>2. CASE sessions[s].events # 1
        BY <1>17, <1>t, <3>2, <4>2 DEF LossHeard
      <4> QED BY <4>1, <4>2
    <3> QED BY <1>t, <3>3
  <2>2. sub' \in Subscription
    BY <1>17, <1>t, DisconnectIs DEF LossHeard
  <2> QED BY <1>17, <1>t, <2>1, <2>2 DEF LossHeard, WakeTypeOK, WakeJob, Runner, Subscription, Session
<1> QED
  BY <1>0, <1>1, <1>2, <1>3, <1>4, <1>5, <1>6, <1>7, <1>8, <1>9, <1>10, <1>11, <1>12, <1>13, <1>14,
     <1>15, <1>16, <1>17 DEF WakeNext

LEMMA JobsNext == WakeInv /\ [WakeNext]_wakeVars => JobsInv'
<1> SUFFICES ASSUME WakeInv, [WakeNext]_wakeVars, NEW j \in WakeJobs
             PROVE  /\ wakeJobs'[j].status \in {"absent", "due", "later"} => wakeJobs'[j].tries < MaxTries
                    /\ j \in fresh' => wakeJobs'[j].status = "due"
  BY DEF JobsInv
<1>t. /\ wakeJobs \in [WakeJobs -> WakeJob] /\ fresh \subseteq WakeJobs
      /\ MaxTries \in Nat
  BY WakeTypes, WakeAssumption DEF WakeInv
<1>i. \A i \in WakeJobs : /\ wakeJobs[i].status \in {"absent", "due", "later"} => wakeJobs[i].tries < MaxTries
                          /\ i \in fresh => wakeJobs[i].status = "due"
  BY DEF WakeInv, JobsInv
<1>0. CASE wakeJobs' = wakeJobs /\ fresh' \subseteq fresh
  BY <1>0, <1>i
<1>1. CASE UNCHANGED wakeVars \/ StartRunner \/ StopRunner \/ Wake
  BY <1>0, <1>1 DEF wakeVars, StartRunner, StopRunner, Wake
<1>2. CASE ClaimAnswered
  BY <1>0, <1>2, <1>t, <1>i DEF ClaimAnswered, Due, WakeJob
<1>3. CASE ClaimThrows
  BY <1>0, <1>3, <1>t, <1>i DEF ClaimThrows, Due, WakeJob
<1>4. CASE \E i \in WakeJobs : Enqueued(i) \/ ComesDue(i)
  BY <1>4, <1>t, <1>i DEF Enqueued, ComesDue, WakeJob
<1>5. CASE \E i \in WakeJobs : JobEnds(i) \/ SettleThrows(i)
  BY <1>5, <1>t, <1>i DEF JobEnds, SettleThrows, WakeJob
<1>6. CASE \E s \in Sessions : \/ Reconnect(s) \/ Connected(s) \/ SessionFails(s) \/ Listening(s) \/ ListenFails(s)
                               \/ JobHeard(s) \/ SessionLost(s) \/ LossHeard(s)
  BY <1>0, <1>6 DEF Reconnect, Connected, SessionFails, Listening, ListenFails, JobHeard, SessionLost, LossHeard
<1> QED BY <1>1, <1>2, <1>3, <1>4, <1>5, <1>6 DEF WakeNext

LEMMA TimerNext == WakeInv /\ [WakeNext]_wakeVars => TimerInv'
<1> SUFFICES ASSUME WakeInv, [WakeNext]_wakeVars PROVE TimerInv'
  OBVIOUS
<1>t. /\ runner \in Runner /\ sub \in Subscription /\ sessions \in [Sessions -> Session]
  BY WakeTypes DEF WakeInv
<1>i. TimerInv
  BY DEF WakeInv
<1>p. runner.phase \in {"new", "starting", "running", "stopped"}
  BY <1>t DEF Runner
<1>r. RunnerStopped(runner) <=> runner.phase \in {"new", "stopped"}
  BY DEF RunnerStopped
\* A session that was opened has been asked for by start(): the runner is not new.
<1>o. ASSUME NEW s \in Sessions, sessions[s] # FreeSession \/ sub.reconnect PROVE runner.phase # "new"
  BY <1>i, <1>o DEF TimerInv
<1>s. ASSUME NEW s \in Sessions, sessions[s].state # "free" \/ sessions[s].events > 0 PROVE sessions[s] # FreeSession
  BY <1>s DEF FreeSession
\* A step that starts the runner, or finds it started, has only the timer to keep.
<1>a. ASSUME runner'.phase \in {"running", "stopped"}, runner'.at # "idle" => runner'.timer = "off" PROVE TimerInv'
  BY <1>a DEF TimerInv
\* A step that leaves the runner as it is and opens no ear.
<1>b. ASSUME runner' = runner, runner.phase # "new",
             \A s \in Sessions : sessions'[s].state = "listening" => sessions[s].state = "listening"
      PROVE  TimerInv'
  BY <1>b, <1>i DEF TimerInv
\* The first connect is settled with the step.
<1>c. ASSUME runner' = FirstSettled(runner), runner.phase # "new",
             \A s \in Sessions : sessions'[s].state = "listening" => sessions[s].state = "listening"
      PROVE  TimerInv'
  <2>1. CASE runner.phase = "starting"
    BY <2>1, <1>a, <1>c, <1>i, <1>t, SettledIs DEF TimerInv
  <2>2. CASE runner.phase # "starting"
    BY <2>2, <1>b, <1>c, <1>t, SettledIs
  <2> QED BY <2>1, <2>2
<1>0. CASE UNCHANGED wakeVars
  BY <1>0, <1>i DEF wakeVars, TimerInv
<1>1. CASE StartRunner
  BY <1>1, <1>t, <1>i DEF StartRunner, TimerInv, Runner, Session, FreeSession
<1>2. CASE StopRunner
  BY <1>2, <1>t, <1>a DEF StopRunner, Runner
<1>3. CASE Wake
  BY <1>3, <1>t, <1>a, <1>i, <1>p DEF Wake, Runner, TimerInv
<1>4. CASE ClaimAnswered
  <2>1. runner.at = "claiming" /\ runner.timer = "off" /\ runner.phase \in {"running", "stopped"}
    BY <1>4, <1>i, <1>p DEF ClaimAnswered, TimerInv
  <2>2. CASE runner' = [runner EXCEPT !.at = "working"]
    BY <2>1, <2>2, <1>t, <1>a DEF Runner
  <2>3. CASE runner' = Rearmed(runner, "poll")
    BY <2>1, <2>3, <1>t, <1>a, RearmedIs DEF Delays
  <2> QED BY <1>4, <2>2, <2>3 DEF ClaimAnswered
<1>5. CASE ClaimThrows
  <2>1. runner.phase \in {"running", "stopped"}
    BY <1>5, <1>i, <1>p DEF ClaimThrows, TimerInv
  <2> QED BY <1>5, <2>1, <1>t, <1>a, CaughtIs DEF ClaimThrows
<1>6. ASSUME NEW j \in WakeJobs, Enqueued(j) \/ ComesDue(j) PROVE TimerInv'
  <2>1. runner' = runner /\ sub' = sub /\ \A s \in Sessions : sessions[s] = FreeSession => sessions'[s] = FreeSession
    <3>1. CASE Enqueued(j)
      <4>1. ASSUME NEW s \in Sessions, sessions[s] = FreeSession PROVE sessions'[s] = FreeSession
        <5>1. sessions'[s] = [sessions[s] EXCEPT !.inbox = sessions[s].inbox \/ sessions[s].state = "listening"]
          BY <3>1 DEF Enqueued
        <5>2. sessions[s].inbox = FALSE /\ sessions[s].state # "listening"
          BY <4>1 DEF FreeSession
        <5>3. sessions'[s] = [FreeSession EXCEPT !.inbox = FALSE]
          BY <4>1, <5>1, <5>2
        <5> QED BY <5>3 DEF FreeSession
      <4> QED BY <3>1, <4>1 DEF Enqueued
    <3>2. CASE ComesDue(j)
      BY <3>2 DEF ComesDue
    <3> QED BY <1>6, <3>1, <3>2
  <2>2. \A s \in Sessions : sessions'[s].state = sessions[s].state
    BY <1>6, <1>t DEF Enqueued, ComesDue, Session
  <2> QED BY <2>1, <2>2, <1>i DEF TimerInv
<1>7. ASSUME NEW j \in WakeJobs, JobEnds(j) \/ SettleThrows(j) PROVE TimerInv'
  <2>1. runner.phase \in {"running", "stopped"}
    BY <1>7, <1>i, <1>p DEF JobEnds, SettleThrows, TimerInv
  <2>2. \/ \E delay \in Delays : runner' = Rearmed(runner, delay)
        \/ runner' = Caught(runner)
    BY <1>7 DEF JobEnds, SettleThrows, Delays
  <2> QED BY <2>1, <2>2, <1>t, <1>a, CaughtIs, RearmedIs
<1>8. ASSUME NEW s \in Sessions, Reconnect(s) PROVE TimerInv'
  BY <1>8, <1>b, <1>o, <1>t DEF Reconnect, Session
<1>9. ASSUME NEW s \in Sessions, Connected(s) PROVE TimerInv'
  BY <1>9, <1>b, <1>o, <1>s, <1>t DEF Connected, Session, FreeSession
<1>10. ASSUME NEW s \in Sessions, SessionFails(s) PROVE TimerInv'
  BY <1>10, <1>c, <1>o, <1>s, <1>t DEF SessionFails, Session, FreeSession
<1>11. ASSUME NEW s \in Sessions, Listening(s) PROVE TimerInv'
  <2>1. runner.phase # "new"
    BY <1>11, <1>o, <1>s DEF Listening
  <2> DEFINE r == requestWake(runner)
  <2>2. r \in Runner /\ r.phase = runner.phase /\ r.at = runner.at
    BY <1>t, RequestIs
  <2>3. runner' = FirstSettled(r)
    BY <1>11 DEF Listening, GapCovered
  <2>4. CASE runner.phase = "starting"
    BY <2>2, <2>3, <2>4, <1>a, <1>i, SettledIs DEF TimerInv
  <2>5. CASE runner.phase # "starting"
    <3>1. runner' = r
      BY <2>2, <2>3, <2>5, SettledIs
    <3>2. r.at # "idle" => r.timer = "off"
      BY <2>2, <1>i, <1>t, RequestIs DEF TimerInv
    <3> HIDE DEF r
    <3> QED BY <2>1, <2>2, <2>5, <3>1, <3>2, <1>a, <1>p
  <2> QED BY <2>4, <2>5
<1>12. ASSUME NEW s \in Sessions, ListenFails(s) PROVE TimerInv'
  BY <1>12, <1>c, <1>o, <1>s, <1>t DEF ListenFails, Session
<1>13. ASSUME NEW s \in Sessions, JobHeard(s) PROVE TimerInv'
  <2>1. runner.phase \in {"running", "stopped"}
    BY <1>13, <1>i, <1>p DEF JobHeard, TimerInv
  <2>2. runner' = requestWake(runner)
    BY <1>13 DEF JobHeard
  <2>3. runner'.phase = runner.phase /\ (runner'.at # "idle" => runner'.timer = "off")
    BY <2>2, <1>i, <1>t, RequestIs DEF TimerInv
  <2> QED BY <2>1, <2>3, <1>a
<1>14. ASSUME NEW s \in Sessions, SessionLost(s) PROVE TimerInv'
  BY <1>14, <1>b, <1>o, <1>s, <1>t DEF SessionLost, Session
<1>15. ASSUME NEW s \in Sessions, LossHeard(s) PROVE TimerInv'
  BY <1>15, <1>b, <1>o, <1>s, <1>t DEF LossHeard, Session, FreeSession
<1> QED
  BY <1>0, <1>1, <1>2, <1>3, <1>4, <1>5, <1>6, <1>7, <1>8, <1>9, <1>10, <1>11, <1>12, <1>13, <1>14, <1>15
  DEF WakeNext

LEMMA OwedNext == WakeInv /\ [WakeNext]_wakeVars => NoWakeLost'
<1> SUFFICES ASSUME WakeInv, [WakeNext]_wakeVars PROVE NoWakeLost'
  OBVIOUS
<1>t. /\ wakeJobs \in [WakeJobs -> WakeJob] /\ runner \in Runner /\ sub \in Subscription
      /\ sessions \in [Sessions -> Session] /\ fresh \subseteq WakeJobs
  BY WakeTypes DEF WakeInv
<1>i. TimerInv /\ JobsInv /\ NoWakeLost
  BY DEF WakeInv
\* A step that leaves runner and jobs alone, and after which no more is heard.
<1>a. ASSUME runner' = runner, wakeJobs' = wakeJobs, fresh' = fresh,
             \A s \in Sessions : sessions'[s].state = "listening" /\ ~sessions'[s].inbox
                                   => sessions[s].state = "listening" /\ ~sessions[s].inbox
      PROVE  NoWakeLost'
  BY <1>a, <1>i DEF NoWakeLost, WakeOwed, Hears, Due
\* A step after which the runner looks again at once.
<1>b. ASSUME runner'.phase = "running" => WakeOwed' PROVE NoWakeLost'
  BY <1>b DEF NoWakeLost
\* The first connect is settled.
<1>c. ASSUME runner' = FirstSettled(runner), wakeJobs' = wakeJobs, fresh' = fresh,
             \A s \in Sessions : sessions'[s].state = "listening" /\ ~sessions'[s].inbox
                                   => sessions[s].state = "listening" /\ ~sessions[s].inbox
      PROVE  NoWakeLost'
  <2>1. CASE runner.phase = "starting"
    BY <2>1, <1>b, <1>c, <1>t, SettledIs DEF WakeOwed
  <2>2. CASE runner.phase # "starting"
    BY <2>2, <1>a, <1>c, <1>t, SettledIs
  <2> QED BY <2>1, <2>2
\* A notification was heard, or a LISTEN answered.
<1>d. ASSUME NEW r \in Runner, r = requestWake(runner), r.phase = "running" PROVE r.timer = "now" \/ (r.wakeRequested /\ r.at # "idle")
  BY <1>d, <1>t, RequestIs DEF RunnerStopped
<1>0. CASE UNCHANGED wakeVars
  BY <1>0, <1>a DEF wakeVars
<1>1. CASE StartRunner \/ StopRunner
  <2>1. runner'.phase # "running"
    BY <1>1, <1>t DEF StartRunner, StopRunner, Runner
  <2> QED BY <2>1 DEF NoWakeLost
<1>2. CASE Wake
  BY <1>2 DEF Wake, NoWakeLost
<1>3. CASE ClaimAnswered
  <2>1. CASE runner' = [runner EXCEPT !.at = "working"] /\ fresh' \subseteq fresh
             /\ \E j \in WakeJobs : /\ wakeJobs' = [wakeJobs EXCEPT ![j] = [status |-> "running", tries |-> @.tries + 1]]
    <3>1. /\ runner'.phase = runner.phase /\ runner'.timer = runner.timer /\ runner'.at # "idle"
          /\ runner'.wakeRequested = runner.wakeRequested /\ runner'.threw = runner.threw
      BY <2>1, <1>t DEF Runner
    <3>2. Due' \subseteq Due
      BY <2>1, <1>t DEF Due
    <3>3. Hears' <=> Hears
      BY <1>3 DEF ClaimAnswered, Hears
    <3> QED BY <2>1, <3>1, <3>2, <3>3, <1>i DEF NoWakeLost, WakeOwed
  <2>2. CASE Due = {} /\ UNCHANGED <<wakeJobs, fresh>>
    BY <2>2 DEF NoWakeLost, Due
  <2> QED BY <1>3, <2>1, <2>2 DEF ClaimAnswered, Due
<1>4. CASE ClaimThrows
  <2>1. runner' = Caught(runner)
    BY <1>4 DEF ClaimThrows
  <2>2. runner'.phase = "running" => runner'.threw /\ runner'.timer = "poll"
    BY <2>1, <1>t, CaughtIs DEF RunnerStopped
  <2> QED BY <2>2, <1>b DEF WakeOwed
<1>5. ASSUME NEW j \in WakeJobs, Enqueued(j) PROVE NoWakeLost'
  <2>1. \A s \in Sessions : sessions'[s].state = "listening" => sessions'[s].inbox
    BY <1>5, <1>t DEF Enqueued, Session
  <2> QED BY <2>1 DEF NoWakeLost, Hears
<1>6. ASSUME NEW j \in WakeJobs, ComesDue(j) PROVE NoWakeLost'
  <2>1. j \notin fresh
    BY <1>6, <1>i DEF JobsInv, ComesDue
  <2>2. fresh' = fresh /\ runner' = runner /\ sessions' = sessions /\ Due' \subseteq Due \cup {j}
    BY <1>6, <1>t DEF ComesDue, Due
  <2> QED BY <2>1, <2>2, <1>i DEF NoWakeLost, WakeOwed, Hears
<1>7. ASSUME NEW j \in WakeJobs, JobEnds(j) PROVE NoWakeLost'
  <2>1. PICK delay \in Delays : runner' = Rearmed(runner, delay)
    BY <1>7 DEF JobEnds, Delays
  <2>2. runner.at = "working" /\ runner.timer = "off"
    BY <1>7, <1>i DEF JobEnds, TimerInv
  <2>3. runner'.phase = runner.phase /\ (runner.phase = "running" /\ runner.wakeRequested => runner'.timer = "now")
    BY <2>1, <1>t, RearmedIs
  <2>4. fresh' = fresh /\ sessions' = sessions /\ Due' \subseteq Due
    <3>1. fresh' = fresh /\ sessions' = sessions
      BY <1>7 DEF JobEnds
    <3>2. PICK n \in {"done", "later"} : wakeJobs' = [wakeJobs EXCEPT ![j].status = n]
      BY <1>7 DEF JobEnds
    <3>3. ASSUME NEW i \in WakeJobs, wakeJobs'[i].status = "due" PROVE wakeJobs[i].status = "due"
      BY <1>t, <3>2, <3>3 DEF WakeJob
    <3> QED BY <3>1, <3>3 DEF Due
  <2> QED BY <2>2, <2>3, <2>4, <1>i DEF NoWakeLost, WakeOwed, Hears
<1>8. ASSUME NEW j \in WakeJobs, SettleThrows(j) PROVE NoWakeLost'
  <2>1. runner' = Caught(runner)
    BY <1>8 DEF SettleThrows
  <2>2. runner'.phase = "running" => runner'.threw /\ runner'.timer = "poll"
    BY <2>1, <1>t, CaughtIs DEF RunnerStopped
  <2> QED BY <2>2, <1>b DEF WakeOwed
<1>9. ASSUME NEW s \in Sessions, Reconnect(s) \/ Connected(s) PROVE NoWakeLost'
  BY <1>9, <1>a, <1>t DEF Reconnect, Connected, Session, FreeSession
<1>10. ASSUME NEW s \in Sessions, SessionFails(s) PROVE NoWakeLost'
  BY <1>10, <1>c, <1>t DEF SessionFails, Session, FreeSession
<1>11. ASSUME NEW s \in Sessions, Listening(s) PROVE NoWakeLost'
  <2> DEFINE r == requestWake(runner)
  <2>1. r \in Runner /\ r.phase = runner.phase /\ runner' = FirstSettled(r)
    BY <1>11, <1>t, RequestIs DEF Listening, GapCovered
  <2>2. CASE r.phase = "starting"
    BY <2>1, <2>2, <1>b, SettledIs DEF WakeOwed
  <2>3. CASE r.phase # "starting"
    BY <2>1, <2>3, <1>b, <1>d, SettledIs DEF WakeOwed
  <2> QED BY <2>2, <2>3
<1>12. ASSUME NEW s \in Sessions, ListenFails(s) PROVE NoWakeLost'
  BY <1>12, <1>c, <1>t DEF ListenFails, Session
<1>13. ASSUME NEW s \in Sessions, JobHeard(s) PROVE NoWakeLost'
  <2>1. runner' = requestWake(runner) /\ requestWake(runner) \in Runner
    BY <1>13, <1>t, RequestIs DEF JobHeard
  <2> QED BY <2>1, <1>b, <1>d DEF WakeOwed
<1>14. ASSUME NEW s \in Sessions, SessionLost(s) PROVE NoWakeLost'
  BY <1>14, <1>a, <1>t DEF SessionLost, Session
<1>15. ASSUME NEW s \in Sessions, LossHeard(s) PROVE NoWakeLost'
  BY <1>15, <1>a, <1>t DEF LossHeard, Session, FreeSession
<1> QED
  BY <1>0, <1>1, <1>2, <1>3, <1>4, <1>5, <1>6, <1>7, <1>8, <1>9, <1>10, <1>11, <1>12, <1>13, <1>14, <1>15
  DEF WakeNext

LEMMA WakeInvNext == WakeInv /\ [WakeNext]_wakeVars => WakeInv'
BY WakeTypeNext, JobsNext, TimerNext, OwedNext DEF WakeInv

LEMMA WakeInvHolds == WakeSpec => []WakeInv
BY WakeInvInit, WakeInvNext, PTL DEF WakeSpec

\* Runner, subscription, sessions and jobs keep their types, for any number of
\* jobs, sessions, attempts and faults (worker-job-runner.ts).
THEOREM WakeTyped == WakeSpec => []WakeTypeOK
<1> QED BY WakeInvHolds, PTL DEF WakeInv

\* No notification is lost on a worker that hears the channel: the half of
\* JobsAreTaken that speaks of every state.
THEOREM WakeIsOwed == WakeSpec => []NoWakeLost
<1> QED BY WakeInvHolds, PTL DEF WakeInv

----------------------------------------------------------------------------
(* QuotaProbe.  The requests a probe makes of its provider. *)
RequestsOf(dialect) ==
  CASE dialect = "grok" -> {"credits", "monthly"}
    [] dialect = "fireworks" -> {"accounts", "quotas"}
    [] dialect = "zai" -> {"bearer", "raw"}
    [] OTHER -> {FirstRequest(dialect)}

Probed == AllDialects \ {"none", "separate"}

\* What is used of a window, as a probe of the dialect is to report it.
Reported(dialect, used) == {IF dialect = "grok" THEN Clamped(u) ELSE u : u \in used}

LEMMA WholeIs == Whole \in Nat /\ Whole > 0
BY QuotaAssumption

LEMMA DivMul ==
  ASSUME NEW u \in Nat
  PROVE  (u * Whole) \div Whole = u
BY WholeIs

LEMMA OrIs == \A v, default : Or({v}, default) = v /\ Or({}, default) = default
BY DEF Or

\* What each parser makes of the fields that state a share of u, or none.
LEMMA RemainingIs ==
  ASSUME NEW u \in 0..Whole
  PROVE  {Whole - v : v \in {Whole - x : x \in {u}}} = {u}
<1>1. Whole - u \in Nat /\ Whole - (Whole - u) = u
  BY WholeIs
<1>2. {Whole - x : x \in {u}} = {Whole - u}
  OBVIOUS
<1>3. {Whole - v : v \in {Whole - u}} = {Whole - (Whole - u)}
  OBVIOUS
<1> QED BY <1>1, <1>2, <1>3

LEMMA ShareStated ==
  ASSUME NEW dialect \in Probed, NEW request \in RequestsOf(dialect), request # "accounts",
         NEW w \in WindowsOf(request), NEW meters \in Meters(request)
  PROVE  /\ meters[w] \subseteq 0..(Whole + 1)
         /\ Share(dialect, request, Wire(dialect, w, meters[w])) = Reported(dialect, meters[w])
<1> DEFINE used == meters[w]
<1>w. Whole \in Nat /\ Whole > 0
  BY WholeIs
<1>1. /\ used = {} \/ \E u \in 0..(Whole + 1) : used = {u}
      /\ request = "credits" => used # {}
      /\ request \in {"left", "plan", "balance"} => used \subseteq 0..Whole
  BY <1>w DEF Meters
<1>2. used \subseteq 0..(Whole + 1)
  BY <1>1
<1>r. /\ dialect \in {"used", "zai", "balance"} => ~(dialect = "grok")
      /\ dialect # "grok" => Reported(dialect, used) = used
  BY DEF Reported
<1>d. dialect \in {"used", "zai", "remaining", "plan", "ratio", "fireworks", "grok", "balance"}
  BY DEF Probed, AllDialects
<1>q. /\ dialect = "grok" => request \in {"credits", "monthly"}
      /\ dialect = "fireworks" => request = "quotas"
      /\ dialect = "plan" => request = "plan"
      /\ dialect \in {"remaining", "ratio"} => request = "left"
  BY DEF RequestsOf, FirstRequest
<1> HIDE DEF used
<1>3. CASE dialect \in {"used", "zai", "balance"}
  <2>1. Wire(dialect, w, used) = Stated(used, {}, TRUE)
    BY <1>3 DEF Wire
  <2>2. Share(dialect, request, Stated(used, {}, TRUE)) = used
    BY <1>3 DEF Share, UsedShare, BalanceTotal, Stated
  <2> QED BY <1>2, <1>3, <1>r, <2>1, <2>2 DEF used
<1>l. ASSUME request \in {"left", "plan", "balance"} PROVE {Whole - v : v \in {Whole - x : x \in used}} = used
  <2>1. CASE used = {}
    BY <2>1
  <2>2. CASE used # {}
    BY <1>1, <1>l, <2>2, RemainingIs
  <2> QED BY <2>1, <2>2
<1>4. CASE dialect = "remaining"
  <2>1. Wire(dialect, w, used) = Stated({Whole - u : u \in used}, {}, TRUE)
    BY <1>4 DEF Wire
  <2>2. Share(dialect, request, Stated({Whole - u : u \in used}, {}, TRUE)) = {Whole - v : v \in {Whole - x : x \in used}}
    BY <1>4 DEF Share, RemainingShare, Stated
  <2> QED BY <1>2, <1>4, <1>q, <1>r, <1>l, <2>1, <2>2 DEF used
<1>5. CASE dialect = "plan"
  <2>1. w \in {"short", "long"}
    BY <1>5, <1>q DEF WindowsOf
  <2>2. CASE w = "short"
    <3>1. Wire(dialect, w, used) = Stated({Whole - u : u \in used}, {}, TRUE)
      BY <1>5, <2>2 DEF Wire
    <3>2. Share(dialect, request, Stated({Whole - u : u \in used}, {}, TRUE)) = {Whole - v : v \in {Whole - x : x \in used}}
      BY <1>5 DEF Share, PlanShare, RemainingShare, Stated
    <3> QED BY <1>2, <1>5, <1>q, <1>r, <1>l, <3>1, <3>2 DEF used
  <2>3. CASE w = "long" /\ used = {}
    <3>1. Wire(dialect, w, used) = Stated({Whole}, {}, FALSE)
      BY <1>5, <2>3 DEF Wire
    <3>2. Share(dialect, request, Stated({Whole}, {}, FALSE)) = {}
      BY <1>5 DEF Share, PlanShare, Stated
    <3> QED BY <1>2, <1>5, <1>r, <2>3, <3>1, <3>2 DEF used
  <2>4. CASE w = "long" /\ used # {}
    <3>1. Wire(dialect, w, used) = Stated({Whole - u : u \in used}, {}, TRUE)
      BY <1>5, <2>4 DEF Wire
    <3>2. Share(dialect, request, Stated({Whole - u : u \in used}, {}, TRUE)) = {Whole - v : v \in {Whole - x : x \in used}}
      BY <1>5 DEF Share, PlanShare, RemainingShare, Stated
    <3> QED BY <1>2, <1>5, <1>q, <1>r, <1>l, <3>1, <3>2 DEF used
  <2> QED BY <2>1, <2>2, <2>3, <2>4
<1>6. CASE dialect = "ratio"
  <2>1. CASE used = {}
    <3>1. Wire(dialect, w, used) = Stated({}, {0}, TRUE)
      BY <1>6, <2>1 DEF Wire
    <3>2. Share(dialect, request, Stated({}, {0}, TRUE)) = {}
      BY <1>6 DEF Share, RatioShare, Stated
    <3> QED BY <1>2, <1>6, <1>r, <2>1, <3>1, <3>2 DEF used
  <2>2. ASSUME NEW u \in 0..Whole, used = {u}
        PROVE  Share(dialect, request, Wire(dialect, w, used)) = used
    <3>1. Wire(dialect, w, used) = Stated({Whole - u}, {Whole}, TRUE)
      BY <1>6, <2>2 DEF Wire
    <3> DEFINE f == Stated({Whole - u}, {Whole}, TRUE)
    <3>2. f.limit \ {0} = {Whole} /\ f.amount = {Whole - u}
      BY <1>w DEF Stated
    <3>3. Share(dialect, request, f) = RatioShare(f)
      BY <1>6 DEF Share
    <3> HIDE DEF f
    <3>4. \A x : x \in RatioShare(f) <=> x = ((Whole - (Whole - u)) * Whole) \div Whole
      BY <3>2 DEF RatioShare
    <3>5. Whole - (Whole - u) = u /\ u \in Nat
      BY <1>w
    <3>6. ((Whole - (Whole - u)) * Whole) \div Whole = u
      BY <3>5, DivMul
    <3>7. RatioShare(f) = {u}
      BY <3>4, <3>6
    <3> QED BY <2>2, <3>1, <3>3, <3>7 DEF f
  <2>3. used = {} \/ \E u \in 0..Whole : used = {u}
    BY <1>1, <1>6, <1>q
  <2> QED BY <1>2, <1>6, <1>r, <2>1, <2>2, <2>3 DEF used
<1>7. CASE dialect = "fireworks"
  <2>1. CASE used = {}
    <3>1. Wire(dialect, w, used) = Stated({}, {0}, TRUE)
      BY <1>7, <2>1 DEF Wire
    <3>2. Share(dialect, request, Stated({}, {0}, TRUE)) = {}
      BY <1>7 DEF Share, BudgetShare, Stated
    <3> QED BY <1>2, <1>7, <1>r, <2>1, <3>1, <3>2 DEF used
  <2>2. ASSUME NEW u \in 0..(Whole + 1), used = {u}
        PROVE  Share(dialect, request, Wire(dialect, w, used)) = used
    <3>1. Wire(dialect, w, used) = Stated({u}, {Whole}, TRUE)
      BY <1>7, <2>2 DEF Wire
    <3> DEFINE f == Stated({u}, {Whole}, TRUE)
    <3>2. f.limit \ {0} = {Whole} /\ f.amount = {u}
      BY <1>w DEF Stated
    <3>3. Share(dialect, request, f) = BudgetShare(f)
      BY <1>7 DEF Share
    <3> HIDE DEF f
    <3>4. \A x : x \in BudgetShare(f) <=> x = (u * Whole) \div Whole
      BY <3>2 DEF BudgetShare
    <3>5. (u * Whole) \div Whole = u
      BY <1>w, DivMul
    <3>6. BudgetShare(f) = {u}
      BY <3>4, <3>5
    <3> QED BY <2>2, <3>1, <3>3, <3>6 DEF f
  <2> QED BY <1>1, <1>2, <1>7, <1>r, <2>1, <2>2 DEF used
<1>8. CASE dialect = "grok"
  <2>1. \A u \in Nat : Or({u} \ {0}, 0) = u
    <3> SUFFICES ASSUME NEW u \in Nat PROVE Or({u} \ {0}, 0) = u
      OBVIOUS
    <3>1. CASE u = 0
      <4>1. {u} \ {0} = {}
        BY <3>1
      <4> QED BY <3>1, <4>1, OrIs
    <3>2. CASE u # 0
      <4>1. {u} \ {0} = {u}
        BY <3>2
      <4> QED BY <4>1, OrIs
    <3> QED BY <3>1, <3>2
  <2>2. Wire(dialect, w, used) = Stated(used \ {0}, (IF used = {} THEN {0} ELSE {Whole}) \ {0}, TRUE)
    BY <1>8 DEF Wire
  <2>3. \A u \in 0..(Whole + 1) : Reported(dialect, {u}) = {Clamped(u)}
    BY <1>8 DEF Reported
  <2>4. CASE request = "credits"
    <3>1. PICK u \in 0..(Whole + 1) : used = {u}
      BY <1>1, <2>4
    <3> DEFINE f == Wire(dialect, w, used)
    <3>2. Share(dialect, request, f) = {Clamped(Or({u} \ {0}, 0))}
      <4>1. f.amount = {u} \ {0}
        BY <2>2, <3>1 DEF Stated
      <4>2. Share(dialect, request, f) = CreditsShare(f)
        BY <1>8, <2>4 DEF Share
      <4> HIDE DEF f
      <4> QED BY <4>1, <4>2 DEF CreditsShare
    <3>3. u \in Nat
      BY <1>w
    <3> QED BY <1>2, <2>1, <2>3, <3>1, <3>2, <3>3 DEF used
  <2>5. CASE request = "monthly" /\ used = {}
    <3> DEFINE f == Wire(dialect, w, used)
    <3>1. f.limit = {0} \ {0}
      BY <2>2, <2>5 DEF Stated
    <3>2. Share(dialect, request, f) = MonthlyShare(f)
      BY <1>8, <2>5 DEF Share
    <3>3. Share(dialect, request, f) = {}
      <4>1. Or(f.limit, 0) = 0
        BY <2>1, <3>1
      <4> HIDE DEF f
      <4> QED BY <3>2, <4>1 DEF MonthlyShare
    <3>4. Reported(dialect, used) = {}
      BY <2>5 DEF Reported
    <3> QED BY <1>2, <3>3, <3>4 DEF used
  <2>6. CASE request = "monthly" /\ used # {}
    <3>1. PICK u \in 0..(Whole + 1) : used = {u}
      BY <1>1, <2>6
    <3> DEFINE f == Wire(dialect, w, used)
    <3>2. f.amount = {u} \ {0} /\ f.limit = {Whole}
      <4>1. {Whole} \ {0} = {Whole}
        BY <1>w
      <4> QED BY <2>2, <2>6, <3>1, <4>1 DEF Stated
    <3>3. Share(dialect, request, f) = MonthlyShare(f)
      BY <1>8, <2>6 DEF Share
    <3>4. Or(f.amount, 0) = u /\ u \in Nat /\ Or(f.limit, 0) = Whole
      BY <1>w, <2>1, <3>2, OrIs
    <3> HIDE DEF f
    <3>5. \A x : x \in MonthlyShare(f) <=> x = Clamped((u * Whole) \div Whole)
      BY <1>w, <3>4 DEF MonthlyShare
    <3>6. MonthlyShare(f) = {Clamped(u)}
      BY <3>4, <3>5, DivMul
    <3> QED BY <1>2, <2>3, <3>1, <3>3, <3>6 DEF f, used
  <2> QED BY <1>8, <1>q, <2>4, <2>5, <2>6
<1> QED BY <1>3, <1>4, <1>5, <1>6, <1>7, <1>8, <1>d

\* The entries a probe reads are those the provider meant.
LEMMA EntriesAreMeant ==
  ASSUME NEW dialect \in Probed, NEW request \in RequestsOf(dialect), request # "accounts",
         NEW meters \in Meters(request)
  PROVE  EntriesOf(dialect, request, meters) = Meant(dialect, meters) /\ Meant(dialect, meters) \subseteq Entry
<1>1. DOMAIN meters = WindowsOf(request) /\ WindowsOf(request) \subseteq {"short", "long", "balance"}
  BY DEF Meters, WindowsOf
<1>2. \A w \in WindowsOf(request) :
        /\ meters[w] \subseteq 0..(Whole + 1)
        /\ Share(dialect, request, Wire(dialect, w, meters[w])) = Reported(dialect, meters[w])
  BY ShareStated
<1>3. \A e : e \in EntriesOf(dialect, request, meters)
               <=> \E w \in WindowsOf(request) : \E s \in Reported(dialect, meters[w]) : e = [window |-> w, share |-> s]
  <2>1. \A e : e \in EntriesOf(dialect, request, meters)
                 <=> \E w \in WindowsOf(request) : \E s \in Share(dialect, request, Wire(dialect, w, meters[w])) :
                       e = [window |-> w, share |-> s]
    BY <1>1 DEF EntriesOf
  <2> QED BY <1>2, <2>1
<1>4. \A e : e \in Meant(dialect, meters)
               <=> \E w \in WindowsOf(request) : \E u \in meters[w] :
                     e = [window |-> w, share |-> IF dialect = "grok" THEN Clamped(u) ELSE u]
  BY <1>1 DEF Meant
<1>5. \A w \in WindowsOf(request) : \A s : s \in Reported(dialect, meters[w])
        <=> \E u \in meters[w] : s = IF dialect = "grok" THEN Clamped(u) ELSE u
  BY DEF Reported
<1>6. EntriesOf(dialect, request, meters) = Meant(dialect, meters)
  <2>1. ASSUME NEW e \in EntriesOf(dialect, request, meters) PROVE e \in Meant(dialect, meters)
    <3>1. PICK w \in WindowsOf(request) : \E s \in Reported(dialect, meters[w]) : e = [window |-> w, share |-> s]
      BY <1>3
    <3>2. PICK s \in Reported(dialect, meters[w]) : e = [window |-> w, share |-> s]
      BY <3>1
    <3>3. PICK u \in meters[w] : s = IF dialect = "grok" THEN Clamped(u) ELSE u
      BY <1>5
    <3> QED BY <1>4, <3>2, <3>3
  <2>2. ASSUME NEW e \in Meant(dialect, meters) PROVE e \in EntriesOf(dialect, request, meters)
    <3> DEFINE value(u) == IF dialect = "grok" THEN Clamped(u) ELSE u
    <3>1. PICK w \in WindowsOf(request) : \E u \in meters[w] : e = [window |-> w, share |-> value(u)]
      BY <1>4
    <3>2. PICK u \in meters[w] : e = [window |-> w, share |-> value(u)]
      BY <3>1
    <3>3. value(u) \in Reported(dialect, meters[w])
      BY <1>5
    <3> HIDE DEF value
    <3> QED BY <1>3, <3>2, <3>3
  <2> QED BY <2>1, <2>2
<1>7. \A u \in 0..(Whole + 1) : (IF dialect = "grok" THEN Clamped(u) ELSE u) \in 0..(Whole + 1)
  BY WholeIs DEF Clamped
<1>8. Meant(dialect, meters) \subseteq Entry
  BY <1>1, <1>2, <1>4, <1>7 DEF Entry
<1> QED BY <1>6, <1>8

\* A run of the probe, and the row it writes.
Asking == [pc : {"idle", "reading", "calling", "persisting"}, request : {"none"} \cup RequestsOf(target.dialect),
           entries : SUBSET Entry, error : QuotaErrors, ok : BOOLEAN, meant : SUBSET Entry,
           rejected : SUBSET Schemes(target.dialect)]
Row == [entries : SUBSET Entry, error : QuotaErrors, due : Nat, meant : SUBSET Entry, rejected : SUBSET {"bearer", "raw"}]

\* Until it ends a run reports all that was meant, and then all or nothing; it is
\* refused with the second scheme only after the first, and ends with a rejected
\* credential when every scheme was.
GoodRun(a) ==
  /\ a.pc # "persisting" => a.error = "none"
  /\ a.pc = "calling" => /\ target.dialect \in Probed /\ a.request # "none"
                         /\ a.request = "raw" => "bearer" \in a.rejected
  /\ a.entries = IF a.error = "none" THEN a.meant ELSE {}
  /\ a.error = "unauthorized" => a.rejected = Schemes(target.dialect)

GoodRow(row) ==
  /\ row \in Row /\ row.due <= QuotaDelay[row.error]
  /\ row.entries = IF row.error = "none" THEN row.meant ELSE {}
  /\ row.error = "unauthorized" => row.rejected = Schemes(target.dialect)

QuotaInv ==
  /\ target \in [dialect : Dialects, enabled : BOOLEAN, probing : BOOLEAN]
  /\ summary = {} \/ \E row \in Row : summary = {row} /\ GoodRow(row)
  /\ scanned \in BOOLEAN
  /\ quotaJob \in [status : {"none", "pending", "running"}, tries : 0..QuotaTries]
  /\ quotaJob.status = "pending" => quotaJob.tries < QuotaTries
  /\ asking \in Asking /\ GoodRun(asking)
  /\ asking.pc # "idle" <=> quotaJob.status = "running"

LEMMA QuotaNumbers ==
  /\ QuotaTries \in Nat /\ QuotaTries > 0
  /\ \A e \in QuotaErrors : QuotaDelay[e] \in Nat /\ QuotaDelay[e] > 0
  /\ {"none", "unauthorized", "probe_failed", "not_supported", "requires_separate_credential"} = QuotaErrors
BY QuotaAssumption DEF QuotaErrors

LEMMA NotAskingIs == NotAsking \in Asking /\ GoodRun(NotAsking) /\ NotAsking.pc = "idle"
BY DEF NotAsking, Asking, GoodRun, QuotaErrors

LEMMA QuotaInvInit == QuotaInit => QuotaInv
<1> SUFFICES ASSUME QuotaInit PROVE QuotaInv
  OBVIOUS
<1>1. asking \in Asking /\ GoodRun(asking) /\ asking.pc = "idle"
  BY NotAskingIs DEF QuotaInit
<1>2. target \in [dialect : Dialects, enabled : BOOLEAN, probing : BOOLEAN] /\ summary = {} /\ scanned = FALSE
  BY DEF QuotaInit
<1>3. quotaJob = [status |-> "none", tries |-> 0]
  BY DEF QuotaInit
<1>4. quotaJob \in [status : {"none", "pending", "running"}, tries : 0..QuotaTries] /\ quotaJob.status = "none"
  BY <1>3, QuotaNumbers
<1> QED BY <1>1, <1>2, <1>4 DEF QuotaInv

\* A run goes on while everything else stays.
LEMMA RunMoves ==
  ASSUME QuotaInv, UNCHANGED <<target, summary, scanned, quotaJob>>,
         asking.pc # "idle", asking'.pc # "idle", asking' \in Asking, GoodRun(asking')
  PROVE  QuotaInv'
<1>1. Asking' = Asking /\ GoodRun(asking)' = GoodRun(asking') /\ \A row : GoodRow(row)' = GoodRow(row)
  BY DEF Asking, GoodRun, GoodRow
<1> QED BY <1>1 DEF QuotaInv

\* A run ends with nothing to report.
LEMMA RunEndsWith ==
  ASSUME QuotaInv, UNCHANGED <<target, summary, scanned, quotaJob>>, asking.pc # "idle",
         NEW error \in QuotaErrors \ {"none", "unauthorized"}, Ends(error)
  PROVE  QuotaInv'
<1>1. asking \in Asking
  BY DEF QuotaInv
<1>2. asking' = [asking EXCEPT !.pc = "persisting", !.error = error, !.entries = {}]
  BY DEF Ends
<1>3. asking' \in Asking
  BY <1>1, <1>2 DEF Asking
<1>4. asking'.pc = "persisting" /\ asking'.error = error /\ asking'.entries = {}
  BY <1>1, <1>2 DEF Asking
<1>5. GoodRun(asking')
  BY <1>4 DEF GoodRun
<1> QED BY <1>3, <1>4, <1>5, RunMoves

LEMMA RefusedKeeps ==
  ASSUME QuotaInv, asking.pc = "calling", UNCHANGED <<target, summary, scanned, quotaJob>>,
         NEW status \in {401, 403, 500}, AnswerRefused(status)
  PROVE  QuotaInv'
<1> DEFINE d == target.dialect
           tried == IF status \in {401, 403} THEN asking.rejected \cup {Scheme(asking.request)} ELSE asking.rejected
           a == [asking EXCEPT !.rejected = tried]
           ended(error) == [a EXCEPT !.pc = "persisting", !.error = error, !.entries = {}]
<1>1. /\ asking \in Asking /\ d \in Probed /\ asking.error = "none" /\ asking.entries = asking.meant
      /\ asking.request \in RequestsOf(d) /\ (asking.request = "raw" => "bearer" \in asking.rejected)
      /\ asking.rejected \subseteq Schemes(d)
  BY DEF QuotaInv, GoodRun, Asking
<1>2. Scheme(asking.request) \in Schemes(d) /\ (asking.request = "raw" => d = "zai")
  BY <1>1 DEF Scheme, Schemes, RequestsOf, FirstRequest
<1>3. tried \subseteq Schemes(d) /\ asking.rejected \subseteq tried
  BY <1>1, <1>2
<1>4. /\ a \in Asking /\ a.pc = "calling" /\ a.error = "none" /\ a.entries = a.meant /\ a.rejected = tried
      /\ a.request = asking.request
  BY <1>1, <1>3 DEF Asking
<1>5. ASSUME NEW error \in QuotaErrors, error # "none", asking' = ended(error),
             error = "unauthorized" => tried = Schemes(d)
      PROVE  QuotaInv'
  <2>1. /\ ended(error) \in Asking /\ ended(error).pc = "persisting" /\ ended(error).error = error
        /\ ended(error).entries = {} /\ ended(error).rejected = tried
    <3> HIDE DEF a, tried
    <3> QED BY <1>4 DEF Asking
  <2>2. GoodRun(ended(error))
    <3> HIDE DEF ended, tried
    <3> QED BY <1>5, <2>1 DEF GoodRun, d
  <2> HIDE DEF ended
  <2> QED BY <1>5, <2>1, <2>2, RunMoves
<1>6. ASSUME NEW request \in RequestsOf(d), asking' = [a EXCEPT !.request = request],
             request = "raw" => "bearer" \in tried, request # "none"
      PROVE  QuotaInv'
  <2> DEFINE n == [a EXCEPT !.request = request]
  <2>1. /\ n \in Asking /\ n.pc = "calling" /\ n.error = "none" /\ n.entries = n.meant /\ n.rejected = tried
        /\ n.request = request
    <3> HIDE DEF a, tried
    <3> QED BY <1>4 DEF Asking
  <2>2. GoodRun(n)
    <3> HIDE DEF n, tried
    <3> QED BY <1>1, <1>6, <2>1 DEF GoodRun, d
  <2> HIDE DEF n
  <2> QED BY <1>6, <2>1, <2>2, RunMoves DEF n
<1>7. {"unauthorized", "probe_failed", "none"} \subseteq QuotaErrors
  BY QuotaNumbers
<1>8. CASE d = "zai" /\ asking.request = "bearer" /\ status \in {401, 403}
  <2>1. asking' = [a EXCEPT !.request = "raw"]
    BY <1>8 DEF AnswerRefused
  <2>2. "raw" \in RequestsOf(d) /\ "bearer" \in tried
    BY <1>8 DEF RequestsOf, Scheme
  <2> HIDE DEF a, tried, d
  <2> QED BY <1>6, <2>1, <2>2
<1>9. CASE d = "grok" /\ status = 401
  <2>1. asking' = ended("unauthorized")
    BY <1>9 DEF AnswerRefused
  <2>2. tried = Schemes(d)
    BY <1>2, <1>3, <1>9 DEF Schemes
  <2> HIDE DEF ended, tried, d
  <2> QED BY <1>5, <1>7, <2>1, <2>2
<1>10. CASE d = "grok" /\ status # 401 /\ asking.request = "credits"
  <2>1. asking' = [a EXCEPT !.request = "monthly"]
    BY <1>10 DEF AnswerRefused
  <2>2. "monthly" \in RequestsOf(d)
    BY <1>10 DEF RequestsOf
  <2> HIDE DEF a, tried, d
  <2> QED BY <1>6, <2>1, <2>2
<1>11. CASE d = "grok" /\ status # 401 /\ asking.request = "monthly" /\ asking.ok
  <2> DEFINE n == [a EXCEPT !.pc = "persisting"]
  <2>1. asking' = n
    BY <1>11 DEF AnswerRefused
  <2>2. /\ n \in Asking /\ n.pc = "persisting" /\ n.error = "none" /\ n.entries = n.meant
    <3> HIDE DEF a, tried
    <3> QED BY <1>4 DEF Asking
  <2>3. GoodRun(n)
    <3> HIDE DEF n
    <3> QED BY <2>2 DEF GoodRun
  <2> HIDE DEF n
  <2> QED BY <2>1, <2>2, <2>3, RunMoves
<1>12. CASE d = "grok" /\ status # 401 /\ asking.request = "monthly" /\ ~asking.ok
  <2>1. asking' = ended("probe_failed")
    BY <1>12 DEF AnswerRefused
  <2> HIDE DEF ended, tried, d
  <2> QED BY <1>5, <1>7, <2>1
<1>13. CASE d # "grok" /\ ~(d = "zai" /\ asking.request = "bearer" /\ status \in {401, 403})
  <2>1. asking' = ended(ErrorOf(status))
    BY <1>13 DEF AnswerRefused
  <2>2. ErrorOf(status) \in QuotaErrors /\ ErrorOf(status) # "none"
    BY <1>7 DEF ErrorOf
  <2>3. ASSUME ErrorOf(status) = "unauthorized" PROVE tried = Schemes(d)
    <3>1. status \in {401, 403}
      BY <2>3 DEF ErrorOf
    <3>2. CASE d = "zai"
      <4>1. asking.request = "raw"
        BY <1>1, <1>13, <3>1, <3>2 DEF RequestsOf
      <4> QED BY <1>1, <3>1, <3>2, <4>1 DEF Scheme, Schemes
    <3>3. CASE d # "zai"
      <4>1. Schemes(d) = {"bearer"} /\ Scheme(asking.request) \in tried
        BY <3>1, <3>3 DEF Schemes
      <4> QED BY <1>2, <1>3, <4>1
    <3> QED BY <3>2, <3>3
  <2> HIDE DEF ended, tried, d
  <2> QED BY <1>5, <2>1, <2>2, <2>3
<1>14. d = "grok" => asking.request \in {"credits", "monthly"}
  BY <1>1 DEF RequestsOf
<1> QED BY <1>8, <1>9, <1>10, <1>11, <1>12, <1>13, <1>14

LEMMA ReadKeepsRun ==
  ASSUME QuotaInv, asking.pc = "calling", UNCHANGED <<target, summary, scanned, quotaJob>>, AnswerRead
  PROVE  QuotaInv'
<1> DEFINE d == target.dialect
<1>1. /\ asking \in Asking /\ d \in Probed /\ asking.error = "none" /\ asking.entries = asking.meant
      /\ asking.request \in RequestsOf(d) /\ (asking.request = "raw" => "bearer" \in asking.rejected)
  BY DEF QuotaInv, GoodRun, Asking
<1>2. "probe_failed" \in QuotaErrors
  BY QuotaNumbers
<1>3. CASE Ends("probe_failed")
  BY <1>2, <1>3, RunEndsWith
<1>4. CASE asking.request = "accounts" /\ Requests("quotas")
  <2>1. asking' = [asking EXCEPT !.request = "quotas"]
    BY <1>4 DEF Requests
  <2>2. "quotas" \in RequestsOf(d)
    BY <1>1, <1>4 DEF RequestsOf, FirstRequest
  <2>3. /\ asking' \in Asking /\ asking'.pc = "calling" /\ asking'.error = "none" /\ asking'.entries = asking'.meant
        /\ asking'.request = "quotas"
    <3> HIDE DEF d
    <3> QED BY <1>1, <2>1, <2>2 DEF Asking, d
  <2>4. GoodRun(asking')
    BY <1>1, <2>3 DEF GoodRun
  <2> QED BY <2>3, <2>4, RunMoves
<1>5. ASSUME asking.request # "accounts", NEW meters \in Meters(asking.request),
             asking' = [asking EXCEPT
               !.entries = @ \cup EntriesOf(target.dialect, asking.request, meters),
               !.meant = @ \cup Meant(target.dialect, meters), !.ok = TRUE,
               !.request = IF @ = "credits" THEN "monthly" ELSE @,
               !.pc = IF asking.request = "credits" THEN "calling" ELSE "persisting"]
      PROVE  QuotaInv'
  <2> DEFINE more == Meant(d, meters)
             request == IF asking.request = "credits" THEN "monthly" ELSE asking.request
             pc == IF asking.request = "credits" THEN "calling" ELSE "persisting"
  <2>1. EntriesOf(d, asking.request, meters) = more /\ more \subseteq Entry
    BY <1>1, <1>5, EntriesAreMeant
  <2>2. request \in RequestsOf(d) /\ (pc = "calling" => request = "monthly")
    BY <1>1 DEF RequestsOf, FirstRequest
  <2>3. asking' = [asking EXCEPT !.entries = asking.entries \cup more, !.meant = asking.meant \cup more,
                                 !.ok = TRUE, !.request = request, !.pc = pc]
    BY <1>5, <2>1
  <2>4. pc \in {"calling", "persisting"}
    OBVIOUS
  <2> HIDE DEF more, request, pc, d
  <2>5. /\ asking' \in Asking /\ asking'.pc = pc /\ asking'.error = "none"
        /\ asking'.entries = asking.entries \cup more /\ asking'.meant = asking.meant \cup more
        /\ asking'.request = request
    BY <1>1, <2>1, <2>2, <2>3, <2>4 DEF Asking, d
  <2>6. GoodRun(asking')
    BY <1>1, <2>2, <2>5 DEF GoodRun, d
  <2> QED BY <2>4, <2>5, <2>6, RunMoves
<1> QED BY <1>3, <1>4, <1>5 DEF AnswerRead

\* A step of the run's surroundings, in which the run itself stays.
LEMMA RunStays ==
  ASSUME QuotaInv, target'.dialect = target.dialect,
         target' \in [dialect : Dialects, enabled : BOOLEAN, probing : BOOLEAN],
         summary' = summary \/ \E row \in Row : summary' = {row} /\ GoodRow(row),
         scanned' \in BOOLEAN,
         quotaJob' \in [status : {"none", "pending", "running"}, tries : 0..QuotaTries],
         quotaJob'.status = "pending" => quotaJob'.tries < QuotaTries,
         asking' = asking \/ asking' = NotAsking, asking'.pc # "idle" <=> quotaJob'.status = "running"
  PROVE  QuotaInv'
<1>1. Asking' = Asking /\ GoodRun(asking)' = GoodRun(asking') /\ \A row : GoodRow(row)' = GoodRow(row)
  BY DEF Asking, GoodRun, GoodRow
<1>2. asking' \in Asking /\ GoodRun(asking')
  <2>1. CASE asking' = asking
    BY <2>1 DEF QuotaInv, GoodRun
  <2>2. CASE asking' = NotAsking
    BY <2>2, NotAskingIs
  <2> QED BY <2>1, <2>2
<1> QED BY <1>1, <1>2 DEF QuotaInv

LEMMA QuotaInvNext == QuotaInv /\ [QuotaNext]_quotaVars => QuotaInv'
<1> SUFFICES ASSUME QuotaInv, [QuotaNext]_quotaVars PROVE QuotaInv'
  OBVIOUS
<1>t. /\ target \in [dialect : Dialects, enabled : BOOLEAN, probing : BOOLEAN] /\ scanned \in BOOLEAN
      /\ quotaJob \in [status : {"none", "pending", "running"}, tries : 0..QuotaTries]
      /\ quotaJob.status = "pending" => quotaJob.tries < QuotaTries
      /\ asking \in Asking /\ GoodRun(asking) /\ (asking.pc # "idle" <=> quotaJob.status = "running")
  BY DEF QuotaInv
<1>s. summary = {} \/ \E row \in Row : summary = {row} /\ GoodRow(row)
  BY DEF QuotaInv
<1>n. NotAsking.pc = "idle"
  BY NotAskingIs
\* The job is over, or starts again.
<1>o. ASSUME quotaJob' = [status |-> "none", tries |-> 0]
      PROVE  /\ quotaJob' \in [status : {"none", "pending", "running"}, tries : 0..QuotaTries]
             /\ quotaJob'.status = "none"
  BY <1>o, QuotaNumbers
<1>0. CASE UNCHANGED quotaVars
  BY <1>0, <1>t, RunStays DEF quotaVars
<1>1. CASE SwitchEnabled
  <2>1. /\ target' \in [dialect : Dialects, enabled : BOOLEAN, probing : BOOLEAN]
        /\ target'.dialect = target.dialect
    BY <1>1, <1>t DEF SwitchEnabled
  <2> QED BY <1>1, <1>t, <2>1, RunStays DEF SwitchEnabled
<1>10. CASE SaveQuotaSettings
  <2>1. /\ target' \in [dialect : Dialects, enabled : BOOLEAN, probing : BOOLEAN]
        /\ target'.dialect = target.dialect
    BY <1>10, <1>t DEF SaveQuotaSettings
  <2>2. summary' = summary \/ summary' = {[row EXCEPT !.due = 0] : row \in summary}
    BY <1>10 DEF SaveQuotaSettings
  <2>3. summary' = summary \/ \E row \in Row : summary' = {row} /\ GoodRow(row)
    <3>1. CASE summary' = summary \/ summary = {}
      BY <2>2, <3>1
    <3>2. CASE summary' # summary /\ summary # {}
      <4>1. PICK row \in Row : summary = {row} /\ GoodRow(row)
        BY <1>s, <3>2
      <4> DEFINE next == [row EXCEPT !.due = 0]
      <4>2. /\ next \in Row /\ next.due = 0 /\ next.error = row.error
            /\ next.entries = row.entries /\ next.meant = row.meant /\ next.rejected = row.rejected
        BY <4>1 DEF Row
      <4>3. summary' = {next}
        BY <2>2, <3>2, <4>1
      <4>4. 0 <= QuotaDelay[row.error]
        BY <4>1, QuotaNumbers DEF Row
      <4>5. GoodRow(next)
        <5> HIDE DEF next
        <5> QED BY <4>1, <4>2, <4>4 DEF GoodRow
      <4> QED BY <4>2, <4>3, <4>5
    <3> QED BY <3>1, <3>2
  <2> QED BY <1>10, <1>t, <2>1, <2>3, RunStays DEF SaveQuotaSettings
<1>2. CASE QuotaTick
  <2>1. PICK row \in summary : row.due > 0 /\ summary' = {[row EXCEPT !.due = row.due - 1]}
    BY <1>2 DEF QuotaTick
  <2>2. row \in Row /\ GoodRow(row)
    BY <1>s, <2>1
  <2> DEFINE next == [row EXCEPT !.due = row.due - 1]
  <2>3. /\ next \in Row /\ next.due = row.due - 1 /\ next.error = row.error
        /\ next.entries = row.entries /\ next.meant = row.meant /\ next.rejected = row.rejected
    BY <2>1, <2>2 DEF Row
  <2>4. next.due <= QuotaDelay[next.error]
    <3>1. row.due \in Nat /\ QuotaDelay[row.error] \in Nat /\ row.due <= QuotaDelay[row.error]
      BY <2>2, QuotaNumbers DEF Row, GoodRow
    <3> HIDE DEF next
    <3> QED BY <2>3, <3>1
  <2>5. GoodRow(next)
    <3> HIDE DEF next
    <3> QED BY <2>2, <2>3, <2>4 DEF GoodRow
  <2>6. summary' = {next}
    BY <2>1
  <2> HIDE DEF next
  <2> QED BY <1>2, <1>t, <2>3, <2>5, <2>6, RunStays DEF QuotaTick
<1>3. CASE ScanQuota
  BY <1>3, <1>t, RunStays DEF ScanQuota
<1>4. CASE EnqueueQuota
  <2>1. /\ quotaJob' \in [status : {"none", "pending", "running"}, tries : 0..QuotaTries]
        /\ quotaJob'.status = "pending" => quotaJob'.tries < QuotaTries
        /\ quotaJob'.status = "running" <=> quotaJob.status = "running"
    <3>1. CASE target.enabled /\ quotaJob.status = "none"
      <4>1. quotaJob' = [status |-> "pending", tries |-> 0]
        BY <1>4, <3>1 DEF EnqueueQuota
      <4> QED BY <3>1, <4>1, QuotaNumbers
    <3>2. CASE ~(target.enabled /\ quotaJob.status = "none")
      BY <1>4, <1>t, <3>2 DEF EnqueueQuota
    <3> QED BY <3>1, <3>2
  <2> QED BY <1>4, <1>t, <2>1, RunStays DEF EnqueueQuota
<1>5. CASE ClaimQuota
  <2>1. quotaJob' = [status |-> "running", tries |-> quotaJob.tries + 1] /\ quotaJob.tries < QuotaTries
    BY <1>5, <1>t DEF ClaimQuota
  <2>2. quotaJob' \in [status : {"none", "pending", "running"}, tries : 0..QuotaTries] /\ quotaJob'.status = "running"
    BY <1>t, <2>1, QuotaNumbers
  <2>3. asking' = [NotAsking EXCEPT !.pc = "reading"]
    BY <1>5 DEF ClaimQuota
  <2>4. asking' \in Asking /\ asking'.pc = "reading"
    BY <2>3, NotAskingIs DEF Asking
  <2>5. GoodRun(asking')
    BY <2>3, <2>4 DEF GoodRun, NotAsking
  <2>6. Asking' = Asking /\ GoodRun(asking)' = GoodRun(asking') /\ \A row : GoodRow(row)' = GoodRow(row)
    BY <1>5 DEF ClaimQuota, Asking, GoodRun, GoodRow
  <2> QED BY <1>5, <1>t, <1>s, <2>2, <2>4, <2>5, <2>6 DEF ClaimQuota, QuotaInv
<1>6. CASE ReadTarget
  <2>0. asking.pc # "idle" /\ UNCHANGED <<target, summary, scanned>>
    BY <1>6 DEF ReadTarget
  <2>1. CASE JobOver
    BY <2>0, <2>1, <1>t, <1>n, <1>o, RunStays DEF JobOver
  <2>2. CASE quotaJob' = quotaJob /\ \E error \in {"not_supported", "requires_separate_credential", "probe_failed"} : Ends(error)
    BY <2>0, <2>2, QuotaNumbers, RunEndsWith
  <2>3. CASE /\ target.dialect \notin {"none", "separate"} /\ quotaJob' = quotaJob
             /\ asking' = [asking EXCEPT !.pc = "calling", !.request = FirstRequest(target.dialect)]
    <3>1. target.dialect \in Probed
      BY <1>t, <2>3, QuotaAssumption DEF Probed
    <3>2. FirstRequest(target.dialect) \in RequestsOf(target.dialect) /\ FirstRequest(target.dialect) \notin {"none", "raw"}
      BY <3>1 DEF FirstRequest, RequestsOf, Probed, AllDialects
    <3>3. /\ asking' \in Asking /\ asking'.pc = "calling" /\ asking'.error = asking.error
          /\ asking'.entries = asking.entries /\ asking'.meant = asking.meant
          /\ asking'.request = FirstRequest(target.dialect)
      BY <1>t, <2>3, <3>2 DEF Asking
    <3>4. asking.error = "none" /\ asking.entries = asking.meant
      BY <1>6, <1>t DEF ReadTarget, GoodRun
    <3>5. GoodRun(asking')
      BY <3>1, <3>2, <3>3, <3>4 DEF GoodRun
    <3> QED BY <2>0, <2>3, <3>3, <3>5, RunMoves
  <2> QED BY <1>6, <2>1, <2>2, <2>3 DEF ReadTarget
<1>7. CASE CallAnswered
  <2>1. CASE AnswerRead
    BY <1>7, <2>1, ReadKeepsRun DEF CallAnswered
  <2>2. CASE \E status \in {401, 403, 500} : AnswerRefused(status)
    BY <1>7, <2>2, RefusedKeeps DEF CallAnswered
  <2> QED BY <1>7, <2>1, <2>2 DEF CallAnswered
<1>8. CASE PersistQuota
  <2> DEFINE row == [entries |-> asking.entries, error |-> asking.error, due |-> QuotaDelay[asking.error],
                     meant |-> asking.meant, rejected |-> asking.rejected]
  <2>1. summary' = {row} /\ JobOver /\ UNCHANGED <<target, scanned>>
    BY <1>8 DEF PersistQuota
  <2>2. /\ asking.entries \subseteq Entry /\ asking.error \in QuotaErrors /\ asking.meant \subseteq Entry
        /\ asking.rejected \subseteq {"bearer", "raw"} /\ QuotaDelay[asking.error] \in Nat
    BY <1>t, QuotaNumbers DEF Asking, Schemes
  <2>3. row \in Row /\ GoodRow(row)
    BY <1>t, <2>2 DEF GoodRun, GoodRow, Row
  <2> HIDE DEF row
  <2> QED BY <1>t, <1>n, <1>o, <2>1, <2>3, RunStays DEF JobOver
<1>9. CASE RunLost
  <2>1. /\ quotaJob' \in [status : {"none", "pending", "running"}, tries : 0..QuotaTries]
        /\ quotaJob'.status = "pending" => quotaJob'.tries < QuotaTries
        /\ quotaJob'.status # "running"
    <3>1. CASE quotaJob.tries < QuotaTries
      <4>1. quotaJob' = [quotaJob EXCEPT !.status = "pending"]
        BY <1>9, <3>1 DEF RunLost
      <4> QED BY <1>t, <3>1, <4>1
    <3>2. CASE ~(quotaJob.tries < QuotaTries)
      BY <1>9, <1>o, <3>2 DEF RunLost
    <3> QED BY <3>1, <3>2
  <2> QED BY <1>9, <1>t, <1>n, <2>1, RunStays DEF RunLost
<1> QED BY <1>0, <1>1, <1>2, <1>3, <1>4, <1>5, <1>6, <1>7, <1>8, <1>9, <1>10 DEF QuotaNext

LEMMA QuotaInvHolds == QuotaSpec => []QuotaInv
<1> QED BY QuotaInvInit, QuotaInvNext, PTL DEF QuotaSpec

LEMMA QuotaInvIsTyped == QuotaInv => QuotaTypeOK
<1> SUFFICES ASSUME QuotaInv PROVE QuotaTypeOK
  OBVIOUS
<1>1. Cardinality(summary) <= 1
  <2>1. CASE summary = {}
    BY <2>1, FS_EmptySet
  <2>2. CASE summary # {}
    <3>1. PICK row : summary = {row}
      BY <2>2 DEF QuotaInv
    <3>2. Cardinality({row}) = 1
      BY FS_Singleton, Zenon
    <3> QED BY <3>1, <3>2
  <2> QED BY <2>1, <2>2
<1>2. \A row \in summary : /\ row.entries \subseteq Entry /\ row.error \in QuotaErrors
                           /\ row.due \in 0..QuotaDelay[row.error]
  <2>1. \A row \in summary : row \in Row /\ GoodRow(row)
    BY DEF QuotaInv
  <2> QED BY <2>1, QuotaNumbers DEF Row, GoodRow
<1> QED BY <1>1, <1>2 DEF QuotaInv, QuotaTypeOK, Asking

\* The connection, its summary, the job and its run keep their types, for any
\* dialects, limits, attempts and faults (worker-provider-quota-probe.ts).
THEOREM QuotaTyped == QuotaSpec => []QuotaTypeOK
<1> QED BY QuotaInvHolds, QuotaInvIsTyped, PTL

\* The summary says what the provider meant, however it states it: the half of
\* QuotaIsKept that speaks of every state.
THEOREM QuotaTold == QuotaSpec => []QuotaIsTrue
<1>1. QuotaInv => QuotaIsTrue
  BY DEF QuotaInv, GoodRow, QuotaIsTrue
<1> QED BY <1>1, QuotaInvHolds, PTL

----------------------------------------------------------------------------
(* Services.  A step of the five is a step of one of them and leaves the others. *)

ServicesInv == ChainInv /\ StreamInv /\ WakeInv /\ KeeperInv /\ QuotaInv

LEMMA ServicesInvInit == ServicesInit => ServicesInv
BY ChainInvInit, StreamInvInit, WakeInvInit, KeeperInvInit, QuotaInvInit DEF ServicesInit, ServicesInv

LEMMA EachMoves ==
  [ServicesNext]_servicesVars =>
    /\ [ChainNext]_chainVars /\ [StreamNext]_streamVars /\ [WakeNext]_wakeVars
    /\ [KeeperNext]_keeperVars /\ [QuotaNext]_quotaVars
<1> SUFFICES ASSUME [ServicesNext]_servicesVars
             PROVE  /\ ChainNext \/ UNCHANGED chainVars
                    /\ StreamNext \/ UNCHANGED streamVars
                    /\ WakeNext \/ UNCHANGED wakeVars
                    /\ KeeperNext \/ UNCHANGED keeperVars
                    /\ QuotaNext \/ UNCHANGED quotaVars
  OBVIOUS
<1>1. CASE Runs("chain", <<streamVars, wakeVars, keeperVars, quotaVars>>) /\ ChainNext
  BY <1>1 DEF Runs
<1>2. CASE Runs("stream", <<chainVars, wakeVars, keeperVars, quotaVars>>) /\ StreamNext
  BY <1>2 DEF Runs
<1>3. CASE Runs("wake", <<chainVars, streamVars, keeperVars, quotaVars>>) /\ WakeNext
  BY <1>3 DEF Runs
<1>4. CASE Runs("keepers", <<chainVars, streamVars, wakeVars, quotaVars>>) /\ KeeperNext
  BY <1>4 DEF Runs
<1>5. CASE Runs("quota", <<chainVars, streamVars, wakeVars, keeperVars>>) /\ QuotaNext
  BY <1>5 DEF Runs
<1>6. CASE UNCHANGED servicesVars
  BY <1>6 DEF servicesVars
<1> QED BY <1>1, <1>2, <1>3, <1>4, <1>5, <1>6 DEF ServicesNext

LEMMA ServicesInvNext == ServicesInv /\ [ServicesNext]_servicesVars => ServicesInv'
<1> SUFFICES ASSUME ServicesInv, [ServicesNext]_servicesVars
             PROVE  ServicesInv'
  OBVIOUS
<1>1. /\ [ChainNext]_chainVars /\ [StreamNext]_streamVars /\ [WakeNext]_wakeVars
      /\ [KeeperNext]_keeperVars /\ [QuotaNext]_quotaVars
  BY EachMoves
<1>2. ChainInv' BY <1>1, ChainInvNext DEF ServicesInv
<1>3. StreamInv' BY <1>1, StreamInvNext DEF ServicesInv
<1>4. WakeInv' BY <1>1, WakeInvNext DEF ServicesInv
<1>5. KeeperInv' BY <1>1, KeeperInvNext DEF ServicesInv
<1>6. QuotaInv' BY <1>1, QuotaInvNext DEF ServicesInv
<1> QED BY <1>2, <1>3, <1>4, <1>5, <1>6 DEF ServicesInv

LEMMA ServicesInvHolds == ServicesSpec => []ServicesInv
BY ServicesInvInit, ServicesInvNext, PTL DEF ServicesSpec

\* Side by side, the five services keep every variable to its values.
THEOREM ServicesTyped == ServicesSpec => []TypesOK
<1>1. ServicesInv => TypesOK
  BY ChainInvIsTyped, StreamInvIsTyped, KeeperInvIsTyped, QuotaInvIsTyped
     DEF ServicesInv, TypesOK, WakeInv
<1> QED BY <1>1, ServicesInvHolds, PTL

\* Side by side, attempts explain answers, streams are recorded as they ended, due jobs
\* are owed a claim, tasks run alone and quotas are what a provider stated
\* (gateway-fallback-chain.ts, gateway-stream-pipeline.ts, worker-job-runner.ts,
\* worker-maintenance-scheduler.ts, worker-provider-quota-probe.ts).
THEOREM ServicesKept ==
  ServicesSpec => [](AttemptsExplainAnswer /\ StreamOutcome /\ NoWakeLost /\ AloneAtWork /\ QuotaIsTrue)
<1>1. ServicesInv => AttemptsExplainAnswer /\ StreamOutcome
  BY ChainInvExplains, StreamInvTells DEF ServicesInv
<1>2. ServicesInv => NoWakeLost BY DEF ServicesInv, WakeInv
<1>3. ServicesInv => AloneAtWork BY DEF ServicesInv, KeeperInv, LockInv, AloneAtWork
<1>4. ServicesInv => QuotaIsTrue BY DEF ServicesInv, QuotaInv, GoodRow, QuotaIsTrue
<1> QED BY <1>1, <1>2, <1>3, <1>4, ServicesInvHolds, PTL

=============================================================================
