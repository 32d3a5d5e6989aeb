------------------------- MODULE ROCompletionProofs --------------------------
(***************************************************************************)
(* The completion protocol of the reverse-offload path, for any number of  *)
(* wavefronts, lanes, contexts, slots and requests in flight: a status     *)
(* byte is raised only for the command that waits for it, after the whole  *)
(* command is done, and a quiet is answered only after every earlier       *)
(* command of its context.  Every context has a ring of its own and one    *)
(* wavefront that uses it.                                                 *)
(***************************************************************************)
EXTENDS ROProxyProofs, FiniteSetTheorems

-----------------------------------------------------------------------------
(*                        Counting positions                               *)

(* A set of naturals that is not empty has a least element.                *)
LEMMA LeastNatural ==
    ASSUME NEW T \in SUBSET Nat, T # {}
    PROVE  \E x \in T : \A y \in T : x <= y
<1>1. PICK n \in T : TRUE
    BY Zenon
<1> DEFINE U == 0..n
           F == {T \cap (0..k) : k \in T \cap U}
<1>2. IsFiniteSet(U)
    BY FS_Interval
<1>3. FiniteSubsetsOf(U) = SUBSET U
    BY <1>2, FS_FiniteSubsetsOfFinite
<1>4. F \subseteq FiniteSubsetsOf(U) /\ F # {}
  <2>1. \A k \in T \cap U : T \cap (0..k) \subseteq U
      OBVIOUS
  <2>2. n \in T \cap U
      OBVIOUS
  <2>3. F \subseteq SUBSET U
      BY <2>1
  <2>4. T \cap (0..n) \in F
      BY <2>2
  <2> QED
      BY <1>3, <2>3, <2>4, Zenon
<1>5. IsWellFoundedOn(StrictSubsetOrdering(U), FiniteSubsetsOf(U))
    BY FS_StrictSubsetOrderingWellFounded
<1>6. PICK X \in F : \A Y \in F : ~(<<Y, X>> \in StrictSubsetOrdering(U))
    BY <1>4, <1>5, WFMin, Zenon
<1>7. PICK k \in T \cap U : X = T \cap (0..k)
    BY <1>6
<1>8. ASSUME NEW y \in T, y < k PROVE FALSE
  <2> DEFINE Y == T \cap (0..y)
  <2>1. y \in T \cap U /\ Y \in F
      BY <1>8
  <2>2. Y \subseteq X /\ k \in X /\ k \notin Y
      BY <1>7, <1>8
  <2>3. X \subseteq U /\ Y \subseteq U
      BY <2>2, <1>7
  <2>4. <<Y, X>> \in StrictSubsetOrdering(U)
      BY <2>2, <2>3 DEF StrictSubsetOrdering
  <2> QED
      BY <2>1, <2>4, <1>6, Zenon
<1> QED
    BY <1>7, <1>8

(* How the number of elements up to a point grows with the point.          *)
LEMMA CountUpTo ==
    ASSUME NEW S \in SUBSET Nat, IsFiniteSet(S), NEW k \in Nat
    PROVE  /\ Cardinality({m \in S : m <= k}) \in Nat
           /\ Cardinality({m \in S : m <= k + 1})
                <= Cardinality({m \in S : m <= k}) + 1
           /\ k + 1 \notin S => Cardinality({m \in S : m <= k + 1})
                                  = Cardinality({m \in S : m <= k})
<1> DEFINE C == {m \in S : m <= k}
           D == {m \in S : m <= k + 1}
<1>0. \A m \in S : m \in Nat
    OBVIOUS
<1>1. IsFiniteSet(C) /\ Cardinality(C) <= Cardinality(S)
    BY FS_Subset
<1>2. Cardinality(C) \in Nat
    BY <1>1, FS_CardinalityType
<1>3. k + 1 \notin C
    OBVIOUS
<1>4. CASE k + 1 \in S
  <2>1. D = C \cup {k + 1}
    <3>1. ASSUME NEW m \in S
          PROVE  m <= k + 1 <=> m <= k \/ m = k + 1
        BY <1>0
    <3> QED
        BY <1>4, <3>1, Zenon
  <2> HIDE DEF C, D
  <2>2. Cardinality(C \cup {k + 1}) = Cardinality(C) + 1
      BY <1>1, <1>3, FS_AddElement
  <2>3. Cardinality(D) <= Cardinality(C) + 1
      BY <1>2, <2>1, <2>2
  <2> QED
      BY <1>2, <1>4, <2>3 DEF C, D
<1>5. CASE k + 1 \notin S
  <2>1. ASSUME NEW m \in S PROVE m <= k + 1 <=> m <= k
      BY <1>0, <1>5
  <2>2. D = C
      BY <2>1, Zenon
  <2> QED
      BY <1>2, <1>5, <2>2
<1> QED
    BY <1>4, <1>5

(* A later element has a greater rank.                                     *)
LEMMA RankIncreases ==
    ASSUME NEW S \in SUBSET Nat, IsFiniteSet(S), NEW a \in S, NEW b \in S, a < b
    PROVE  Cardinality({m \in S : m <= a}) < Cardinality({m \in S : m <= b})
<1> DEFINE A == {m \in S : m <= a}
           B == {m \in S : m <= b}
<1>0. \A m \in S : m \in Nat
    OBVIOUS
<1>1. A \subseteq B /\ b \in B /\ b \notin A
  <2>1. ASSUME NEW m \in S PROVE m <= a => m <= b
      BY <1>0
  <2>2. b <= b /\ ~(b <= a)
      BY <1>0
  <2> QED
      BY <2>1, <2>2, Zenon
<1>2. IsFiniteSet(B) /\ IsFiniteSet(A)
    BY FS_Subset
<1>3. Cardinality(A) \in Nat /\ Cardinality(B) \in Nat
    BY <1>2, FS_CardinalityType
<1> HIDE DEF A, B
<1>4. Cardinality(A) <= Cardinality(B) /\ (Cardinality(B) = Cardinality(A) => B = A)
    BY <1>1, <1>2, FS_Subset, Zenon
<1>5. Cardinality(A) < Cardinality(B)
    BY <1>1, <1>3, <1>4
<1> QED
    BY <1>5 DEF A, B

(* Every rank up to the number of elements is taken.                       *)
LEMMA RankExists ==
    ASSUME NEW n \in Nat, NEW S \in SUBSET (1..n), NEW j \in 1..Cardinality(S)
    PROVE  \E k \in S : Cardinality({m \in S : m <= k}) = j
<1> DEFINE C(k) == Cardinality({m \in S : m <= k})
           T == {k \in Nat : C(k) >= j}
<1>1. IsFiniteSet(S) /\ S \in SUBSET Nat /\ \A m \in S : m \in Nat /\ m >= 1 /\ m <= n
  <2>1. IsFiniteSet(S)
    <3>1. 1 \in Int /\ n \in Int
        OBVIOUS
    <3>2. IsFiniteSet(1..n)
        BY <3>1, FS_Interval
    <3> QED
        BY <3>2, FS_Subset, Zenon
  <2> QED
      BY <2>1
<1>2. Cardinality(S) \in Nat /\ j \in Nat /\ j >= 1 /\ j <= Cardinality(S)
    BY <1>1, FS_CardinalityType
<1>3. \A k \in Nat : C(k) \in Nat
    BY <1>1, CountUpTo, Zenon
<1>4. T # {} /\ T \in SUBSET Nat
  <2>1. {m \in S : m <= n} = S
      BY <1>1, Zenon
  <2>2. C(n) >= j
      BY <2>1, <1>2
  <2> QED
      BY <2>2
<1>5. PICK k \in T : \A y \in T : k <= y
  <2> HIDE DEF T
  <2> QED
      BY <1>4, LeastNatural
<1>6. k \in Nat /\ C(k) >= j /\ C(k) \in Nat
    BY <1>3, <1>5
<1>7. k # 0
  <2>1. {m \in S : m <= 0} = {}
    <3>1. ASSUME NEW m \in S PROVE ~(m <= 0)
        BY <1>1
    <3> QED
        BY <3>1, Zenon
  <2>2. C(0) = 0
      BY <2>1, FS_EmptySet
  <2> QED
      BY <2>2, <1>2, <1>6
<1>8. k - 1 \in Nat /\ (k - 1) + 1 = k
    BY <1>6, <1>7
<1>9. C(k - 1) < j /\ C(k - 1) \in Nat
  <2>1. k - 1 \notin T
    <3> HIDE DEF T
    <3> QED
        BY <1>5, <1>6, <1>8
  <2>2. C(k - 1) \in Nat
      BY <1>3, <1>8, Zenon
  <2>3. ~(C(k - 1) >= j)
      BY <2>1, <1>8
  <2> HIDE DEF C
  <2> QED
      BY <2>2, <2>3, <1>2
<1>10. C((k - 1) + 1) <= C(k - 1) + 1
       /\ ((k - 1) + 1 \notin S => C((k - 1) + 1) = C(k - 1))
    BY <1>1, <1>8, CountUpTo, Zenon
<1>11. C(k) <= C(k - 1) + 1 /\ (k \notin S => C(k) = C(k - 1))
    BY <1>8, <1>10
<1> HIDE DEF C
<1>12. k \in S /\ C(k) = j
    BY <1>2, <1>6, <1>9, <1>11
<1> QED
    BY <1>12 DEF C

(* Two sets whose elements are paired off have as many.                    *)
LEMMA PairedCount ==
    ASSUME NEW S, NEW T, IsFiniteSet(T), NEW f \in [S -> T],
           \A a, b \in S : f[a] = f[b] => a = b,
           \A t \in T : \E s \in S : f[s] = t
    PROVE  IsFiniteSet(S) /\ Cardinality(S) = Cardinality(T)
<1> DEFINE g == [t \in T |-> CHOOSE s \in S : f[s] = t]
<1>1. \A t \in T : g[t] \in S /\ f[g[t]] = t
    OBVIOUS
<1>2. g \in [T -> S]
    BY <1>1
<1>3. \A s \in S : f[s] \in T /\ g[f[s]] = s
  <2> HIDE DEF g
  <2> QED
      BY <1>1
<1> HIDE DEF g
<1>4. g \in Bijection(T, S)
    BY <1>1, <1>2, <1>3 DEF Bijection, Injection, Surjection, IsInjective
<1>5. ExistsBijection(T, S)
    BY <1>4 DEF ExistsBijection
<1> QED
    BY <1>5, FS_Bijection


(* Nth runs through a set of positions in their order, each once.          *)
LEMMA NthEnumerates ==
    ASSUME NEW n \in Nat, NEW S \in SUBSET (1..n)
    PROVE  /\ IsFiniteSet(S) /\ Cardinality(S) \in Nat
           /\ \A j \in 1..Cardinality(S) : Nth(S, j) \in S
           /\ \A i, j \in 1..Cardinality(S) : Nth(S, i) = Nth(S, j) => i = j
           /\ \A k \in S : \E j \in 1..Cardinality(S) : Nth(S, j) = k
<1> DEFINE C(k) == Cardinality({m \in S : m <= k})
<1>1. IsFiniteSet(S) /\ S \in SUBSET Nat
  <2>1. IsFiniteSet(S)
    <3>1. 1 \in Int /\ n \in Int
        OBVIOUS
    <3>2. IsFiniteSet(1..n)
        BY <3>1, FS_Interval
    <3> QED
        BY <3>2, FS_Subset, Zenon
  <2> QED
      BY <2>1
<1>2. Cardinality(S) \in Nat
    BY <1>1, FS_CardinalityType
<1>3. \A j \in 1..Cardinality(S) : Nth(S, j) \in S /\ C(Nth(S, j)) = j
  <2> TAKE j \in 1..Cardinality(S)
  <2>1. \E k \in S : C(k) = j
      BY RankExists, Zenon
  <2> QED
      BY <2>1, Zenon DEF Nth
<1>4. ASSUME NEW k \in S PROVE C(k) \in 1..Cardinality(S) /\ Nth(S, C(k)) = k
  <2>1. IsFiniteSet({m \in S : m <= k})
      BY <1>1, FS_Subset
  <2>2. C(k) \in Nat /\ C(k) <= Cardinality(S)
      BY <1>1, <2>1, FS_Subset, FS_CardinalityType
  <2>3. k \in {m \in S : m <= k}
      BY <1>1
  <2>4. C(k) # 0
      BY <2>1, <2>3, FS_EmptySet
  <2>5. C(k) \in 1..Cardinality(S)
      BY <2>2, <2>4, <1>2
  <2> DEFINE x == Nth(S, C(k))
  <2>6. x \in S /\ C(x) = C(k)
      BY <1>3, <2>5
  <2>7. x \in Nat /\ k \in Nat
      BY <1>1, <2>6, Zenon
  <2>8. ~(x < k)
    <3> HIDE DEF x
    <3>1. x < k => C(x) < C(k)
        BY <1>1, <2>6, RankIncreases
    <3> QED
        BY <2>2, <2>6, <3>1
  <2>9. ~(k < x)
    <3> HIDE DEF x
    <3>1. k < x => C(k) < C(x)
        BY <1>1, <2>6, RankIncreases
    <3> QED
        BY <2>2, <2>6, <3>1, SMTT(30)
  <2> HIDE DEF x
  <2>10. x = k
      BY <2>7, <2>8, <2>9, SMTT(30)
  <2> QED
      BY <2>5, <2>10 DEF x
<1> QED
    BY <1>1, <1>2, <1>3, <1>4, Zenon
-----------------------------------------------------------------------------
(*                     Steps of the progress thread                        *)

(* What a submission does, whatever the command: it posts requests of the  *)
(* command, and it may put the command aside or answer it.                 *)
SetsAside(e, c) ==
    waiting_quiet' = [waiting_quiet EXCEPT ![c] = Append(@, e)]

Submits(e, c, rs) ==
    /\ requests' = requests \o rs
    /\ outstanding' = [outstanding EXCEPT ![c] = @ + Len(rs)]
    /\ \A k \in 1..Len(rs) : rs[k].ctx = c /\ rs[k].req = e.req
    /\ \A k \in 1..Len(rs) : rs[k].blocking =>
         Len(rs) = 1 /\ rs[k].status = e.status /\ Blocking(e.type) /\ ~Drains(e.type)
    /\ \/ UNCHANGED <<waiting_quiet, raised>>
       \/ /\ SetsAside(e, c) /\ UNCHANGED raised
          /\ Blocking(e.type) /\ outstanding'[c] # 0
          /\ \A k \in 1..Len(rs) : ~rs[k].blocking
       \/ /\ raised \subseteq raised' /\ raised' \subseteq raised \cup {e.status}
          /\ UNCHANGED waiting_quiet
          /\ Blocking(e.type) /\ rs = << >>
          /\ Drains(e.type) => outstanding[c] = 0

(* The number of requests in flight is what the transport counts.          *)
LEMMA OutstandingCounts ==
    ASSUME TransportTypeOK, QuietIsNeverStranded, NEW c \in Rings
    PROVE  /\ outstanding[c] \in Nat
           /\ outstanding[c] = 0 => \A k \in 1..Len(requests) : requests[k].ctx # c
<1> DEFINE S == {k \in 1..Len(requests) : requests[k].ctx = c}
<1>1. Len(requests) \in Nat
    BY DEF TransportTypeOK
<1>2. IsFiniteSet(1..Len(requests))
    BY <1>1, FS_Interval
<1>3. IsFiniteSet(S)
    BY <1>2, FS_Subset
<1>4. Cardinality(S) \in Nat /\ (Cardinality(S) = 0 => S = {})
  <2> HIDE DEF S
  <2> QED
      BY <1>3, FS_CardinalityType, FS_EmptySet, SMTT(30)
<1>5. outstanding[c] = Cardinality(S)
    BY DEF QuietIsNeverStranded
<1> QED
    BY <1>4, <1>5

(* Every branch of submitRequestsToMPI is a submission of this shape.      *)
LEMMA SubmitShape ==
    ASSUME TransportTypeOK, QuietIsNeverStranded, submitRequestsToMPI
    PROVE  \E e \in Elements, c \in Rings, rs \in Seq(Posted) :
             e = Elem /\ c = Ctx /\ Submits(e, c, rs)
<1>1. q \in Seq(Entries) /\ q # << >>
    BY DEF TransportTypeOK, submitRequestsToMPI
<1>2. Head(q) \in Entries
    BY <1>1
<1>3. Elem \in Elements /\ Ctx \in Rings
    BY <1>2 DEF Entries, Elem, Ctx
<1>4. PICK e \in Elements : e = Elem
    BY <1>3
<1>5. PICK c \in Rings : c = Ctx
    BY <1>3
<1>6. e.status \in Statuses /\ NoStatus \in Statuses
      /\ e.req \in [h : Handles \cup {NULL}, idx : Int, comm : Comms \cup {NULL}]
    BY DEF Elements, Statuses
<1>7. outstanding[c] \in Nat /\ outstanding \in [Rings -> Int]
    BY OutstandingCounts DEF TransportTypeOK
<1>8. PICK aside \in Posted : /\ aside = Request(NoStatus, FALSE) /\ aside.ctx = c
                               /\ aside.req = e.req /\ ~aside.blocking
  <2>1. Request(NoStatus, FALSE) \in Posted
      BY <1>4, <1>5, <1>6, SMTT(30) DEF Request, Posted
  <2>2. /\ Request(NoStatus, FALSE).ctx = c /\ Request(NoStatus, FALSE).req = e.req
        /\ ~Request(NoStatus, FALSE).blocking
      BY <1>4, <1>5 DEF Request
  <2> QED
      BY <2>1, <2>2, Zenon
<1>9. PICK silent \in Posted : /\ silent = Request(e.status, FALSE) /\ silent.ctx = c
                                /\ silent.req = e.req /\ ~silent.blocking
  <2>1. Request(e.status, FALSE) \in Posted
      BY <1>4, <1>5, <1>6, SMTT(30) DEF Request, Posted
  <2>2. /\ Request(e.status, FALSE).ctx = c /\ Request(e.status, FALSE).req = e.req
        /\ ~Request(e.status, FALSE).blocking
      BY <1>4, <1>5 DEF Request
  <2> QED
      BY <2>1, <2>2, Zenon
<1>10. PICK answer \in Posted : /\ answer = Request(e.status, TRUE) /\ answer.ctx = c
                                 /\ answer.req = e.req /\ answer.status = e.status
  <2>1. Request(e.status, TRUE) \in Posted
      BY <1>4, <1>5, <1>6, SMTT(30) DEF Request, Posted
  <2>2. /\ Request(e.status, TRUE).ctx = c /\ Request(e.status, TRUE).req = e.req
        /\ Request(e.status, TRUE).status = e.status
      BY <1>4, <1>5 DEF Request
  <2> QED
      BY <2>1, <2>2, Zenon
<1>11. ASSUME NEW rs \in Seq(Posted), Post(rs)
       PROVE  requests' = requests \o rs
              /\ outstanding' = [outstanding EXCEPT ![c] = @ + Len(rs)]
    BY <1>5, <1>11 DEF Post
<1>12. ASSUME NEW rs \in Seq(Posted), Len(rs) # 0, Post(rs),
              \A k \in 1..Len(rs) : rs[k] = aside, Blocking(e.type), quiet
       PROVE  Submits(e, c, rs)
  <2>1. requests' = requests \o rs
        /\ outstanding' = [outstanding EXCEPT ![c] = @ + Len(rs)]
      BY <1>11, <1>12
  <2>2. outstanding'[c] # 0
    <3>1. Len(rs) \in Nat
        OBVIOUS
    <3> QED
        BY <1>7, <1>12, <2>1, <3>1, SMTT(30)
  <2>3. SetsAside(e, c) /\ UNCHANGED raised
      BY <1>4, <1>5, <1>12, <2>2 DEF quiet, SetsAside
  <2>4. \A k \in 1..Len(rs) : rs[k].ctx = c /\ rs[k].req = e.req /\ ~rs[k].blocking
      BY <1>8, <1>12, Zenon
  <2> QED
      BY <1>12, <2>1, <2>2, <2>3, <2>4, Zenon DEF Submits
<1>13. ASSUME NEW x \in Posted, Post(<<x>>), UNCHANGED <<raised, waiting_quiet>>,
              x.ctx = c, x.req = e.req,
              x.blocking => x.status = e.status /\ Blocking(e.type) /\ ~Drains(e.type)
       PROVE  \E rs \in Seq(Posted) : Submits(e, c, rs)
  <2> DEFINE rs == <<x>>
  <2>1. rs \in Seq(Posted) /\ Len(rs) = 1 /\ \A k \in 1..Len(rs) : rs[k] = x
      OBVIOUS
  <2> HIDE DEF rs
  <2>2. Post(rs)
      BY <1>13 DEF rs
  <2>3. requests' = requests \o rs
        /\ outstanding' = [outstanding EXCEPT ![c] = @ + Len(rs)]
      BY <1>11, <2>1, <2>2, Zenon
  <2>4. \A k \in 1..Len(rs) :
          /\ rs[k].ctx = c /\ rs[k].req = e.req
          /\ rs[k].blocking => rs[k].status = e.status /\ Blocking(e.type)
                               /\ ~Drains(e.type)
      BY <1>13, <2>1, Zenon
  <2>5. Submits(e, c, rs)
      BY <1>13, <2>1, <2>3, <2>4, SMTT(30) DEF Submits
  <2> QED
      BY <2>1, <2>5
<1>14. ASSUME UNCHANGED <<requests, outstanding>>, Blocking(e.type),
              \/ /\ notify({e.status}) /\ UNCHANGED waiting_quiet
                 /\ Drains(e.type) => outstanding[c] = 0
              \/ SetsAside(e, c) /\ UNCHANGED raised /\ outstanding'[c] # 0
       PROVE  \E rs \in Seq(Posted) : Submits(e, c, rs)
  <2> DEFINE rs == << >>
  <2>1. rs \in Seq(Posted) /\ Len(rs) = 0 /\ rs = << >>
      OBVIOUS
  <2>2. requests' = requests \o rs
      BY <1>14 DEF TransportTypeOK
  <2> HIDE DEF rs
  <2>3. outstanding' = [outstanding EXCEPT ![c] = @ + Len(rs)]
      BY <1>7, <1>14, <2>1, SMTT(30)
  <2>4. \/ SetsAside(e, c) /\ UNCHANGED raised /\ outstanding'[c] # 0
        \/ /\ raised \subseteq raised' /\ raised' \subseteq raised \cup {e.status}
           /\ UNCHANGED waiting_quiet
           /\ Drains(e.type) => outstanding[c] = 0
      BY <1>14 DEF notify
  <2>5. \A k \in 1..Len(rs) : FALSE
      BY <2>1
  <2>6. Submits(e, c, rs)
      BY <1>14, <2>1, <2>2, <2>3, <2>4, <2>5, Zenon DEF Submits
  <2> QED
      BY <2>1, <2>6, Zenon
<1>15. \E rs \in Seq(Posted) : Submits(e, c, rs)
  <2>1. CASE (e.type = "PUT" /\ putMem) \/ (e.type = "GET" /\ getMem)
    <3>1. Post(<<answer>>) /\ UNCHANGED <<raised, waiting_quiet>>
        BY <1>4, <1>10, <2>1, Zenon DEF putMem, getMem
    <3>2. Blocking(e.type) /\ ~Drains(e.type)
        BY <2>1 DEF Blocking, NonBlocking, Drains
    <3> QED
        BY <1>10, <1>13, <3>1, <3>2, Zenon
  <2>2. CASE (e.type = "PUT_NBI" /\ putMem) \/ (e.type = "GET_NBI" /\ getMem)
    <3>1. Post(<<silent>>) /\ UNCHANGED <<raised, waiting_quiet>>
        BY <1>4, <1>9, <2>2, Zenon DEF putMem, getMem
    <3> QED
        BY <1>9, <1>13, <3>1, Zenon
  <2>4. CASE e.type = "AMO" /\ amoFOP
    <3>1. /\ UNCHANGED <<requests, outstanding, waiting_quiet>> /\ notify({e.status})
          /\ ~Drains(e.type) /\ Blocking(e.type)
        BY <1>4, <2>4 DEF amoFOP, mpiVars, Drains, Blocking, NonBlocking
    <3> QED
        BY <1>14, <3>1
  <2>5. CASE e.type = "QUIET" /\ UNCHANGED <<requests, outstanding>> /\ quiet
    <3>1. Blocking(e.type)
        BY <2>5 DEF Blocking, NonBlocking
    <3>2. CASE outstanding[c] = 0
      <4>1. notify({e.status}) /\ UNCHANGED waiting_quiet
          BY <1>4, <1>5, <2>5, <3>2, SMTT(30) DEF quiet
      <4> QED
          BY <1>14, <2>5, <3>1, <3>2, <4>1, Zenon
    <3>3. CASE outstanding[c] # 0
      <4>1. SetsAside(e, c) /\ UNCHANGED raised /\ outstanding'[c] # 0
          BY <1>4, <1>5, <2>5, <3>3, SMTT(30) DEF quiet, SetsAside
      <4> QED
          BY <1>14, <2>5, <3>1, <4>1, SMTT(30)
    <3> QED
        BY <3>2, <3>3
  <2>6. CASE e.type = "BARRIER" /\ barrier(TRUE)
    <3> DEFINE rs == <<aside>>
    <3>1. Post(rs) /\ quiet
        BY <1>8, <2>6, Zenon DEF barrier
    <3>2. Blocking(e.type)
        BY <2>6 DEF Blocking, NonBlocking
    <3>3. rs \in Seq(Posted) /\ Len(rs) # 0 /\ \A k \in 1..Len(rs) : rs[k] = aside
        BY SMTT(30)
    <3> HIDE DEF rs
    <3> QED
        BY <1>12, <3>1, <3>2, <3>3, SMTT(30)
  <2>7. CASE e.type = "SYNC" /\ barrier(FALSE)
    <3>1. Post(<<answer>>) /\ UNCHANGED <<raised, waiting_quiet>>
        BY <1>4, <1>10, <2>7, Zenon DEF barrier
    <3>2. Blocking(e.type) /\ ~Drains(e.type)
        BY <2>7, Zenon DEF Blocking, NonBlocking, Drains
    <3> QED
        BY <1>10, <1>13, <3>1, <3>2, Zenon
  <2>8. CASE e.type = "TEAM_REDUCE" /\ team_reduction
    <3>1. Post(<<answer>>) /\ UNCHANGED <<raised, waiting_quiet>>
        BY <1>4, <1>10, <2>8, Zenon DEF team_reduction
    <3>2. Blocking(e.type) /\ ~Drains(e.type)
        BY <2>8, SMTT(30) DEF Blocking, NonBlocking, Drains
    <3> QED
        BY <1>10, <1>13, <3>1, <3>2, Zenon
  <2>9. CASE e.type = "TEAM_BROADCAST" /\ team_broadcast
    <3> DEFINE rs == <<aside, aside>>
    <3>1. Post(rs) /\ quiet
        BY <1>8, <2>9, Zenon DEF team_broadcast
    <3>2. Blocking(e.type)
        BY <2>9 DEF Blocking, NonBlocking
    <3>3. rs \in Seq(Posted) /\ Len(rs) # 0 /\ \A k \in 1..Len(rs) : rs[k] = aside
        BY SMTT(30)
    <3> HIDE DEF rs
    <3> QED
        BY <1>12, <3>1, <3>2, <3>3
  <2>10. CASE e.type = "ALLTOALL" /\ alltoall
    <3> DEFINE rs == [k \in 1..NumPes |-> aside]
    <3>1. Post(rs) /\ quiet
        BY <1>8, <2>10, Zenon DEF alltoall
    <3>2. Blocking(e.type)
        BY <2>10 DEF Blocking, NonBlocking
    <3>3. rs \in Seq(Posted) /\ Len(rs) # 0 /\ \A k \in 1..Len(rs) : rs[k] = aside
        BY SizesAssumption
    <3> HIDE DEF rs
    <3> QED
        BY <1>12, <3>1, <3>2, <3>3
  <2>11. \/ e.type \in {"PUT", "PUT_NBI"} /\ putMem
         \/ e.type \in {"GET", "GET_NBI"} /\ getMem
         \/ e.type = "AMO" /\ amoFOP
         \/ e.type = "QUIET" /\ UNCHANGED <<requests, outstanding>> /\ quiet
         \/ e.type = "BARRIER" /\ barrier(TRUE)
         \/ e.type = "SYNC" /\ barrier(FALSE)
         \/ e.type = "TEAM_REDUCE" /\ team_reduction
         \/ e.type = "TEAM_BROADCAST" /\ team_broadcast
         \/ e.type = "ALLTOALL" /\ alltoall
      BY <1>4, Zenon DEF submitRequestsToMPI
  <2> QED
      BY <2>1, <2>2, <2>4, <2>5, <2>6, <2>7, <2>8, <2>9, <2>10, <2>11, Zenon
<1> QED
    BY <1>4, <1>5, <1>15, SMTT(30)

(* The command submitted is the head of the queue; the others move up by   *)
(* one.                                                                    *)
LEMMA HeadOfQueue ==
    ASSUME TransportTypeOK, submitRequestsToMPI
    PROVE  /\ 1 \in 1..Len(q) /\ Elem = q[1].elem /\ Ctx = q[1].wgid
           /\ q' \in Seq(Entries)
           /\ \A k \in 1..Len(q') : k + 1 \in 1..Len(q) /\ q'[k] = q[k + 1]
           /\ UNCHANGED <<ring, host_read_index, wave, lane, cpu>>
<1>1. q \in Seq(Entries) /\ q # << >> /\ q' = Tail(q)
    BY DEF TransportTypeOK, submitRequestsToMPI
<1>2. Len(q) \in Nat /\ Len(q) # 0
    BY <1>1
<1>3. q' \in Seq(Entries) /\ Len(q') = Len(q) - 1
      /\ \A k \in 1..Len(q') : q'[k] = q[k + 1]
    BY <1>1, <1>2
<1>4. \A k \in 1..Len(q') : k + 1 \in 1..Len(q)
    BY <1>2, <1>3
<1>5. Elem = q[1].elem /\ Ctx = q[1].wgid
    BY <1>1 DEF Elem, Ctx
<1>6. UNCHANGED <<ring, host_read_index, wave, lane, cpu>>
    BY DEF submitRequestsToMPI, ringVars, gpuVars
<1> QED
    BY <1>2, <1>3, <1>4, <1>5, <1>6, SMTT(30)

(* What is posted is old or a request of the command; so is what waits.    *)
LEMMA SubmitPosts ==
    ASSUME TransportTypeOK, NEW e \in Elements, NEW c \in Rings,
           NEW rs \in Seq(Posted), Submits(e, c, rs)
    PROVE  /\ requests' \in Seq(Posted)
           /\ Len(requests') = Len(requests) + Len(rs)
           /\ \A k \in 1..Len(requests) : requests'[k] = requests[k]
           /\ \A k \in 1..Len(requests') :
                k \in 1..Len(requests)
                \/ /\ k \in (Len(requests) + 1)..(Len(requests) + Len(rs))
                   /\ requests'[k].ctx = c /\ requests'[k].req = e.req
                   /\ requests'[k].blocking =>
                        Len(rs) = 1 /\ requests'[k].status = e.status
                        /\ Blocking(e.type) /\ ~Drains(e.type)
                        /\ UNCHANGED waiting_quiet
<1>1. requests \in Seq(Posted) /\ Len(requests) \in Nat /\ Len(rs) \in Nat
      /\ requests' = requests \o rs
    BY DEF TransportTypeOK, Submits
<1>2. /\ requests' \in Seq(Posted) /\ Len(requests') = Len(requests) + Len(rs)
      /\ \A k \in 1..Len(requests) : requests'[k] = requests[k]
      /\ \A k \in 1..Len(rs) : requests'[Len(requests) + k] = rs[k]
    BY <1>1
<1>3. ASSUME NEW k \in 1..Len(requests'), k \notin 1..Len(requests)
      PROVE  /\ k \in (Len(requests) + 1)..(Len(requests) + Len(rs))
             /\ requests'[k].ctx = c /\ requests'[k].req = e.req
             /\ requests'[k].blocking =>
                  Len(rs) = 1 /\ requests'[k].status = e.status
                  /\ Blocking(e.type) /\ ~Drains(e.type) /\ UNCHANGED waiting_quiet
  <2>1. k \in (Len(requests) + 1)..(Len(requests) + Len(rs))
      BY <1>1, <1>2, <1>3
  <2>2. PICK l \in 1..Len(rs) : k = Len(requests) + l
    <3> DEFINE d == k - Len(requests)
    <3>1. d \in 1..Len(rs) /\ k = Len(requests) + d
        BY <1>1, <2>1
    <3> HIDE DEF d
    <3> QED
        BY <3>1
  <2>3. requests'[k] = rs[l]
      BY <1>2, <2>2
  <2>4. rs[l].ctx = c /\ rs[l].req = e.req
      BY DEF Submits
  <2>5. ASSUME rs[l].blocking
        PROVE  Len(rs) = 1 /\ rs[l].status = e.status
               /\ Blocking(e.type) /\ ~Drains(e.type) /\ UNCHANGED waiting_quiet
    <3>1. Len(rs) = 1 /\ rs[l].status = e.status
          /\ Blocking(e.type) /\ ~Drains(e.type)
        BY <2>5 DEF Submits
    <3>2. UNCHANGED waiting_quiet
        BY <2>5 DEF Submits
    <3> QED
        BY <3>1, <3>2
  <2> QED
      BY <2>1, <2>3, <2>4, <2>5, SMTT(30)
<1> QED
    BY <1>2, <1>3, SMTT(30)

(* Only the submitted command can join the waiting quiets, at their end.   *)
LEMMA SubmitWaits ==
    ASSUME TransportTypeOK, NEW e \in Elements, NEW c \in Rings,
           NEW rs \in Seq(Posted), Submits(e, c, rs)
    PROVE  /\ waiting_quiet' \in [Rings -> Seq(Elements)]
           /\ \A r \in Rings : \A k \in 1..Len(waiting_quiet'[r]) :
                \/ k \in 1..Len(waiting_quiet[r])
                   /\ waiting_quiet'[r][k] = waiting_quiet[r][k]
                \/ r = c /\ waiting_quiet'[r][k] = e /\ Blocking(e.type)
           /\ \A r \in Rings : waiting_quiet'[r] # << >> =>
                waiting_quiet[r] # << >> \/ (r = c /\ outstanding'[c] # 0)
<1>1. waiting_quiet \in [Rings -> Seq(Elements)] /\ waiting_quiet[c] \in Seq(Elements)
    BY DEF TransportTypeOK
<1>2. CASE UNCHANGED waiting_quiet
    BY <1>1, <1>2
<1>3. CASE SetsAside(e, c) /\ Blocking(e.type) /\ outstanding'[c] # 0
  <2> DEFINE new == Append(waiting_quiet[c], e)
  <2>1. /\ new \in Seq(Elements) /\ Len(new) = Len(waiting_quiet[c]) + 1
        /\ new[Len(waiting_quiet[c]) + 1] = e /\ Len(waiting_quiet[c]) \in Nat
        /\ \A k \in 1..Len(waiting_quiet[c]) : new[k] = waiting_quiet[c][k]
      BY <1>1
  <2>2. waiting_quiet' = [waiting_quiet EXCEPT ![c] = new]
      BY <1>3 DEF SetsAside
  <2> HIDE DEF new
  <2>3. /\ waiting_quiet' \in [Rings -> Seq(Elements)]
        /\ waiting_quiet'[c] = new
        /\ \A r \in Rings \ {c} : waiting_quiet'[r] = waiting_quiet[r]
      BY <1>1, <2>1, <2>2
  <2>4. \A k \in 1..Len(new) : k \in 1..Len(waiting_quiet[c])
                               \/ k = Len(waiting_quiet[c]) + 1
      BY <2>1
  <2> QED
      BY <1>3, <2>1, <2>3, <2>4, Zenon
<1> QED
    BY <1>2, <1>3 DEF Submits

(* The counter of the context grows by the requests posted, so that a      *)
(* quiet is put aside only where something is outstanding.                 *)
LEMMA SubmitKeepsTransport ==
    ASSUME RingInv, CompletionInv, submitRequestsToMPI,
           NEW e \in Elements, NEW c \in Rings, NEW rs \in Seq(Posted),
           e = Elem, c = Ctx, Submits(e, c, rs)
    PROVE  TransportTypeOK' /\ QuietIsNeverStranded'
<1>1. TransportTypeOK /\ QuietIsNeverStranded
    BY DEF CompletionInv
<1>2. outstanding \in [Rings -> Int] /\ outstanding[c] \in Nat /\ Len(rs) \in Nat
    BY <1>1, OutstandingCounts DEF TransportTypeOK
<1>3. /\ outstanding' \in [Rings -> Int] /\ outstanding'[c] = outstanding[c] + Len(rs)
      /\ \A r \in Rings \ {c} : outstanding'[r] = outstanding[r]
    BY <1>2 DEF Submits
<1>4. TransportTypeOK'
  <2>1. q' \in Seq(Entries)
      BY <1>1, HeadOfQueue
  <2>2. requests' \in Seq(Posted)
      BY <1>1, SubmitPosts, SMTT(30)
  <2>3. waiting_quiet' \in [Rings -> Seq(Elements)]
      BY <1>1, SubmitWaits
  <2> QED
      BY <1>3, <2>1, <2>2, <2>3, Zenon DEF TransportTypeOK
<1>5. Len(requests) \in Nat
    BY <1>1 DEF TransportTypeOK
<1>6. /\ Len(requests') = Len(requests) + Len(rs)
      /\ \A k \in 1..Len(requests) : requests'[k] = requests[k]
      /\ \A k \in 1..Len(requests') : k \in 1..Len(requests)
           \/ (k \in (Len(requests) + 1)..(Len(requests) + Len(rs))
               /\ requests'[k].ctx = c)
    BY <1>1, SubmitPosts, ZenonT(40)
<1>7. ASSUME NEW r \in Rings
      PROVE  outstanding'[r]
               = Cardinality({k \in 1..Len(requests') : requests'[k].ctx = r})
  <2> DEFINE old == {k \in 1..Len(requests) : requests[k].ctx = r}
             new == {k \in 1..Len(requests') : requests'[k].ctx = r}
             more == (Len(requests) + 1)..(Len(requests) + Len(rs))
  <2>1. outstanding[r] = Cardinality(old)
      BY <1>1 DEF QuietIsNeverStranded
  <2>2. \A k \in 1..Len(requests) : k \in 1..Len(requests')
      BY <1>2, <1>5, <1>6, SMTT(30)
  <2>3. CASE r # c
    <3>1. ASSUME NEW k PROVE k \in new <=> k \in old
        BY <1>6, <2>2, <2>3, Zenon
    <3>2. new = old
        BY <3>1
    <3>3. outstanding'[r] = outstanding[r]
        BY <1>3, <2>3
    <3> QED
        BY <2>1, <3>2, <3>3, Zenon
  <2>4. CASE r = c
    <3>1. \A k \in more : k \in 1..Len(requests') /\ k \notin 1..Len(requests)
        BY <1>2, <1>5, <1>6, SMTT(30)
    <3>2. ASSUME NEW k PROVE k \in new <=> k \in old \cup more
      <4>1. k \in more => requests'[k].ctx = c
          BY <1>6, <3>1, SMTT(30)
      <4> QED
          BY <1>6, <2>2, <2>4, <3>1, <4>1, Zenon
    <3>3. new = old \cup more /\ old \cap more = {}
        BY <3>1, <3>2
    <3>4. IsFiniteSet(more) /\ Cardinality(more) = Len(rs)
      <4> DEFINE a == Len(requests) + 1
                 b == Len(requests) + Len(rs)
      <4>1. a \in Int /\ b \in Int /\ more = a..b /\ b - a + 1 = Len(rs)
            /\ (a > b => Len(rs) = 0)
          BY <1>2, <1>5
      <4> HIDE DEF a, b, more
      <4>2. IsFiniteSet(a..b) /\ Cardinality(a..b) = IF a > b THEN 0 ELSE b - a + 1
          BY <4>1, FS_Interval
      <4> QED
          BY <4>1, <4>2
    <3>5. IsFiniteSet(old)
      <4>1. IsFiniteSet(1..Len(requests))
          BY <1>5, FS_Interval
      <4> QED
          BY <4>1, FS_Subset
    <3>6. Cardinality(old) \in Nat
        BY <3>5, FS_CardinalityType
    <3> HIDE DEF old, new, more
    <3>7. Cardinality(old \cup more) = Cardinality(old) + Len(rs)
      <4>1. Cardinality({}) = 0
          BY FS_EmptySet
      <4>2. Cardinality(old \cup more)
              = Cardinality(old) + Cardinality(more) - Cardinality(old \cap more)
          BY <3>4, <3>5, FS_Union
      <4>3. Cardinality(old \cap more) = 0
          BY <3>3, <4>1, Zenon
      <4> QED
          BY <1>2, <3>4, <3>6, <4>2, <4>3, SMTT(30)
    <3>8. outstanding'[r] = Cardinality(new)
        BY <1>3, <2>1, <2>4, <3>3, <3>7, ZenonT(40)
    <3> QED
        BY <3>8, Zenon DEF new
  <2> QED
      BY <2>3, <2>4
<1>8. ASSUME NEW r \in Rings, waiting_quiet'[r] # << >>
      PROVE  outstanding'[r] > 0
  <2>1. waiting_quiet[r] # << >> => outstanding[r] > 0
      BY <1>1, Zenon DEF QuietIsNeverStranded
  <2>2. waiting_quiet[r] # << >> \/ (r = c /\ outstanding'[c] # 0)
      BY <1>1, <1>8, SubmitWaits, Zenon
  <2> QED
      BY <1>2, <1>3, <2>1, <2>2, SMTT(30)
<1>9. QuietIsNeverStranded'
    BY <1>7, <1>8, Zenon DEF QuietIsNeverStranded
<1> QED
    BY <1>4, <1>9

(* The command at the head of the queue is later than what was posted and  *)
(* earlier than what is still queued.                                      *)
LEMMA HeadInOrder ==
    ASSUME TransportTypeOK, OrderInv, submitRequestsToMPI,
           NEW e \in Elements, NEW c \in Rings, e = Elem, c = Ctx
    PROVE  /\ e.req.idx \in Int /\ Home(c, e.req) /\ e.req.idx < Taken(c)
           /\ \A k \in 1..Len(requests) : requests[k].ctx = c
                => requests[k].req.idx < e.req.idx
           /\ \A k \in 1..Len(waiting_quiet[c]) :
                waiting_quiet[c][k].req.idx < e.req.idx
           /\ \A k \in 1..Len(q') : q'[k].wgid = c => e.req.idx < q'[k].elem.req.idx
<1>1. /\ 1 \in 1..Len(q) /\ e = q[1].elem /\ c = q[1].wgid
      /\ \A k \in 1..Len(q') : k + 1 \in 1..Len(q) /\ q'[k] = q[k + 1]
    BY HeadOfQueue, Zenon
<1>2. e.req.idx \in Int /\ Home(c, e.req) /\ e.req.idx < Taken(c)
    BY <1>1, CarrierTypes, Zenon DEF OrderInv
<1>3. \A k \in 1..Len(requests) : requests[k].ctx = c => requests[k].req.idx < e.req.idx
    BY <1>1, Zenon DEF OrderInv
<1>4. \A k \in 1..Len(waiting_quiet[c]) : waiting_quiet[c][k].req.idx < e.req.idx
    BY <1>1, Zenon DEF OrderInv
<1>5. ASSUME NEW k \in 1..Len(q'), q'[k].wgid = c
      PROVE  e.req.idx < q'[k].elem.req.idx
  <2>1. k + 1 \in 1..Len(q) /\ q'[k] = q[k + 1] /\ 1 < k + 1
      BY <1>1
  <2> QED
      BY <1>1, <1>5, <2>1, Zenon DEF OrderInv
<1> QED
    BY <1>2, <1>3, <1>4, <1>5, Zenon

(* A submission keeps the commands of a context in the order of their      *)
(* indices.                                                                *)
LEMMA SubmitKeepsOrder ==
    ASSUME RingInv, CompletionInv, submitRequestsToMPI,
           NEW e \in Elements, NEW c \in Rings, NEW rs \in Seq(Posted),
           e = Elem, c = Ctx, Submits(e, c, rs)
    PROVE  OrderInv'
<1>1. TransportTypeOK /\ OrderInv
    BY DEF CompletionInv
<1>2. /\ \A k \in 1..Len(q') : k + 1 \in 1..Len(q) /\ q'[k] = q[k + 1]
      /\ UNCHANGED <<ring, host_read_index, cpu>>
    BY <1>1, HeadOfQueue, Zenon
<1>3. /\ e.req.idx \in Int /\ Home(c, e.req) /\ e.req.idx < Taken(c)
      /\ \A k \in 1..Len(q') : q'[k].wgid = c => e.req.idx < q'[k].elem.req.idx
    BY <1>1, HeadInOrder, Zenon
<1>4. \A r \in Rings : Taken(r)' = Taken(r)
    BY <1>2, Zenon DEF Taken
<1>5. \A r \in Rings, s \in Slots : ring'[r][s].valid => Home(r, ring'[r][s].req)
    BY <1>1, <1>2, Zenon DEF OrderInv
<1>6. ASSUME NEW k \in 1..Len(q')
      PROVE  Home(q'[k].wgid, q'[k].elem.req)
             /\ (q[k].elem.req.idx < Taken(q[k].wgid))'
  <2>1. PICK r : r = q'[k].wgid
      BY Zenon
  <2>2. k + 1 \in 1..Len(q) /\ q'[k] = q[k + 1] /\ r = q[k + 1].wgid
      BY <1>2, <2>1, Zenon
  <2>3. r \in Rings /\ Home(r, q[k + 1].elem.req) /\ q[k + 1].elem.req.idx < Taken(r)
      BY <1>1, <2>2, CarrierTypes, Zenon DEF OrderInv
  <2> QED
      BY <1>4, <2>1, <2>2, <2>3, Zenon
<1>7. ASSUME NEW k \in 1..Len(q'), NEW l \in 1..Len(q'), k < l,
             q'[k].wgid = q'[l].wgid
      PROVE  q'[k].elem.req.idx < q'[l].elem.req.idx
  <2>1. k + 1 \in 1..Len(q) /\ l + 1 \in 1..Len(q) /\ k + 1 < l + 1
      BY <1>2, <1>7
  <2>2. q'[k] = q[k + 1] /\ q'[l] = q[l + 1] /\ q[k + 1].wgid = q[l + 1].wgid
      BY <1>2, <1>7, Zenon
  <2>3. \A m, n \in 1..Len(q) :
          m < n /\ q[m].wgid = q[n].wgid => q[m].elem.req.idx < q[n].elem.req.idx
      BY <1>1, Zenon DEF OrderInv
  <2> QED
      BY <2>1, <2>2, <2>3, Zenon
<1>8. ASSUME NEW k \in 1..Len(requests')
      PROVE  /\ Home(requests'[k].ctx, requests'[k].req)
             /\ (requests[k].req.idx < Taken(requests[k].ctx))'
             /\ \A l \in 1..Len(q') : q'[l].wgid = requests'[k].ctx
                  => requests'[k].req.idx < q'[l].elem.req.idx
  <2>1. CASE k \in 1..Len(requests)
    <3>1. PICK r : r = requests[k].ctx
        BY Zenon
    <3>2. requests'[k] = requests[k]
        BY <1>1, <2>1, SubmitPosts, Zenon
    <3>3. /\ r \in Rings /\ Home(r, requests[k].req)
          /\ requests[k].req.idx < Taken(r)
        BY <1>1, <2>1, <3>1, CarrierTypes, Zenon DEF OrderInv
    <3>4. \A l \in 1..Len(q) : q[l].wgid = r => requests[k].req.idx < q[l].elem.req.idx
        BY <1>1, <2>1, <3>1, Zenon DEF OrderInv
    <3>5. \A l \in 1..Len(q') : q'[l].wgid = r
            => requests[k].req.idx < q'[l].elem.req.idx
        BY <1>2, <3>4, Zenon
    <3> QED
        BY <1>4, <3>1, <3>2, <3>3, <3>5, Zenon
  <2>2. CASE k \notin 1..Len(requests)
    <3>1. requests'[k].ctx = c /\ requests'[k].req = e.req
        BY <1>1, <2>2, SubmitPosts, SMTT(30)
    <3> QED
        BY <1>3, <1>4, <3>1, Zenon
  <2> QED
      BY <2>1, <2>2, Zenon
<1>9. ASSUME NEW r \in Rings, NEW k \in 1..Len(waiting_quiet'[r])
      PROVE  /\ Home(r, waiting_quiet'[r][k].req)
             /\ waiting_quiet'[r][k].req.idx < Taken(r)'
             /\ \A l \in 1..Len(q') : q'[l].wgid = r
                  => waiting_quiet'[r][k].req.idx < q'[l].elem.req.idx
  <2>1. CASE k \in 1..Len(waiting_quiet[r])
             /\ waiting_quiet'[r][k] = waiting_quiet[r][k]
    <3>1. /\ Home(r, waiting_quiet[r][k].req)
          /\ waiting_quiet[r][k].req.idx < Taken(r)
          /\ \A l \in 1..Len(q) : q[l].wgid = r
               => waiting_quiet[r][k].req.idx < q[l].elem.req.idx
        BY <1>1, <2>1, Zenon DEF OrderInv
    <3>2. \A l \in 1..Len(q') : q'[l].wgid = r
            => waiting_quiet[r][k].req.idx < q'[l].elem.req.idx
        BY <1>2, <3>1, Zenon
    <3> QED
        BY <1>4, <2>1, <3>1, <3>2, Zenon
  <2>2. CASE r = c /\ waiting_quiet'[r][k] = e
      BY <1>3, <1>4, <2>2, ZenonT(40)
  <2> QED
      BY <1>1, <2>1, <2>2, SubmitWaits, SMTT(30)
<1> QED
    BY <1>5, <1>6, <1>7, <1>8, <1>9, Zenon DEF OrderInv, Home

(* A request that answers a blocking command is posted alone.              *)
LEMMA SubmitKeepsAlone ==
    ASSUME RingInv, CompletionInv, submitRequestsToMPI,
           NEW e \in Elements, NEW c \in Rings, NEW rs \in Seq(Posted),
           e = Elem, c = Ctx, Submits(e, c, rs)
    PROVE  AloneInv'
<1>1. TransportTypeOK /\ OrderInv /\ AloneInv /\ Len(requests) \in Nat
    BY DEF CompletionInv, TransportTypeOK
<1>2. /\ e.req.idx \in Int
      /\ \A k \in 1..Len(requests) : requests[k].ctx = c
           => requests[k].req.idx < e.req.idx
      /\ \A k \in 1..Len(waiting_quiet[c]) :
           waiting_quiet[c][k].req.idx < e.req.idx
    BY <1>1, HeadInOrder, Zenon
<1>3. \A k \in 1..Len(requests) : requests'[k] = requests[k]
                                  /\ requests[k].req.idx \in Int
                                  /\ requests[k].ctx \in Rings
    BY <1>1, SubmitPosts, CarrierTypes, Zenon
<1>4. \A k \in 1..Len(requests') : k \notin 1..Len(requests) =>
        /\ requests'[k].ctx = c /\ requests'[k].req = e.req
        /\ requests'[k].blocking => k = Len(requests) + 1
             /\ Len(requests') = Len(requests) + 1 /\ UNCHANGED waiting_quiet
  <2> TAKE k \in 1..Len(requests')
  <2> HAVE k \notin 1..Len(requests)
  <2>1. requests'[k].ctx = c /\ requests'[k].req = e.req
      BY <1>1, SubmitPosts
  <2>2. ASSUME requests'[k].blocking
        PROVE  k = Len(requests) + 1 /\ Len(requests') = Len(requests) + 1
               /\ UNCHANGED waiting_quiet
    <3>1. Len(rs) = 1 /\ UNCHANGED waiting_quiet
          /\ k \in (Len(requests) + 1)..(Len(requests) + Len(rs))
          /\ Len(requests') = Len(requests) + Len(rs)
        BY <1>1, <2>2, SubmitPosts, SMTT(30)
    <3> QED
        BY <1>1, <3>1, SMTT(30)
  <2> QED
      BY <2>1, <2>2, Zenon
<1>5. \A r \in Rings : \A k \in 1..Len(waiting_quiet'[r]) :
        \/ k \in 1..Len(waiting_quiet[r])
           /\ waiting_quiet'[r][k] = waiting_quiet[r][k]
        \/ r = c /\ waiting_quiet'[r][k] = e
    BY <1>1, SubmitWaits
<1>6. ASSUME NEW k \in 1..Len(requests'), requests'[k].blocking,
             NEW l \in (1..Len(requests')) \ {k}, requests'[l].ctx = requests'[k].ctx
      PROVE  requests'[l].req.idx # requests'[k].req.idx
  <2>1. CASE k \in 1..Len(requests) /\ l \in 1..Len(requests)
      BY <1>1, <1>3, <1>6, <2>1, SMTT(30) DEF AloneInv
  <2>2. CASE k \in 1..Len(requests) /\ l \notin 1..Len(requests)
      BY <1>2, <1>3, <1>4, <1>6, <2>2, SMTT(30)
  <2>3. CASE k \notin 1..Len(requests) /\ l \in 1..Len(requests)
      BY <1>2, <1>3, <1>4, <1>6, <2>3, SMTT(30)
  <2>4. CASE k \notin 1..Len(requests) /\ l \notin 1..Len(requests)
    <3>1. k = Len(requests) + 1 /\ Len(requests') = Len(requests) + 1
        BY <1>4, <1>6, <2>4, Zenon
    <3> QED
        BY <1>1, <1>6, <2>4, <3>1, SMTT(30)
  <2> QED
      BY <2>1, <2>2, <2>3, <2>4, ZenonT(40)
<1>7. ASSUME NEW k \in 1..Len(requests'), requests'[k].blocking,
             NEW r \in Rings, r = requests'[k].ctx, NEW l \in 1..Len(waiting_quiet'[r])
      PROVE  waiting_quiet'[r][l].req.idx # requests'[k].req.idx
  <2>1. CASE k \in 1..Len(requests) /\ l \in 1..Len(waiting_quiet[r])
             /\ waiting_quiet'[r][l] = waiting_quiet[r][l]
    <3>1. requests'[k] = requests[k]
        BY <1>3, <2>1
    <3>2. requests[k].blocking /\ r = requests[k].ctx
        BY <1>7, <3>1, Zenon
    <3>3. waiting_quiet[r][l].req.idx # requests[k].req.idx
        BY <1>1, <2>1, <3>2, Zenon DEF AloneInv
    <3> QED
        BY <2>1, <3>1, <3>3, Zenon
  <2>2. CASE k \in 1..Len(requests) /\ r = c /\ waiting_quiet'[r][l] = e
    <3>1. requests'[k] = requests[k] /\ requests[k].req.idx \in Int
        BY <1>3, <2>2
    <3>2. requests[k].ctx = c
        BY <1>7, <2>2, <3>1, Zenon
    <3> QED
        BY <1>2, <2>2, <3>1, <3>2, SMTT(30)
  <2>3. CASE k \notin 1..Len(requests)
    <3>1. r = c /\ requests'[k].req = e.req /\ UNCHANGED waiting_quiet
        BY <1>4, <1>7, <2>3, Zenon
    <3>2. l \in 1..Len(waiting_quiet[c]) /\ waiting_quiet'[r][l] = waiting_quiet[c][l]
        BY <3>1, Zenon
    <3>3. waiting_quiet[c][l].req.idx < e.req.idx /\ waiting_quiet[c][l].req.idx \in Int
        BY <1>1, <1>2, <3>2, CarrierTypes, ZenonT(40)
    <3> QED
        BY <1>2, <3>1, <3>2, <3>3, SMTT(30)
  <2> QED
      BY <1>5, <2>1, <2>2, <2>3, Zenon
<1>8. \A k \in 1..Len(requests') : requests'[k].ctx \in Rings
    BY <1>3, <1>4
<1> QED
    BY <1>6, <1>7, <1>8, SMTT(30) DEF AloneInv

(* Whoever waited for the command waits for the request that answers it,   *)
(* or for the quiet that was put aside.                                    *)
LEMMA SubmitKeepsOwners ==
    ASSUME RingInv, CompletionInv, submitRequestsToMPI,
           NEW e \in Elements, NEW c \in Rings, NEW rs \in Seq(Posted),
           e = Elem, c = Ctx, Submits(e, c, rs)
    PROVE  OwnerInv'
<1>1. TransportTypeOK /\ OwnerInv
    BY DEF CompletionInv
<1>2. /\ 1 \in 1..Len(q) /\ e = q[1].elem
      /\ \A k \in 1..Len(q') : k + 1 \in 1..Len(q) /\ q'[k] = q[k + 1]
      /\ UNCHANGED <<ring, host_read_index, wave, lane, cpu>>
    BY <1>1, HeadOfQueue, Zenon
<1>3. AwaitsKept
    BY <1>2, HostKeepsLanes, Zenon
<1>4. Blocking(e.type) => \E v \in Waves, j \in LaneIds :
        Awaits(v, j, e.status, e.req)' /\ wave'[v].type = e.type
  <2> HAVE Blocking(e.type)
  <2>1. PICK v \in Waves, j \in LaneIds :
          Awaits(v, j, e.status, e.req) /\ wave[v].type = e.type
      BY <1>1, <1>2, Zenon DEF OwnerInv, QueueOwners
  <2>2. Awaits(v, j, e.status, e.req)' /\ wave'[v] = wave[v]
      BY <1>3, <2>1, Zenon DEF AwaitsKept
  <2> QED
      BY <2>1, <2>2, Zenon
<1>5. RingOwners'
  <2>1. \A r \in Rings : Unread(r)' = Unread(r)
      BY <1>2, Zenon DEF Unread, ReadSlot
  <2> QED
      BY <1>1, <1>2, <1>3, <2>1, RingOwnersKept, Zenon DEF OwnerInv
<1>6. QueueOwners'
  <2> SUFFICES ASSUME NEW k \in 1..Len(q'), Blocking(q'[k].elem.type)
               PROVE  \E v \in Waves, j \in LaneIds :
                        /\ Awaits(v, j, q[k].elem.status, q[k].elem.req)'
                        /\ wave'[v].type = q'[k].elem.type
      BY DEF QueueOwners
  <2>1. PICK x : x = q'[k].elem
      OBVIOUS
  <2>2. k + 1 \in 1..Len(q) /\ x = q[k + 1].elem /\ Blocking(q[k + 1].elem.type)
      BY <1>2, <2>1, Zenon
  <2>3. PICK v \in Waves, j \in LaneIds :
          Awaits(v, j, x.status, x.req) /\ wave[v].type = x.type
      BY <1>1, <2>2, Zenon DEF OwnerInv, QueueOwners
  <2>4. Awaits(v, j, x.status, x.req)' /\ wave'[v] = wave[v]
      BY <1>3, <2>3 DEF AwaitsKept
  <2> QED
      BY <2>1, <2>3, <2>4, ZenonT(40)
<1>7. RequestOwners'
  <2> SUFFICES ASSUME NEW k \in 1..Len(requests'), requests'[k].blocking
               PROVE  \E v \in Waves, j \in LaneIds :
                        /\ Awaits(v, j, requests[k].status, requests[k].req)'
                        /\ ~Drains(wave'[v].type)
      BY Zenon DEF RequestOwners
  <2>1. CASE k \in 1..Len(requests)
    <3>1. requests'[k] = requests[k]
        BY <1>1, <2>1, SubmitPosts, SMTT(30)
    <3>2. requests[k].blocking
        BY <3>1, Zenon
    <3>3. PICK x : x = requests[k]
        OBVIOUS
    <3>4. PICK v \in Waves, j \in LaneIds :
            Awaits(v, j, x.status, x.req) /\ ~Drains(wave[v].type)
        BY <1>1, <2>1, <3>2, <3>3, Zenon DEF OwnerInv, RequestOwners
    <3>5. Awaits(v, j, x.status, x.req)' /\ wave'[v] = wave[v]
        BY <1>3, <3>4, Zenon DEF AwaitsKept
    <3> QED
        BY <3>1, <3>3, <3>4, <3>5, ZenonT(40)
  <2>2. CASE k \notin 1..Len(requests)
    <3>1. /\ requests'[k].req = e.req /\ requests'[k].status = e.status
          /\ Blocking(e.type) /\ ~Drains(e.type)
        BY <1>1, <2>2, SubmitPosts, ZenonT(40)
    <3>2. PICK v \in Waves, j \in LaneIds :
            Awaits(v, j, e.status, e.req)' /\ wave'[v].type = e.type
        BY <1>4, <3>1, Zenon
    <3> QED
        BY <3>1, <3>2, Zenon
  <2> QED
      BY <2>1, <2>2
<1>8. QuietOwners'
  <2> SUFFICES ASSUME NEW r \in Rings, NEW k \in 1..Len(waiting_quiet'[r])
               PROVE  \E v \in Waves, j \in LaneIds :
                        Awaits(v, j, waiting_quiet[r][k].status,
                                     waiting_quiet[r][k].req)'
      BY Zenon DEF QuietOwners
  <2>1. CASE k \in 1..Len(waiting_quiet[r])
             /\ waiting_quiet'[r][k] = waiting_quiet[r][k]
    <3>1. PICK x : x = waiting_quiet[r][k]
        BY Zenon
    <3>2. PICK v \in Waves, j \in LaneIds : Awaits(v, j, x.status, x.req)
        BY <1>1, <2>1, <3>1, Zenon DEF OwnerInv, QuietOwners
    <3>3. Awaits(v, j, x.status, x.req)'
        BY <1>3, <3>2, Zenon DEF AwaitsKept
    <3> QED
        BY <2>1, <3>1, <3>3, Zenon
  <2>2. CASE waiting_quiet'[r][k] = e /\ Blocking(e.type)
      BY <1>4, <2>2, Zenon
  <2> QED
      BY <1>1, <2>1, <2>2, SubmitWaits, SMTT(30)
<1> QED
    BY <1>5, <1>6, <1>7, <1>8, Zenon DEF OwnerInv

(* A lane that is answered at once has nothing of its own left, and a      *)
(* quiet that is answered at once has nothing before it.                   *)
LEMMA AnsweredAtOnce ==
    ASSUME RingInv, CompletionInv, OneWavePerHandle, submitRequestsToMPI,
           NEW e \in Elements, NEW c \in Rings, NEW rs \in Seq(Posted),
           e = Elem, c = Ctx, Submits(e, c, rs),
           NEW w \in Waves, NEW i \in LaneIds, lane[<<w, i>>] \in {"poll", "reset"},
           get_status_flag(w, i) \in raised', get_status_flag(w, i) \notin raised
    PROVE  Over(w, i)'
<1>1. TransportTypeOK /\ QuietIsNeverStranded /\ OrderInv /\ OwnerInv /\ PublishedInv
    BY Zenon DEF CompletionInv
<1>2. /\ get_status_flag(w, i) = e.status /\ Blocking(e.type) /\ rs = << >>
      /\ UNCHANGED waiting_quiet
      /\ Drains(e.type) => outstanding[c] = 0
    BY Zenon DEF Submits
<1>3. /\ 1 \in 1..Len(q) /\ e = q[1].elem
      /\ \A k \in 1..Len(q') : k + 1 \in 1..Len(q) /\ q'[k] = q[k + 1]
      /\ UNCHANGED <<ring, host_read_index, wave, lane, cpu>>
    BY <1>1, HeadOfQueue, Zenon
<1>4. wave[w].type = e.type /\ e.req.h = wave[w].h /\ e.req.idx = Index(w, i)
  <2>1. PICK v \in Waves, j \in LaneIds :
          Awaits(v, j, e.status, e.req) /\ wave[v].type = e.type
      BY <1>1, <1>2, <1>3, ZenonT(40) DEF OwnerInv, QueueOwners
  <2>2. lane[<<v, j>>] # "out" /\ lane[<<w, i>>] # "out"
        /\ get_status_flag(v, j) = get_status_flag(w, i)
      BY <1>2, <2>1 DEF Awaits
  <2>3. v = w /\ j = i
      BY <1>1, <2>2, FlagIsOwn, Zenon
  <2> QED
      BY <2>1, <2>3, Zenon DEF Awaits
<1>5. /\ e.req.idx \in Int /\ Home(c, e.req) /\ e.req.idx < Taken(c)
      /\ \A k \in 1..Len(requests) : requests[k].ctx = c
           => requests[k].req.idx < e.req.idx
      /\ \A k \in 1..Len(waiting_quiet[c]) :
           waiting_quiet[c][k].req.idx < e.req.idx
      /\ \A k \in 1..Len(q') : q'[k].wgid = c => e.req.idx < q'[k].elem.req.idx
    BY <1>1, HeadInOrder, Zenon
<1>6. MyRing(w) = c
    BY <1>4, <1>5, ZenonT(40) DEF Home, MyRing
<1>7. UNCHANGED requests
    BY <1>1, <1>2, SMTT(30) DEF Submits, TransportTypeOK
<1>8. /\ Index(w, i)' = Index(w, i) /\ MyRing(w)' = c /\ wave'[w] = wave[w]
    BY <1>3, <1>6, HostKeepsLanes, Zenon
<1>9. Index(w, i) < Taken(MyRing(w))'
  <2>1. Taken(c)' = Taken(c)
      BY <1>3, ZenonT(40) DEF Taken
  <2> QED
      BY <1>4, <1>5, <1>8, <2>1, Zenon
<1>10. ASSUME NEW k \in 1..Len(q') PROVE Behind(w, i, q'[k].elem.req)
  <2>1. k + 1 \in 1..Len(q) /\ q'[k] = q[k + 1]
      BY <1>3, Zenon
  <2>2. Home(q'[k].wgid, q'[k].elem.req) /\ q'[k].elem.req.idx \in Int
      BY <1>1, <2>1, CarrierTypes, Zenon DEF OrderInv
  <2>3. q'[k].elem.req.h = wave[w].h => q'[k].wgid = c
      BY <1>6, <2>2, ZenonT(40) DEF Home, MyRing
  <2> QED
      BY <1>4, <1>5, <2>2, <2>3, SMTT(30) DEF Behind
<1>11. ASSUME NEW k \in 1..Len(requests) PROVE Behind(w, i, requests[k].req)
  <2>1. Home(requests[k].ctx, requests[k].req) /\ requests[k].req.idx \in Int
      BY <1>1, CarrierTypes, Zenon DEF OrderInv
  <2>2. requests[k].req.h = wave[w].h => requests[k].ctx = c
      BY <1>6, <2>1, Zenon DEF Home, MyRing
  <2>3. Drains(e.type) => requests[k].ctx # c
      BY <1>1, <1>2, OutstandingCounts, ZenonT(40)
  <2> QED
      BY <1>4, <1>5, <2>1, <2>2, <2>3, SMTT(30) DEF Behind
<1>12. ASSUME NEW r \in Rings, NEW k \in 1..Len(waiting_quiet[r])
       PROVE  Behind(w, i, waiting_quiet[r][k].req)
  <2>1. Home(r, waiting_quiet[r][k].req) /\ waiting_quiet[r][k].req.idx \in Int
      BY <1>1, CarrierTypes, Zenon DEF OrderInv
  <2>2. waiting_quiet[r][k].req.h = wave[w].h => r = c
      BY <1>6, <2>1, Zenon DEF Home, MyRing
  <2>3. Drains(e.type) => r # c
    <3>1. waiting_quiet[r] # << >>
        BY <1>1 DEF TransportTypeOK
    <3>2. outstanding[r] > 0
        BY <1>1, <3>1, Zenon DEF QuietIsNeverStranded
    <3> QED
        BY <1>2, <3>2, SMTT(30)
  <2> QED
      BY <1>4, <1>5, <2>1, <2>2, <2>3, SMTT(30) DEF Behind
<1> QED
    BY <1>2, <1>7, <1>8, <1>9, <1>10, <1>11, <1>12, Zenon DEF Over, Behind

(* A submission raises a status byte only for a command that is over.      *)
LEMMA SubmitKeepsAnswered ==
    ASSUME RingInv, CompletionInv, OneWavePerHandle, submitRequestsToMPI,
           NEW e \in Elements, NEW c \in Rings, NEW rs \in Seq(Posted),
           e = Elem, c = Ctx, Submits(e, c, rs)
    PROVE  AnsweredInv'
<1>1. TransportTypeOK /\ OwnerInv /\ AnsweredInv
    BY DEF CompletionInv
<1>2. /\ 1 \in 1..Len(q) /\ e = q[1].elem
      /\ \A k \in 1..Len(q') : k + 1 \in 1..Len(q) /\ q'[k] = q[k + 1]
      /\ UNCHANGED <<ring, host_read_index, wave, lane, cpu>>
    BY <1>1, HeadOfQueue, Zenon
<1>3. raised \subseteq raised' /\ raised' \subseteq raised \cup {e.status}
      /\ (raised' # raised => Blocking(e.type))
    BY Zenon DEF Submits
<1>4. \A v \in Waves, j \in LaneIds :
        /\ Index(v, j)' = Index(v, j) /\ MyRing(v)' = MyRing(v)
        /\ get_status_flag(v, j)' = get_status_flag(v, j)
    BY <1>2, HostKeepsLanes, Zenon
<1>5. FlagOwners'
  <2> SUFFICES ASSUME NEW st \in raised'
               PROVE  \E v \in Waves, j \in LaneIds :
                        /\ lane'[<<v, j>>] \in {"poll", "reset"}
                        /\ st = get_status_flag(v, j)'
      BY Zenon DEF FlagOwners
  <2>1. \E v \in Waves, j \in LaneIds :
          lane[<<v, j>>] \in {"poll", "reset"} /\ st = get_status_flag(v, j)
    <3>1. CASE st \in raised
      <4>1. FlagOwners
          BY <1>1, Zenon DEF AnsweredInv
      <4> QED
          BY <3>1, <4>1, Zenon DEF FlagOwners
    <3>2. CASE st \notin raised
      <4>1. st = e.status /\ Blocking(e.type)
          BY <1>3, <3>2, Zenon
      <4>2. PICK v \in Waves, j \in LaneIds : Awaits(v, j, e.status, e.req)
          BY <1>1, <1>2, <4>1, Zenon DEF OwnerInv, QueueOwners
      <4> QED
          BY <4>1, <4>2 DEF Awaits
    <3> QED
        BY <3>1, <3>2, Zenon
  <2> QED
      BY <1>2, <1>4, <2>1
<1>6. ASSUME NEW w \in Waves, NEW i \in LaneIds,
             lane[<<w, i>>] \in {"poll", "reset"}, get_status_flag(w, i) \in raised
      PROVE  Over(w, i)'
  <2>1. Over(w, i)
      BY <1>1, <1>6, Zenon DEF AnsweredInv
  <2>2. Index(w, i)' < Taken(MyRing(w))'
    <3>1. PICK r : r = MyRing(w)
        BY Zenon
    <3>2. Taken(r)' = Taken(r)
        BY <1>2, Zenon DEF Taken
    <3> QED
        BY <1>4, <2>1, <3>1, <3>2, Zenon DEF Over
  <2>3. \A k \in 1..Len(q') : Behind(w, i, q'[k].elem.req)
      BY <1>2, <2>1, Zenon DEF Over
  <2>4. Behind(w, i, e.req)
      BY <1>2, <2>1, Zenon DEF Over
  <2>5. ASSUME NEW k \in 1..Len(requests') PROVE Behind(w, i, requests'[k].req)
    <3>1. CASE k \in 1..Len(requests)
      <4>1. requests'[k] = requests[k]
          BY <1>1, <3>1, SubmitPosts, Zenon
      <4> QED
          BY <2>1, <3>1, <4>1, Zenon DEF Over
    <3>2. CASE k \notin 1..Len(requests)
      <4>1. requests'[k].req = e.req
          BY <1>1, <3>2, SubmitPosts, ZenonT(40)
      <4> QED
          BY <2>4, <4>1, Zenon
    <3> QED
        BY <3>1, <3>2, Zenon
  <2>6. ASSUME NEW r \in Rings, NEW k \in 1..Len(waiting_quiet'[r])
        PROVE  Behind(w, i, waiting_quiet'[r][k].req)
    <3>1. CASE k \in 1..Len(waiting_quiet[r])
               /\ waiting_quiet'[r][k] = waiting_quiet[r][k]
        BY <2>1, <3>1, Zenon DEF Over
    <3>2. CASE waiting_quiet'[r][k] = e
        BY <2>4, <3>2, SMTT(30)
    <3> QED
        BY <1>1, <3>1, <3>2, SubmitWaits, SMTT(30)
  <2> QED
      BY <1>2, <1>4, <2>2, <2>3, <2>5, <2>6, Zenon DEF Over, Behind
<1>7. ASSUME NEW w \in Waves, NEW i \in LaneIds,
             lane'[<<w, i>>] \in {"poll", "reset"}, get_status_flag(w, i)' \in raised'
      PROVE  Over(w, i)'
  <2>1. lane[<<w, i>>] \in {"poll", "reset"} /\ get_status_flag(w, i) \in raised'
      BY <1>2, <1>4, <1>7, ZenonT(40)
  <2>2. CASE get_status_flag(w, i) \in raised
      BY <1>6, <2>1, <2>2, SMTT(30)
  <2>3. CASE get_status_flag(w, i) \notin raised
      BY <2>1, <2>3, AnsweredAtOnce, ZenonT(40)
  <2> QED
      BY <2>2, <2>3, Zenon
<1>8. \A w \in Waves, i \in LaneIds :
        lane'[<<w, i>>] = "reset" => get_status_flag(w, i)' \in raised'
    BY <1>1, <1>2, <1>3, <1>4, SMTT(30) DEF AnsweredInv
<1> QED
    BY <1>5, <1>7, <1>8, SMTT(30) DEF AnsweredInv

(* Submitting a command preserves the invariant.                           *)
LEMMA SubmitKeepsCompletion ==
    ASSUME RingInv, CompletionInv, OneWavePerHandle, submitRequestsToMPI
    PROVE  CompletionInv'
<1>1. TransportTypeOK /\ QuietIsNeverStranded /\ PublishedInv
    BY DEF CompletionInv
<1>2. PICK e \in Elements, c \in Rings, rs \in Seq(Posted) :
        e = Elem /\ c = Ctx /\ Submits(e, c, rs)
    BY <1>1, SubmitShape, Zenon
<1>3. PublishedInv'
  <2>1. UNCHANGED <<ring, wave, lane>>
      BY <1>1, HeadOfQueue, SMTT(30)
  <2> QED
      BY <1>1, <2>1, HostKeepsLanes, ZenonT(40) DEF PublishedInv
<1>4. TransportTypeOK' /\ QuietIsNeverStranded'
    BY <1>2, SubmitKeepsTransport, SMTT(30)
<1>5. OrderInv'
    BY <1>2, SubmitKeepsOrder, SMTT(30)
<1>6. AloneInv'
    BY <1>2, SubmitKeepsAlone, Zenon
<1>7. OwnerInv'
    BY <1>2, SubmitKeepsOwners
<1>8. AnsweredInv'
    BY <1>2, SubmitKeepsAnswered, Zenon
<1> QED
    BY <1>3, <1>4, <1>5, <1>6, <1>7, <1>8, Zenon DEF CompletionInv

-----------------------------------------------------------------------------
(*                       MPI and the progress loop                         *)

(* What is left of a sequence, in order.                                   *)
Kept(s, rest) == [j \in 1..Cardinality(rest) |-> s[Nth(rest, j)]]

(* The positions in S that belong to a context.                            *)
OfCtx(s, S, c) == {k \in S : s[k].ctx = c}

(* What is left of a sequence is a sequence, as long as the set of kept    *)
(* positions is large.                                                     *)
LEMMA KeptIsSequence ==
    ASSUME NEW n \in Nat, NEW s \in [1..n -> Posted], NEW rest \in SUBSET (1..n)
    PROVE  Kept(s, rest) \in Seq(Posted) /\ Len(Kept(s, rest)) = Cardinality(rest)
<1>1. /\ Cardinality(rest) \in Nat
      /\ \A j \in 1..Cardinality(rest) : Nth(rest, j) \in rest
    BY NthEnumerates, Zenon
<1>2. \A k \in rest : s[k] \in Posted
    OBVIOUS
<1>3. \A j \in 1..Cardinality(rest) : s[Nth(rest, j)] \in Posted
    BY <1>1, <1>2, Zenon
<1>4. Kept(s, rest) \in [1..Cardinality(rest) -> Posted]
    BY <1>3, Zenon DEF Kept
<1>5. PICK m \in Nat : m = Cardinality(rest)
    BY <1>1, Zenon
<1>6. PICK t \in [1..m -> Posted] : t = Kept(s, rest)
    BY <1>4, <1>5, Zenon
<1>7. t \in Seq(Posted) /\ Len(t) = m
    BY <1>6
<1> QED
    BY <1>5, <1>6, <1>7, Zenon

(* The entries of a context that are left are those that were there,       *)
(* without the erased ones.                                                *)
LEMMA KeptCounts ==
    ASSUME NEW n \in Nat, NEW s \in [1..n -> Posted], NEW F \in SUBSET (1..n),
           NEW t \in Seq(Posted), t = Kept(s, (1..n) \ F), NEW c
    PROVE  /\ Cardinality(OfCtx(s, 1..n, c)) \in Nat
           /\ Cardinality(OfCtx(s, F, c)) \in Nat
           /\ Cardinality(OfCtx(t, 1..Len(t), c)) \in Nat
           /\ Cardinality(OfCtx(t, 1..Len(t), c))
                = Cardinality(OfCtx(s, 1..n, c)) - Cardinality(OfCtx(s, F, c))
<1> DEFINE rest == (1..n) \ F
<1>1. \A k : k \in rest <=> k \in 1..n /\ k \notin F
    OBVIOUS
<1>2. rest \in SUBSET (1..n) /\ t = Kept(s, rest)
    OBVIOUS
<1> HIDE DEF rest
<1>3. /\ \A j \in 1..Cardinality(rest) : Nth(rest, j) \in rest
      /\ \A i, j \in 1..Cardinality(rest) : Nth(rest, i) = Nth(rest, j) => i = j
      /\ \A k \in rest : \E j \in 1..Cardinality(rest) : Nth(rest, j) = k
    BY <1>2, NthEnumerates, Zenon
<1>4. /\ Len(t) = Cardinality(rest)
      /\ \A j \in 1..Len(t) : t[j] = s[Nth(rest, j)]
  <2>1. Len(t) = Cardinality(rest)
      BY <1>2, KeptIsSequence, Zenon
  <2>2. \A j \in 1..Cardinality(rest) : t[j] = s[Nth(rest, j)]
      BY <1>2, Zenon DEF Kept
  <2> QED
      BY <2>1, <2>2, Zenon
<1> DEFINE A == OfCtx(s, 1..n, c)
           B == OfCtx(s, F, c)
           J == OfCtx(t, 1..Len(t), c)
           K == OfCtx(s, rest, c)
<1>5. /\ \A k : k \in A <=> k \in 1..n /\ s[k].ctx = c
      /\ \A k : k \in B <=> k \in F /\ s[k].ctx = c
      /\ \A j : j \in J <=> j \in 1..Len(t) /\ t[j].ctx = c
      /\ \A k : k \in K <=> k \in rest /\ s[k].ctx = c
    BY Zenon DEF OfCtx
<1>6. \A k : k \in F => k \in 1..n
    BY Zenon
<1> SUFFICES /\ Cardinality(A) \in Nat /\ Cardinality(B) \in Nat
             /\ Cardinality(J) \in Nat
             /\ Cardinality(J) = Cardinality(A) - Cardinality(B)
    OBVIOUS
<1> HIDE DEF A, B, J, K
<1>7. IsFiniteSet(A)
  <2>1. 1 \in Int /\ n \in Int
      OBVIOUS
  <2>2. IsFiniteSet(1..n)
      BY <2>1, FS_Interval
  <2>3. A \subseteq 1..n
      BY <1>5, Zenon
  <2> QED
      BY <2>2, <2>3, FS_Subset, Zenon
<1>8. A \ B = K /\ A \cap B = B
    BY <1>1, <1>5, <1>6, Zenon
<1>9. IsFiniteSet(B) /\ IsFiniteSet(K)
  <2>1. B \subseteq A /\ K \subseteq A
      BY <1>1, <1>5, <1>6, Zenon
  <2> QED
      BY <1>7, <2>1, FS_Subset, SMTT(30)
<1>10. Cardinality(K) = Cardinality(A) - Cardinality(B)
  <2>1. Cardinality(A \ B) = Cardinality(A) - Cardinality(A \cap B)
      BY <1>7, FS_Difference, Zenon
  <2> QED
      BY <1>8, <2>1, Zenon
<1>11. Cardinality(A) \in Nat /\ Cardinality(B) \in Nat /\ Cardinality(K) \in Nat
    BY <1>7, <1>9, FS_CardinalityType, Zenon
<1>12. Cardinality(J) = Cardinality(K)
  <2> DEFINE f == [j \in J |-> Nth(rest, j)]
  <2>1. \A j \in J : j \in 1..Cardinality(rest) /\ Nth(rest, j) \in K
    <3> SUFFICES ASSUME NEW j, j \in J
                 PROVE  j \in 1..Cardinality(rest) /\ Nth(rest, j) \in K
        BY Zenon
    <3>1. j \in 1..Cardinality(rest) /\ t[j].ctx = c /\ t[j] = s[Nth(rest, j)]
        BY <1>4, <1>5, Zenon
    <3>2. Nth(rest, j) \in rest
        BY <1>3, <3>1, Zenon
    <3> QED
        BY <1>5, <3>1, <3>2, Zenon
  <2>2. f \in [J -> K]
      BY <2>1, Zenon
  <2>3. \A i, j \in J : f[i] = f[j] => i = j
      BY <1>3, <2>1, Zenon
  <2>4. \A k \in K : \E j \in J : f[j] = k
    <3> SUFFICES ASSUME NEW k, k \in K PROVE \E j \in J : f[j] = k
        BY Zenon
    <3>1. k \in rest /\ s[k].ctx = c
        BY <1>5, Zenon
    <3>2. PICK j \in 1..Cardinality(rest) : Nth(rest, j) = k
        BY <1>3, <3>1, Zenon
    <3>3. j \in J
        BY <1>4, <1>5, <3>1, <3>2, Zenon
    <3> QED
        BY <3>2, <3>3, Zenon
  <2>5. IsFiniteSet(J) /\ Cardinality(J) = Cardinality(K)
    <3> HIDE DEF f
    <3> QED
        BY <1>9, <2>2, <2>3, <2>4, PairedCount, ZenonT(40)
  <2> QED
      BY <2>5
<1> QED
    BY <1>10, <1>11, <1>12, Zenon

(* The counts of the progress loop are exact: the quiets it leaves waiting *)
(* wait for a request that is still there.                                 *)
LEMMA ProgressKeepsTransport ==
    ASSUME TransportTypeOK, QuietIsNeverStranded, progress
    PROVE  /\ TransportTypeOK' /\ QuietIsNeverStranded'
           /\ \A c \in Rings : outstanding'[c] = 0
                => \A j \in 1..Len(requests') : requests'[j].ctx # c
<1> DEFINE finished == {k \in Tested : requests[k].done}
           gone(c) == {k \in finished : requests[k].ctx = c}
           drained == {c \in Rings : /\ outstanding[c] - Cardinality(gone(c)) = 0
                                     /\ \E k \in finished : requests[k].ctx = c}
<1>0. PICK n \in Nat : n = Len(requests) /\ requests \in [1..n -> Posted]
    BY DEF TransportTypeOK
<1>1. PICK s \in [1..n -> Posted] : n = Len(requests) /\ s = requests
    BY <1>0, Zenon
<1>2. PICK F \in SUBSET (1..n) : F = finished
  <2>1. \A k \in Tested : k \in 1..n
      BY <1>1, SizesAssumption DEF Tested
  <2> HIDE DEF Tested
  <2>2. finished \in SUBSET (1..n)
      BY <2>1, ZenonT(40)
  <2> QED
      BY <2>2, Zenon
<1>3. /\ outstanding' = [c \in Rings |-> outstanding[c] - Cardinality(gone(c))]
      /\ waiting_quiet' = [c \in Rings |->
                             IF c \in drained THEN << >> ELSE waiting_quiet[c]]
      /\ UNCHANGED q
    BY DEF progress
<1>4. PICK t \in Seq(Posted) : t = Kept(s, (1..n) \ F) /\ requests' = t
  <2>1. requests' = Erase(requests, finished)
      BY DEF progress
  <2> HIDE DEF finished
  <2>2. requests' = Kept(s, (1..n) \ F)
      BY <1>1, <1>2, <2>1, Zenon DEF Erase, Kept
  <2>3. (1..n) \ F \in SUBSET (1..n)
      OBVIOUS
  <2>4. Kept(s, (1..n) \ F) \in Seq(Posted)
      BY <2>3, KeptIsSequence, Zenon
  <2> QED
      BY <2>2, <2>4, ZenonT(40)
<1>5. ASSUME NEW c \in Rings
      PROVE  /\ Cardinality(gone(c)) \in Nat /\ outstanding[c] \in Nat
             /\ outstanding'[c] = outstanding[c] - Cardinality(gone(c))
             /\ outstanding'[c] \in Nat
             /\ outstanding'[c] = Cardinality(OfCtx(t, 1..Len(t), c))
  <2>0. t = Kept(s, (1..n) \ F)
      BY <1>4, Zenon
  <2>1. /\ Cardinality(OfCtx(s, 1..n, c)) \in Nat
        /\ Cardinality(OfCtx(s, F, c)) \in Nat
        /\ Cardinality(OfCtx(t, 1..Len(t), c)) \in Nat
        /\ Cardinality(OfCtx(t, 1..Len(t), c))
             = Cardinality(OfCtx(s, 1..n, c)) - Cardinality(OfCtx(s, F, c))
      BY <2>0, KeptCounts, SMTT(30)
  <2>2. outstanding[c] = Cardinality(OfCtx(s, 1..n, c))
      BY <1>1, Zenon DEF QuietIsNeverStranded, OfCtx
  <2>3. outstanding'[c] = outstanding[c] - Cardinality(gone(c))
      BY <1>3, Zenon
  <2>4. Cardinality(gone(c)) = Cardinality(OfCtx(s, F, c))
    <3> HIDE DEF finished
    <3> QED
        BY <1>1, <1>2, Zenon DEF OfCtx
  <2> HIDE DEF gone
  <2> QED
      BY <2>1, <2>2, <2>3, <2>4, Zenon
<1> HIDE DEF gone
<1>6. TransportTypeOK'
  <2>1. waiting_quiet' \in [Rings -> Seq(Elements)]
    <3>1. \A c \in Rings : waiting_quiet[c] \in Seq(Elements)
        BY DEF TransportTypeOK
    <3>2. << >> \in Seq(Elements)
        OBVIOUS
    <3> HIDE DEF drained
    <3> QED
        BY <1>3, <3>1, <3>2, Zenon
  <2>2. outstanding' \in [Rings -> Int]
    <3>1. \A c \in Rings : outstanding[c] - Cardinality(gone(c)) \in Int
        BY <1>5
    <3> QED
        BY <1>3, <3>1, ZenonT(40)
  <2>3. q' \in Seq(Entries) /\ requests' \in Seq(Posted)
      BY <1>3, <1>4 DEF TransportTypeOK
  <2> QED
      BY <2>1, <2>2, <2>3, Zenon DEF TransportTypeOK
<1>7. ASSUME NEW c \in Rings, outstanding'[c] = 0, NEW j \in 1..Len(t)
      PROVE  t[j].ctx # c
  <2> DEFINE J == OfCtx(t, 1..Len(t), c)
  <2>1. Cardinality(J) = 0
      BY <1>5, <1>7, Zenon
  <2>2. IsFiniteSet(J)
    <3>1. PICK m \in Nat : m = Len(t)
        OBVIOUS
    <3>2. 1 \in Int /\ m \in Int
        OBVIOUS
    <3>3. IsFiniteSet(1..m)
        BY <3>2, FS_Interval, SMTT(30)
    <3>4. J \subseteq 1..m
        BY <3>1, Zenon DEF OfCtx
    <3> HIDE DEF J
    <3> QED
        BY <3>3, <3>4, FS_Subset, Zenon
  <2>3. J = {}
    <3> HIDE DEF J
    <3> QED
        BY <2>1, <2>2, FS_EmptySet, Zenon
  <2> QED
      BY <2>3, Zenon DEF OfCtx
<1>8. ASSUME NEW c \in Rings, waiting_quiet'[c] # << >> PROVE outstanding'[c] > 0
  <2>1. c \notin drained /\ waiting_quiet[c] # << >>
    <3> HIDE DEF drained
    <3> QED
        BY <1>3, <1>8
  <2>2. outstanding[c] > 0
      BY <2>1, Zenon DEF QuietIsNeverStranded
  <2>3. CASE gone(c) = {}
    <3>1. Cardinality(gone(c)) = 0
        BY <2>3, FS_EmptySet, Zenon
    <3> QED
        BY <1>5, <2>2, <3>1, SMTT(30)
  <2>4. CASE gone(c) # {}
    <3>1. \E k \in finished : requests[k].ctx = c
        BY <2>4, Zenon DEF gone
    <3>2. outstanding[c] - Cardinality(gone(c)) # 0
        BY <2>1, <3>1, Zenon
    <3>3. outstanding'[c] \in Nat /\ outstanding'[c] # 0
        BY <1>5, <3>2, Zenon
    <3> QED
        BY <3>3
  <2> QED
      BY <2>3, <2>4, Zenon
<1>9. QuietIsNeverStranded'
    BY <1>4, <1>5, <1>8, Zenon DEF QuietIsNeverStranded, OfCtx
<1>10. \A c \in Rings : outstanding'[c] = 0
         => \A j \in 1..Len(requests') : requests'[j].ctx # c
    BY <1>4, <1>7, Zenon
<1> QED
    BY <1>6, <1>9, <1>10, Zenon

(* The progress loop settles the requests MPI reports done and the quiets  *)
(* of the contexts that have none left.                                    *)
LEMMA ProgressSettles ==
    ASSUME TransportTypeOK, QuietIsNeverStranded, progress
    PROVE  \E F \in SUBSET (1..Len(requests)), D \in SUBSET Rings :
             \E pos : Settles(pos, F, D)
<1> DEFINE finished == {k \in Tested : requests[k].done}
           drained == {c \in Rings :
                         /\ outstanding[c]
                              - Cardinality({k \in finished : requests[k].ctx = c}) = 0
                         /\ \E k \in finished : requests[k].ctx = c}
<1>0. PICK n \in Nat : n = Len(requests) /\ requests \in [1..n -> Posted]
    BY DEF TransportTypeOK
<1>1. PICK s \in [1..n -> Posted] : n = Len(requests) /\ s = requests
    BY <1>0, Zenon
<1>2. PICK F \in SUBSET (1..n) : F = finished
  <2>1. \A k \in Tested : k \in 1..n
      BY <1>1, SizesAssumption DEF Tested
  <2> HIDE DEF Tested
  <2>2. finished \in SUBSET (1..n)
      BY <2>1
  <2> QED
      BY <2>2, Zenon
<1>3. PICK D \in SUBSET Rings : D = drained
  <2>1. drained \in SUBSET Rings
      BY Zenon
  <2> HIDE DEF drained
  <2> QED
      BY <2>1, Zenon
<1>4. /\ requests' = Erase(requests, finished)
      /\ outstanding' = [c \in Rings |-> outstanding[c]
                           - Cardinality({k \in finished : requests[k].ctx = c})]
      /\ waiting_quiet' = [c \in Rings |->
                             IF c \in drained THEN << >> ELSE waiting_quiet[c]]
      /\ UNCHANGED <<ring, host_read_index, wave, lane, cpu, q>>
    BY Zenon DEF progress, ringVars, gpuVars
<1>5. raised' = raised \cup
        (({requests[k].status : k \in {k \in finished : requests[k].blocking}}
          \cup UNION {{e.status : e \in Items(waiting_quiet[c])} : c \in drained})
         \ {NoStatus})
    BY Zenon DEF progress, notify
<1>6. PICK rest \in SUBSET (1..n) : rest = (1..n) \ F
  <2>1. (1..n) \ F \in SUBSET (1..n)
      OBVIOUS
  <2> QED
      BY <2>1, Zenon
<1>7. /\ \A j \in 1..Cardinality(rest) : Nth(rest, j) \in rest
      /\ \A i, j \in 1..Cardinality(rest) : Nth(rest, i) = Nth(rest, j) => i = j
    BY NthEnumerates, Zenon
<1>8. PICK t \in Seq(Posted) : t = Kept(s, rest) /\ requests' = t
  <2> HIDE DEF finished
  <2>1. requests' = Kept(s, rest)
      BY <1>1, <1>2, <1>4, <1>6, Zenon DEF Erase, Kept
  <2>2. Kept(s, rest) \in Seq(Posted)
      BY KeptIsSequence, Zenon
  <2> QED
      BY <2>1, <2>2, Zenon
<1>9. PICK m : m = Cardinality(rest) /\ Len(t) = m
    BY <1>8, KeptIsSequence, Zenon
<1>10. \A j \in 1..m : t[j] = s[Nth(rest, j)] /\ Nth(rest, j) \in rest
    BY <1>7, <1>8, <1>9, Zenon DEF Kept
<1> DEFINE pos == [j \in 1..m |-> Nth(rest, j)]
<1>11. pos \in [1..m -> rest] /\ \A j \in 1..m : t[j] = s[pos[j]]
    BY <1>10, Zenon
<1>12. \A i, j \in 1..m : pos[i] = pos[j] => i = j
    BY <1>7, <1>9, Zenon
<1>13. \A c \in D : outstanding'[c] = 0
  <2> SUFFICES ASSUME NEW c, c \in D PROVE outstanding'[c] = 0
      BY Zenon
  <2>1. /\ c \in Rings
        /\ outstanding[c] - Cardinality({k \in finished : requests[k].ctx = c}) = 0
      BY <1>3, Zenon
  <2>2. outstanding'[c]
          = outstanding[c] - Cardinality({k \in finished : requests[k].ctx = c})
      BY <1>4, <2>1, Zenon
  <2> QED
      BY <2>1, <2>2, Zenon
<1>14. \A j \in 1..m : t[j].ctx \notin D
  <2>1. \A c \in Rings : outstanding'[c] = 0
          => \A j \in 1..Len(requests') : requests'[j].ctx # c
      BY ProgressKeepsTransport
  <2>2. D \subseteq Rings
      BY Zenon
  <2> QED
      BY <1>8, <1>9, <1>13, <2>1, <2>2, ZenonT(40)
<1>15. /\ \A c \in D : waiting_quiet'[c] = << >>
       /\ \A c \in Rings \ D : waiting_quiet'[c] = waiting_quiet[c]
  <2>1. \A c \in D : c \in Rings /\ c \in drained
      BY <1>3, Zenon
  <2>2. \A c \in Rings \ D : c \notin drained
      BY <1>3
  <2> HIDE DEF drained
  <2> QED
      BY <1>4, <2>1, <2>2, Zenon
<1>16. raised \subseteq raised'
    BY <1>5, Zenon
<1>17. \A st \in raised' :
         \/ st \in raised
         \/ \E k \in F : requests[k].blocking /\ st = requests[k].status
         \/ \E c \in D : \E k \in 1..Len(waiting_quiet[c]) :
              st = waiting_quiet[c][k].status
  <2> SUFFICES ASSUME NEW st, st \in raised', st \notin raised
               PROVE  \/ \E k \in F : requests[k].blocking /\ st = requests[k].status
                      \/ \E c \in D : \E k \in 1..Len(waiting_quiet[c]) :
                           st = waiting_quiet[c][k].status
      BY Zenon
  <2>1. \/ \E k \in finished : requests[k].blocking /\ st = requests[k].status
        \/ \E c \in drained : \E e \in Items(waiting_quiet[c]) : st = e.status
    <3> HIDE DEF finished, drained
    <3> QED
        BY <1>5, Zenon
  <2>2. ASSUME NEW c \in D, NEW e \in Items(waiting_quiet[c]), st = e.status
        PROVE  \E k \in 1..Len(waiting_quiet[c]) : st = waiting_quiet[c][k].status
    <3>1. c \in Rings /\ waiting_quiet[c] \in Seq(Elements)
        BY DEF TransportTypeOK
    <3>2. PICK k \in DOMAIN waiting_quiet[c] : e = waiting_quiet[c][k]
        BY Zenon DEF Items
    <3>3. k \in 1..Len(waiting_quiet[c])
        BY <3>1
    <3> QED
        BY <2>2, <3>2, <3>3, Zenon
  <2> HIDE DEF finished, drained
  <2> QED
      BY <1>2, <1>3, <2>1, <2>2, Zenon
<1>18. Settles(pos, F, D)
  <2>1. pos \in [1..Len(requests') -> (1..Len(requests)) \ F]
      BY <1>1, <1>6, <1>8, <1>9, <1>11, Zenon
  <2> HIDE DEF pos
  <2>2. \A j \in 1..Len(requests') : requests'[j] = requests[pos[j]]
      BY <1>1, <1>8, <1>9, <1>11, Zenon
  <2>3. \A j \in 1..Len(requests') :
          /\ requests'[j].ctx = requests[pos[j]].ctx
          /\ requests'[j].req = requests[pos[j]].req
          /\ requests'[j].status = requests[pos[j]].status
          /\ requests'[j].blocking => requests[pos[j]].blocking
          /\ requests'[j].ctx \notin D
      BY <1>8, <1>9, <1>14, <2>2, Zenon
  <2>4. \A i, j \in 1..Len(requests') : pos[i] = pos[j] => i = j
      BY <1>8, <1>9, <1>12, Zenon
  <2> QED
      BY <1>4, <1>15, <1>16, <1>17, <2>1, <2>3, <2>4, Zenon DEF Settles
<1>19. F \in SUBSET (1..Len(requests))
    BY <1>1, Zenon
<1> QED
    BY <1>18, <1>19, Zenon

(* The progress loop preserves the invariant.                              *)
LEMMA ProgressKeepsCompletion ==
    ASSUME RingInv, CompletionInv, OneWavePerHandle, progress
    PROVE  CompletionInv'
<1>1. TransportTypeOK /\ QuietIsNeverStranded
    BY DEF CompletionInv
<1>2. PICK F \in SUBSET (1..Len(requests)), D \in SUBSET Rings :
        \E pos : Settles(pos, F, D)
    BY <1>1, ProgressSettles
<1>3. PICK pos : Settles(pos, F, D)
    BY <1>2
<1>4. TransportTypeOK' /\ QuietIsNeverStranded'
    BY <1>1, ProgressKeepsTransport
<1> QED
    BY <1>3, <1>4, SettleKeepsCompletion, Zenon

(* MPI completes a request: nobody learns of it before the progress loop.  *)
LEMMA MPIKeepsCompletion ==
    ASSUME RingInv, CompletionInv, OneWavePerHandle,
           NEW k \in 1..Len(requests), MPICompletes(k)
    PROVE  CompletionInv'
<1>1. TransportTypeOK /\ QuietIsNeverStranded
    BY DEF CompletionInv
<1>2. /\ requests' = [requests EXCEPT ![k].done = TRUE]
      /\ UNCHANGED <<ring, host_read_index, wave, lane, raised, cpu, q, outstanding,
                     waiting_quiet>>
    BY DEF MPICompletes, ringVars, gpuVars
<1>3. /\ requests' \in Seq(Posted) /\ Len(requests') = Len(requests)
      /\ \A j \in 1..Len(requests) :
           /\ requests'[j].ctx = requests[j].ctx
           /\ requests'[j].req = requests[j].req
           /\ requests'[j].status = requests[j].status
           /\ requests'[j].blocking = requests[j].blocking
  <2>1. requests \in Seq(Posted)
      BY <1>1 DEF TransportTypeOK
  <2>2. PICK x \in Posted : x = requests[k]
      BY <2>1
  <2>3. PICK y : y = [x EXCEPT !.done = TRUE]
      BY Zenon
  <2>4. y.ctx = x.ctx /\ y.req = x.req /\ y.status = x.status
      BY <2>3 DEF Posted
  <2>5. y.blocking = x.blocking
      BY <2>3 DEF Posted
  <2>9. y \in Posted
      BY <2>3, Zenon DEF Posted
  <2>6. requests' = [requests EXCEPT ![k] = y]
      BY <1>2, <2>2, <2>3, Zenon
  <2>7. requests' \in Seq(Posted) /\ Len(requests') = Len(requests)
      BY <2>1, <2>9, <2>6, SMTT(30)
  <2>8. \A j \in 1..Len(requests) : requests'[j] = IF j = k THEN y ELSE requests[j]
      BY <2>1, <2>6
  <2> QED
      BY <2>2, <2>4, <2>5, <2>7, <2>8, Zenon
<1>4. TransportTypeOK'
    BY <1>1, <1>2, <1>3, Zenon DEF TransportTypeOK
<1>5. QuietIsNeverStranded'
  <2>1. \A r \in Rings : {j \in 1..Len(requests') : requests'[j].ctx = r}
                           = {j \in 1..Len(requests) : requests[j].ctx = r}
      BY <1>3, Zenon
  <2> QED
      BY <1>1, <1>2, <2>1, Zenon DEF QuietIsNeverStranded
<1>6. PICK pos : pos = [j \in 1..Len(requests) |-> j]
    BY Zenon
<1>7. Settles(pos, {}, {})
  <2>1. pos \in [1..Len(requests') -> (1..Len(requests)) \ {}]
      BY <1>3, <1>6
  <2>2. \A j \in 1..Len(requests') : pos[j] = j
      BY <1>3, <1>6
  <2> QED
      BY <1>2, <1>3, <2>1, <2>2, SMTT(30) DEF Settles
<1>8. {} \in SUBSET (1..Len(requests)) /\ {} \in SUBSET Rings
    BY Zenon
<1> QED
    BY <1>4, <1>5, <1>7, <1>8, SettleKeepsCompletion, Zenon
-----------------------------------------------------------------------------
(*                        The completion theorems                          *)

(* Initially nothing is under way and no status byte is raised.            *)
LEMMA InitCompletion == ASSUME Init PROVE CompletionInv
<1>1. /\ ring = [r \in Rings |-> [s \in Slots |-> EmptySlot]]
      /\ wave = [w \in Waves |-> IdleWave]
      /\ lane = [l \in Waves \X LaneIds |-> "out"]
      /\ raised = {} /\ q = << >> /\ requests = << >>
      /\ outstanding = [r \in Rings |-> 0]
      /\ waiting_quiet = [r \in Rings |-> << >>]
    BY Zenon DEF Init
<1>2. /\ \A r \in Rings, s \in Slots : ~ring[r][s].valid
      /\ \A w \in Waves : wave[w].pc = "idle"
      /\ \A w \in Waves, i \in LaneIds : lane[<<w, i>>] = "out"
      /\ \A r \in Rings : waiting_quiet[r] = << >> /\ outstanding[r] = 0
      /\ Len(q) = 0 /\ Len(requests) = 0
      /\ \A r \in Rings : Len(waiting_quiet[r]) = 0
    BY <1>1, Zenon DEF EmptySlot, IdleWave
<1>3. TransportTypeOK
    BY <1>1 DEF TransportTypeOK
<1>4. QuietIsNeverStranded
  <2>1. \A r \in Rings : {k \in 1..Len(requests) : requests[k].ctx = r} = {}
      BY <1>2
  <2>2. Cardinality({}) = 0
      BY FS_EmptySet, Zenon
  <2> QED
      BY <1>2, <2>1, <2>2, Zenon DEF QuietIsNeverStranded
<1>5. 1..Len(q) = {} /\ 1..Len(requests) = {}
      /\ \A r \in Rings : 1..Len(waiting_quiet[r]) = {}
    BY <1>2
<1>6. OrderInv /\ AloneInv /\ OwnerInv
  <2>1. \A r \in Rings : Unread(r) = {}
      BY <1>2, Zenon DEF Unread
  <2>2. OrderInv
      BY <1>2, <1>5, Zenon DEF OrderInv
  <2>3. AloneInv
      BY <1>5, Zenon DEF AloneInv
  <2>4. OwnerInv
      BY <1>5, <2>1, Zenon DEF OwnerInv, RingOwners, QueueOwners, RequestOwners, QuietOwners
  <2> QED
      BY <2>2, <2>3, <2>4, SMTT(30)
<1>7. AnsweredInv
    BY <1>1, <1>2, Zenon DEF AnsweredInv, FlagOwners
<1>8. PublishedInv
    BY <1>2, Zenon DEF PublishedInv
<1> QED
    BY <1>3, <1>4, <1>6, <1>7, <1>8, SMTT(30) DEF CompletionInv

(* A stuttering step preserves the invariant.                              *)
LEMMA StutterKeepsCompletion ==
    ASSUME RingInv, CompletionInv, UNCHANGED vars
    PROVE  CompletionInv'
<1>1. UNCHANGED <<ring, host_read_index, cpu, wave, lane, raised, q, mpiVars>>
    BY Zenon DEF vars, ringVars, gpuVars
<1>2. SameTaken /\ \A r \in Rings : Unread(r)' \subseteq Unread(r)
    BY <1>1 DEF SameTaken, Taken, Unread, ReadSlot
<1> QED
    BY <1>1, <1>2, SilentWorker, Zenon

(* Every command that is on its way belongs to a lane that waits for it,   *)
(* commands of a context pass through the transport in the order of their  *)
(* indices, and a raised status byte means the command is over.            *)
THEOREM CompletionInductive ==
    ASSUME PrivateRings, OneWavePerHandle PROVE Spec => []CompletionInv
<1>1. Init => CompletionInv
    BY InitCompletion, Zenon
<1>2. RingInv /\ CompletionInv /\ [Next]_vars => CompletionInv'
  <2> SUFFICES ASSUME RingInv, CompletionInv, [Next]_vars PROVE CompletionInv'
      OBVIOUS
  <2>1. CASE UNCHANGED vars
      BY <2>1, StutterKeepsCompletion, Zenon
  <2>2. CASE \E w \in Waves : \E h \in HandlesOf[w], n \in LaneIds,
               type \in Types, comm \in Comms \cup {NULL} :
               Call(w, h, n, type, comm)
      BY <2>2, CallKeepsCompletion, Zenon
  <2>3. CASE \E w \in Waves : WaveStep(w)
      BY <2>3, LockKeepsCompletion, TakeKeepsCompletion, ReturnKeepsCompletion, Zenon
         DEF WaveStep
  <2>4. CASE \E w \in Waves, i \in LaneIds : LaneStep(w, i)
      BY <2>4, FillKeepsCompletion, PublishKeepsCompletion, PollKeepsCompletion,
         ResetKeepsCompletion, Zenon DEF LaneStep
  <2>5. CASE ro_net_poll
      BY <2>5, EmptyKeepsCompletion, InsertKeepsCompletion, ClearKeepsCompletion,
         IncrementKeepsCompletion, Zenon DEF ro_net_poll
  <2>6. CASE submitRequestsToMPI
      BY <2>6, SubmitKeepsCompletion, Zenon
  <2>7. CASE progress
      BY <2>7, ProgressKeepsCompletion, Zenon
  <2>8. CASE \E k \in 1..Len(requests) : MPICompletes(k)
      BY <2>8, MPIKeepsCompletion, Zenon
  <2> QED
      BY <2>1, <2>2, <2>3, <2>4, <2>5, <2>6, <2>7, <2>8, Zenon DEF Next
<1> QED
    BY <1>1, <1>2, RingInductive, PTL DEF Spec

(* A lane that has seen its status byte has nothing left in the ring, and  *)
(* what the transport still has of its context was written later when it   *)
(* asked for a quiet or a barrier.                                         *)
LEMMA NothingIsLeft ==
    ASSUME RingInv, CompletionInv, NEW w \in Waves, NEW i \in LaneIds,
           lane[<<w, i>>] = "reset", NEW z, z \in Pending, z.h = wave[w].h
    PROVE  z.idx # Index(w, i) /\ (Drains(wave[w].type) => z.idx > Index(w, i))
<1>1. TransportTypeOK /\ OrderInv /\ Over(w, i)
    BY Zenon DEF CompletionInv, AnsweredInv
<1>2. lane[<<w, i>>] # "out"
    BY Zenon
<1>3. CASE \E r \in Rings : \E s \in Unread(r) : z = ring[r][s].req
  <2>0. PICK r \in Rings : \E s \in Unread(r) : z = ring[r][s].req
      BY <1>3, Zenon
  <2>1. PICK s \in Unread(r) : z = ring[r][s].req
      BY <2>0, Zenon
  <2>2. /\ Home(r, ring[r][s].req) /\ Taken(r) <= ring[r][s].req.idx
        /\ ring[r][s].req.idx \in Int
      BY <1>1, UnreadIsLater, Zenon
  <2>3. r = MyRing(w)
      BY <2>1, <2>2, Zenon DEF Home, MyRing
  <2>4. Index(w, i) < Taken(r) /\ Index(w, i) \in Nat
      BY <1>1, <1>2, <2>3, ActiveLane, ZenonT(40) DEF Over
  <2>5. Taken(r) \in Nat
      BY DEF Taken, RingInv, RingTypeOK
  <2>6. Index(w, i) < z.idx
    <3>1. Taken(r) <= z.idx /\ z.idx \in Int
        BY <2>1, <2>2, Zenon
    <3>2. \A a \in Nat, b \in Nat, x \in Int : a < b /\ b <= x => a < x
        OBVIOUS
    <3> QED
        BY <2>4, <2>5, <3>1, <3>2, Zenon
  <2>7. z.idx \in Int
      BY <2>1, <2>2, Zenon
  <2> QED
      BY <2>4, <2>6, <2>7
<1>4. CASE \E k \in 1..Len(q) : z = q[k].elem.req
    BY <1>1, <1>4, Zenon DEF Over, Behind
<1>5. CASE \E k \in 1..Len(requests) : z = requests[k].req
    BY <1>1, <1>5, Zenon DEF Over, Behind
<1>6. CASE \E r \in Rings : \E k \in 1..Len(waiting_quiet[r]) :
             z = waiting_quiet[r][k].req
    BY <1>1, <1>6, Zenon DEF Over, Behind
<1>7. \/ \E r \in Rings : \E s \in Unread(r) : z = ring[r][s].req
      \/ \E k \in 1..Len(q) : z = q[k].elem.req
      \/ \E k \in 1..Len(requests) : z = requests[k].req
      \/ \E r \in Rings : \E k \in 1..Len(waiting_quiet[r]) :
           z = waiting_quiet[r][k].req
  <2>1. /\ DOMAIN q = 1..Len(q) /\ DOMAIN requests = 1..Len(requests)
        /\ \A r \in Rings : DOMAIN waiting_quiet[r] = 1..Len(waiting_quiet[r])
      BY <1>1 DEF TransportTypeOK
  <2>2. CASE z \in UNION {{ring[r][s].req : s \in Unread(r)} : r \in Rings}
      BY <2>2, Zenon
  <2>3. CASE z \in {y.elem.req : y \in Items(q)}
      BY <2>1, <2>3, Zenon DEF Items
  <2>4. CASE z \in {y.req : y \in Items(requests)}
      BY <2>1, <2>4, Zenon DEF Items
  <2>5. CASE z \in UNION {{y.req : y \in Items(waiting_quiet[r])} : r \in Rings}
    <3>1. PICK r \in Rings : z \in {y.req : y \in Items(waiting_quiet[r])}
        BY <2>5, Zenon
    <3>2. PICK k \in DOMAIN waiting_quiet[r] : z = waiting_quiet[r][k].req
        BY <3>1, ZenonT(40) DEF Items
    <3> QED
        BY <2>1, <3>2, Zenon
  <2>6. \/ z \in UNION {{ring[r][s].req : s \in Unread(r)} : r \in Rings}
        \/ z \in {y.elem.req : y \in Items(q)}
        \/ z \in {y.req : y \in Items(requests)}
        \/ z \in UNION {{y.req : y \in Items(waiting_quiet[r])} : r \in Rings}
      BY DEF Pending
  <2> QED
      BY <2>2, <2>3, <2>4, <2>5, <2>6, ZenonT(40)
<1> QED
    BY <1>3, <1>4, <1>5, <1>6, <1>7, Zenon

(* A blocking call returns only once its command is over: nothing of it is *)
(* in the ring, in the transport's queue or in MPI.                        *)
THEOREM BlockingIsComplete ==
    ASSUME PrivateRings, OneWavePerHandle PROVE Spec => []BlockingCallIsComplete
<1>1. RingInv /\ CompletionInv => BlockingCallIsComplete
  <2> SUFFICES ASSUME RingInv, CompletionInv, NEW w \in Waves, NEW i \in LaneIds,
                      lane[<<w, i>>] = "reset", MyReq(w, i) \in Pending
               PROVE  FALSE
      BY Zenon DEF BlockingCallIsComplete
  <2>1. MyReq(w, i).h = wave[w].h /\ MyReq(w, i).idx = Index(w, i)
      BY Zenon DEF MyReq
  <2> QED
      BY <2>1, NothingIsLeft, Zenon
<1> QED
    BY <1>1, RingInductive, CompletionInductive, PTL

(* A quiet or a barrier returns only once every command written before it  *)
(* through the context is over, whatever the others left outstanding.      *)
THEOREM QuietCoversEarlier ==
    ASSUME PrivateRings, OneWavePerHandle PROVE Spec => []QuietCoversEarlierCommands
<1>1. RingInv /\ CompletionInv => QuietCoversEarlierCommands
    BY NothingIsLeft, ZenonT(40) DEF QuietCoversEarlierCommands, Drains
<1> QED
    BY <1>1, RingInductive, CompletionInductive, PTL

(* No command finds its status byte raised by an earlier one, although the *)
(* lane that polls resets it without a lock.                               *)
THEOREM StatusBytesAreClean ==
    ASSUME PrivateRings, OneWavePerHandle PROVE Spec => []StatusByteIsClean
<1>1. RingInv /\ CompletionInv => StatusByteIsClean
  <2> SUFFICES ASSUME RingInv, CompletionInv, NEW w \in Waves, NEW i \in LaneIds,
                      lane[<<w, i>>] \in {"fill", "publish"},
                      get_status_flag(w, i) \in raised
               PROVE  FALSE
      BY Zenon DEF StatusByteIsClean
  <2>1. FlagOwners /\ PublishedInv
      BY DEF CompletionInv, AnsweredInv
  <2>2. PICK v \in Waves, j \in LaneIds :
          lane[<<v, j>>] \in {"poll", "reset"}
          /\ get_status_flag(w, i) = get_status_flag(v, j)
      BY <2>1, Zenon DEF FlagOwners
  <2>3. lane[<<w, i>>] # "out" /\ lane[<<v, j>>] # "out"
      BY <2>2
  <2>4. v = w /\ j = i
      BY <2>1, <2>2, <2>3, FlagIsOwn, ZenonT(40)
  <2> QED
      BY <2>2, <2>4, Zenon
<1> QED
    BY <1>1, RingInductive, CompletionInductive, PTL

(* The transport's count of a context is the number of its requests, and a *)
(* quiet that was put aside always has one that will answer it.            *)
THEOREM QuietsAreAnswered ==
    ASSUME PrivateRings, OneWavePerHandle PROVE Spec => []QuietIsNeverStranded
<1>1. CompletionInv => QuietIsNeverStranded
    BY DEF CompletionInv
<1> QED
    BY <1>1, CompletionInductive, PTL
=============================================================================
