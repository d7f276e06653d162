------------------------------ MODULE CometdProofs ------------------------------
(***************************************************************************)
(* The Bayeux client implements its link (BayeuxLink), for all values of   *)
(* the constants, and the server accepts the publishes of a session in     *)
(* order, for two connections. The handlers of Cometd are operators on the *)
(* record of the client that call one another; a lemma for each says what  *)
(* it keeps and what it changes, so that an action needs the lemma of its  *)
(* handler only. ClientInv is the inductive invariant for the link;        *)
(* OrderInv, in the second half, that for the order.                       *)
(***************************************************************************)
EXTENDS Cometd, FiniteSetTheorems, SequenceTheorems, WellFoundedInduction, TLAPS

-----------------------------------------------------------------------------
\* Sequences and folds. The handlers fold over messages, envelopes and requests with
\* FoldLeft; a fold is related to the steps it takes, one per element.

LEMMA LeastNatural ==
  ASSUME NEW S, S \subseteq Nat, S # {}
  PROVE  \E n \in S : \A m \in S : n <= m
<1> DEFINE R == {ss \in Nat \X Nat : ss[1] < ss[2]}
<1>1. IsWellFoundedOn(R, Nat)
  BY NatLessThanWellFounded DEF OpToRel
<1>2. PICK n \in S : \A m \in S : ~ (<<m, n>> \in R)
  <2> HIDE DEF R
  <2> QED BY <1>1, WFMin
<1>3. \A m \in S : n <= m
  <2> TAKE m \in S
  <2>1. m \in Nat /\ n \in Nat /\ ~ (<<m, n>> \in R)
    BY <1>2
  <2>2. ~ (m < n)
    BY <2>1
  <2> QED BY <2>1, <2>2
<1> QED BY <1>3

LEMMA SetInduction ==
  ASSUME NEW S, 0 \in S, \A n \in Nat : n \in S => n + 1 \in S
  PROVE  Nat \subseteq S
<1> SUFFICES ASSUME NEW k \in Nat, k \notin S PROVE FALSE
  OBVIOUS
<1> DEFINE T == {n \in Nat : n \notin S}
<1>1. PICK n \in T : \A m \in T : n <= m
  <2>1. T \subseteq Nat /\ T # {}
    OBVIOUS
  <2> HIDE DEF T
  <2> QED BY <2>1, LeastNatural
<1>2. n # 0
  OBVIOUS
<1>3. n - 1 \in Nat /\ n - 1 \notin T
  BY <1>1, <1>2
<1> QED BY <1>3, <1>1

LEMMA KeepsIn ==
  ASSUME NEW A, NEW n \in Nat, NEW g, g[0] \in A,
         \A k \in 0 .. n - 1 : g[k] \in A => g[k + 1] \in A
  PROVE  \A k \in 0 .. n : g[k] \in A
<1> DEFINE S == {k \in Nat : k <= n => g[k] \in A}
<1>1. 0 \in S
  OBVIOUS
<1>2. \A k \in Nat : k \in S => k + 1 \in S
  OBVIOUS
<1>3. Nat \subseteq S
  <2> HIDE DEF S
  <2> QED BY <1>1, <1>2, SetInduction
<1> QED BY <1>3

LEMMA MaxOf ==
  ASSUME NEW n \in Nat, NEW t, t \subseteq 1 .. n, t # {}
  PROVE  Max(t) \in t /\ \A k \in t : Max(t) >= k
<1> DEFINE down == {n - k : k \in t}
<1>1. PICK m \in down : \A k \in down : m <= k
  <2>1. ASSUME NEW d \in down PROVE d \in Nat
    <3>1. PICK k \in t : d = n - k
      OBVIOUS
    <3> QED BY <3>1
  <2>2. down # {}
    OBVIOUS
  <2> HIDE DEF down
  <2> QED BY <2>1, <2>2, LeastNatural
<1>2. PICK x \in t : m = n - x
  BY <1>1
<1>3. \A k \in t : x >= k
  <2> TAKE k \in t
  <2>1. n - k \in down
    OBVIOUS
  <2>2. n - x <= n - k
    BY <1>1, <1>2, <2>1
  <2> QED BY <2>2
<1> QED BY <1>2, <1>3 DEF Max

LEMMA MaxUpTo ==
  ASSUME NEW k \in Nat, NEW t, t \subseteq 1 .. k + 1, k + 1 \in t
  PROVE  Max(t) = k + 1
<1>1. k + 1 \in Nat /\ t # {}
  OBVIOUS
<1>2. Max(t) \in t /\ \A j \in t : Max(t) >= j
  BY <1>1, MaxOf
<1>3. Max(t) \in 1 .. k + 1
  BY <1>2
<1> HIDE DEF Max
<1> QED BY <1>2, <1>3

\* h has what a fold by F makes of every part of 1 .. n, beginning with s.
Folding(h, F, s, A, n) ==
  /\ h \in [SUBSET (1 .. n) -> A]
  /\ h = [t \in SUBSET (1 .. n) |-> IF t = {} THEN s ELSE F[<<h[t \ {Max(t)}], Max(t)>>]]

\* There is one.
LEMMA FoldValues ==
  ASSUME NEW n \in Nat, NEW A, NEW s \in A, NEW F \in [A \X (1 .. n) -> A]
  PROVE  \E h : Folding(h, F, s, A, n)
<1> DEFINE Folds(h, m) == /\ h \in [SUBSET (1 .. m) -> A]
                          /\ \A t \in SUBSET (1 .. m) :
                               h[t] = IF t = {} THEN s ELSE F[<<h[t \ {Max(t)}], Max(t)>>]
           Found == {m \in Nat : m <= n => \E h : Folds(h, m)}
<1>1. 0 \in Found
  <2> DEFINE h == [t \in SUBSET (1 .. 0) |-> s]
  <2>1. \A t \in SUBSET (1 .. 0) : t = {}
    OBVIOUS
  <2>2. Folds(h, 0)
    BY <2>1
  <2> HIDE DEF Folds
  <2> QED BY <2>2
<1>2. \A m \in Nat : m \in Found => m + 1 \in Found
  <2> SUFFICES ASSUME NEW m \in Nat, m + 1 <= n, NEW h, Folds(h, m)
               PROVE  \E f : Folds(f, m + 1)
    <3> HIDE DEF Folds
    <3> QED OBVIOUS
  <2> DEFINE f == [t \in SUBSET (1 .. m + 1) |->
                     IF m + 1 \in t THEN F[<<h[t \ {m + 1}], m + 1>>] ELSE h[t]]
  <2>0. ASSUME NEW t \in SUBSET (1 .. m + 1), m + 1 \notin t PROVE t \in SUBSET (1 .. m)
    BY <2>0
  <2>1. ASSUME NEW t \in SUBSET (1 .. m + 1)
        PROVE  f[t] \in A /\ f[t] = IF t = {} THEN s ELSE F[<<f[t \ {Max(t)}], Max(t)>>]
    <3>1. CASE m + 1 \in t
      <4>1. Max(t) = m + 1
        BY <3>1, MaxUpTo
      <4>2. t \ {m + 1} \in SUBSET (1 .. m) /\ t \ {m + 1} \in SUBSET (1 .. m + 1)
        BY <2>0
      <4>3. f[t \ {m + 1}] = h[t \ {m + 1}]
        BY <4>2
      <4>4. h[t \ {m + 1}] \in A /\ m + 1 \in 1 .. n
        BY <4>2
      <4>5. f[t] = F[<<h[t \ {m + 1}], m + 1>>]
        BY <3>1
      <4> HIDE DEF f
      <4> QED BY <3>1, <4>1, <4>3, <4>4, <4>5
    <3>2. CASE m + 1 \notin t
      <4>1. t \in SUBSET (1 .. m) /\ f[t] = h[t]
        BY <3>2, <2>0
      <4>2. h[t] \in A /\ h[t] = IF t = {} THEN s ELSE F[<<h[t \ {Max(t)}], Max(t)>>]
        BY <4>1
      <4>3. t # {} => f[t \ {Max(t)}] = h[t \ {Max(t)}]
        <5>1. t \ {Max(t)} \in SUBSET (1 .. m + 1) /\ m + 1 \notin t \ {Max(t)}
          BY <3>2
        <5> QED BY <5>1
      <4> HIDE DEF f
      <4> QED BY <4>1, <4>2, <4>3
    <3> QED BY <3>1, <3>2
  <2>2. f = [t \in SUBSET (1 .. m + 1) |-> f[t]]
    OBVIOUS
  <2> HIDE DEF f
  <2>3. f \in [SUBSET (1 .. m + 1) -> A]
    BY <2>1, <2>2
  <2>4. Folds(f, m + 1)
    BY <2>1, <2>3
  <2> HIDE DEF Folds
  <2> QED BY <2>4
<1>3. PICK h : Folds(h, n)
  <2> HIDE DEF Folds
  <2>1. n \in Found
    <3> HIDE DEF Found
    <3> QED BY <1>1, <1>2, SetInduction
  <2> QED BY <2>1
<1>4. h = [t \in SUBSET (1 .. n) |-> IF t = {} THEN s ELSE F[<<h[t \ {Max(t)}], Max(t)>>]]
  BY <1>3
<1> QED BY <1>3, <1>4 DEF Folding

Aborts(g, s, q, n) ==
  g[0] = s /\ \A k \in 0 .. n - 1 : g[k + 1] = abortRequest(g[k], q[k + 1])

LEMMA FoldAbort ==
  ASSUME NEW A, NEW s \in A, NEW q, NEW n \in Nat, DOMAIN q = 1 .. n,
         \A a \in A, i \in 1 .. n : abortRequest(a, q[i]) \in A
  PROVE  /\ \E g : Aborts(g, s, q, n) /\ FoldLeft(abortRequest, s, q) = g[n]
         /\ FoldLeft(abortRequest, s, q) \in A
         /\ n = 1 => FoldLeft(abortRequest, s, q) = abortRequest(s, q[1])
<1> DEFINE F == [p \in A \X (1 .. n) |-> abortRequest(p[1], q[p[2]])]
<1>1. F \in [A \X (1 .. n) -> A]
  OBVIOUS
<1>2. PICK f : Folding(f, F, s, A, n)
  <2> HIDE DEF F
  <2> QED BY <1>1, FoldValues
<1>3. ASSUME NEW t \in SUBSET (1 .. n), t # {}
      PROVE  F[<<f[t \ {Max(t)}], Max(t)>>] = abortRequest(f[t \ {Max(t)}], q[Max(t)])
  <2>1. Max(t) \in t /\ Max(t) \in 1 .. n
    BY <1>3, MaxOf
  <2>2. t \ {Max(t)} \in SUBSET (1 .. n) /\ f[t \ {Max(t)}] \in A
    BY <1>2 DEF Folding
  <2> QED BY <2>1, <2>2
<1> HIDE DEF F
<1> DEFINE Folds(h) == h = [t \in SUBSET DOMAIN q |-> IF t = {} THEN s
                              ELSE abortRequest(h[t \ {Max(t)}], q[Max(t)])]
           h == CHOOSE h : Folds(h)
<1>4. Folds(h)
  <2>1. Folds(f)
    BY <1>2, <1>3 DEF Folding
  <2> QED BY <2>1
<1>5. FoldLeft(abortRequest, s, q) = h[DOMAIN q]
  BY DEF FoldLeft, MapThenFoldSet
<1> HIDE DEF h
<1> DEFINE g == [k \in 0 .. n |-> h[1 .. k]]
<1>6. g[0] = s
  <2>1. 1 .. 0 = {} /\ 1 .. 0 \in SUBSET DOMAIN q
    OBVIOUS
  <2>2. g[0] = h[1 .. 0]
    OBVIOUS
  <2> HIDE DEF g
  <2> QED BY <1>4, <2>1, <2>2
<1>7. ASSUME NEW k \in 0 .. n - 1
      PROVE  g[k + 1] = abortRequest(g[k], q[k + 1])
  <2>1. k \in Nat /\ 1 .. k + 1 \in SUBSET DOMAIN q /\ k + 1 \in 1 .. k + 1
    OBVIOUS
  <2>2. Max(1 .. k + 1) = k + 1 /\ (1 .. k + 1) \ {k + 1} = 1 .. k
    BY <2>1, MaxUpTo
  <2>3. h[1 .. k + 1] = abortRequest(h[1 .. k], q[k + 1])
    BY <1>4, <2>1, <2>2
  <2> QED BY <2>3
<1>8. FoldLeft(abortRequest, s, q) = g[n]
  BY <1>5
<1> HIDE DEF g
<1>9. \A k \in 0 .. n : g[k] \in A
  <2>1. ASSUME NEW k \in 0 .. n - 1, g[k] \in A PROVE g[k + 1] \in A
    <3>1. k + 1 \in 1 .. n
      OBVIOUS
    <3> QED BY <2>1, <3>1, <1>7
  <2> QED BY <1>6, <2>1, KeepsIn
<1>10. n \in 0 .. n /\ (n = 1 => 0 \in 0 .. n - 1)
  OBVIOUS
<1>11. FoldLeft(abortRequest, s, q) \in A
  BY <1>8, <1>9, <1>10
<1>12. n = 1 => FoldLeft(abortRequest, s, q) = abortRequest(s, q[1])
  BY <1>6, <1>7, <1>8, <1>10
<1>13. Aborts(g, s, q, n)
  BY <1>6, <1>7 DEF Aborts
<1> QED BY <1>8, <1>11, <1>12, <1>13

SendSteps(g, s, q, n) ==
  g[0] = s /\ \A k \in 0 .. n - 1 : g[k + 1] = sendPiece(g[k], q[k + 1])

LEMMA FoldSend ==
  ASSUME NEW A, NEW s \in A, NEW q, NEW n \in Nat, DOMAIN q = 1 .. n,
         \A a \in A, i \in 1 .. n : sendPiece(a, q[i]) \in A
  PROVE  /\ \E g : SendSteps(g, s, q, n) /\ sendPieces(s, q) = g[n]
         /\ sendPieces(s, q) \in A
         /\ n = 1 => sendPieces(s, q) = sendPiece(s, q[1])
<1> DEFINE F == [p \in A \X (1 .. n) |-> sendPiece(p[1], q[p[2]])]
<1>1. F \in [A \X (1 .. n) -> A]
  OBVIOUS
<1>2. PICK f : Folding(f, F, s, A, n)
  <2> HIDE DEF F
  <2> QED BY <1>1, FoldValues
<1>3. ASSUME NEW t \in SUBSET (1 .. n), t # {}
      PROVE  F[<<f[t \ {Max(t)}], Max(t)>>] = sendPiece(f[t \ {Max(t)}], q[Max(t)])
  <2>1. Max(t) \in t /\ Max(t) \in 1 .. n
    BY <1>3, MaxOf
  <2>2. t \ {Max(t)} \in SUBSET (1 .. n) /\ f[t \ {Max(t)}] \in A
    BY <1>2 DEF Folding
  <2> QED BY <2>1, <2>2
<1> HIDE DEF F
<1> DEFINE Folds(h) == h = [t \in SUBSET DOMAIN q |-> IF t = {} THEN s
                              ELSE After(h[t \ {Max(t)}], LAMBDA u : sendPiece(u, q[Max(t)]))]
           h == CHOOSE h : Folds(h)
<1>4. Folds(h)
  <2>1. Folds(f)
    BY <1>2, <1>3, ZenonT(60) DEF Folding, After
  <2> QED BY <2>1
<1>5. sendPieces(s, q) = h[DOMAIN q]
  BY DEF FoldLeft, MapThenFoldSet, sendPieces
<1> HIDE DEF h
<1>b. \A t \in SUBSET DOMAIN q :
        h[t] = IF t = {} THEN s ELSE sendPiece(h[t \ {Max(t)}], q[Max(t)])
  <2> TAKE t \in SUBSET DOMAIN q
  <2>1. h[t] = IF t = {} THEN s ELSE After(h[t \ {Max(t)}], LAMBDA u : sendPiece(u, q[Max(t)]))
    BY <1>4, Zenon
  <2> HIDE DEF Folds
  <2>2. After(h[t \ {Max(t)}], LAMBDA u : sendPiece(u, q[Max(t)])) = sendPiece(h[t \ {Max(t)}], q[Max(t)])
    BY DEF After
  <2> QED BY <2>1, <2>2, Zenon
<1> DEFINE g == [k \in 0 .. n |-> h[1 .. k]]
<1>6. g[0] = s
  <2>1. 1 .. 0 = {} /\ 1 .. 0 \in SUBSET DOMAIN q
    OBVIOUS
  <2>2. g[0] = h[1 .. 0]
    OBVIOUS
  <2> HIDE DEF g
  <2> QED BY <1>b, <2>1, <2>2
<1>7. ASSUME NEW k \in 0 .. n - 1
      PROVE  g[k + 1] = sendPiece(g[k], q[k + 1])
  <2>1. k \in Nat /\ 1 .. k + 1 \in SUBSET DOMAIN q /\ k + 1 \in 1 .. k + 1
    OBVIOUS
  <2>2. Max(1 .. k + 1) = k + 1 /\ (1 .. k + 1) \ {k + 1} = 1 .. k
    BY <2>1, MaxUpTo
  <2>3. h[1 .. k + 1] = sendPiece(h[1 .. k], q[k + 1])
    BY <1>b, <2>1, <2>2
  <2> QED BY <2>3
<1>8. sendPieces(s, q) = g[n]
  BY <1>5
<1> HIDE DEF g
<1>9. \A k \in 0 .. n : g[k] \in A
  <2>1. ASSUME NEW k \in 0 .. n - 1, g[k] \in A PROVE g[k + 1] \in A
    <3>1. k + 1 \in 1 .. n
      OBVIOUS
    <3> QED BY <2>1, <3>1, <1>7
  <2> QED BY <1>6, <2>1, KeepsIn
<1>10. n \in 0 .. n /\ (n = 1 => 0 \in 0 .. n - 1)
  OBVIOUS
<1>11. sendPieces(s, q) \in A
  BY <1>8, <1>9, <1>10
<1>12. n = 1 => sendPieces(s, q) = sendPiece(s, q[1])
  BY <1>6, <1>7, <1>8, <1>10
<1>13. SendSteps(g, s, q, n)
  BY <1>6, <1>7 DEF SendSteps
<1> QED BY <1>8, <1>11, <1>12, <1>13

PieceSteps(g, q, n) ==
  g[0] = <<>> /\ \A k \in 0 .. n - 1 : g[k + 1] = addPiece(g[k], q[k + 1])

LEMMA FoldPieces ==
  ASSUME NEW A, <<>> \in A, NEW q, NEW n \in Nat, DOMAIN q = 1 .. n,
         \A a \in A, i \in 1 .. n : addPiece(a, q[i]) \in A
  PROVE  /\ \E g : PieceSteps(g, q, n) /\ pieces(q) = g[n]
         /\ pieces(q) \in A
         /\ n = 1 => pieces(q) = addPiece(<<>>, q[1])
<1> DEFINE F == [p \in A \X (1 .. n) |-> addPiece(p[1], q[p[2]])]
<1>1. F \in [A \X (1 .. n) -> A]
  OBVIOUS
<1>2. PICK f : Folding(f, F, <<>>, A, n)
  <2> HIDE DEF F
  <2> QED BY <1>1, FoldValues
<1>3. ASSUME NEW t \in SUBSET (1 .. n), t # {}
      PROVE  F[<<f[t \ {Max(t)}], Max(t)>>] = addPiece(f[t \ {Max(t)}], q[Max(t)])
  <2>1. Max(t) \in t /\ Max(t) \in 1 .. n
    BY <1>3, MaxOf
  <2>2. t \ {Max(t)} \in SUBSET (1 .. n) /\ f[t \ {Max(t)}] \in A
    BY <1>2 DEF Folding
  <2> QED BY <2>1, <2>2
<1> HIDE DEF F
<1> DEFINE Folds(h) == h = [t \in SUBSET DOMAIN q |-> IF t = {} THEN <<>>
                              ELSE addPiece(h[t \ {Max(t)}], q[Max(t)])]
           h == CHOOSE h : Folds(h)
<1>4. Folds(h)
  <2>1. Folds(f)
    BY <1>2, <1>3 DEF Folding
  <2> QED BY <2>1
<1>5. pieces(q) = h[DOMAIN q]
  BY DEF FoldLeft, MapThenFoldSet, pieces
<1> HIDE DEF h
<1> DEFINE g == [k \in 0 .. n |-> h[1 .. k]]
<1>6. g[0] = <<>>
  <2>1. 1 .. 0 = {} /\ 1 .. 0 \in SUBSET DOMAIN q
    OBVIOUS
  <2>2. g[0] = h[1 .. 0]
    OBVIOUS
  <2> HIDE DEF g
  <2> QED BY <1>4, <2>1, <2>2
<1>7. ASSUME NEW k \in 0 .. n - 1
      PROVE  g[k + 1] = addPiece(g[k], q[k + 1])
  <2>1. k \in Nat /\ 1 .. k + 1 \in SUBSET DOMAIN q /\ k + 1 \in 1 .. k + 1
    OBVIOUS
  <2>2. Max(1 .. k + 1) = k + 1 /\ (1 .. k + 1) \ {k + 1} = 1 .. k
    BY <2>1, MaxUpTo
  <2>3. h[1 .. k + 1] = addPiece(h[1 .. k], q[k + 1])
    BY <1>4, <2>1, <2>2
  <2> QED BY <2>3
<1>8. pieces(q) = g[n]
  BY <1>5
<1> HIDE DEF g
<1>9. \A k \in 0 .. n : g[k] \in A
  <2>1. ASSUME NEW k \in 0 .. n - 1, g[k] \in A PROVE g[k + 1] \in A
    <3>1. k + 1 \in 1 .. n
      OBVIOUS
    <3> QED BY <2>1, <3>1, <1>7
  <2> QED BY <1>6, <2>1, KeepsIn
<1>10. n \in 0 .. n /\ (n = 1 => 0 \in 0 .. n - 1)
  OBVIOUS
<1>11. pieces(q) \in A
  BY <1>8, <1>9, <1>10
<1>12. n = 1 => pieces(q) = addPiece(<<>>, q[1])
  BY <1>6, <1>7, <1>8, <1>10
<1>13. PieceSteps(g, q, n)
  BY <1>6, <1>7 DEF PieceSteps
<1> QED BY <1>8, <1>11, <1>12, <1>13

AnswerSteps(g, s, q, n, advice, late) ==
  g[0] = [srv |-> s, replies |-> <<>>] /\ \A k \in 0 .. n - 1 : g[k + 1] = Answer(g[k], q[k + 1], advice, late)

LEMMA FoldAnswer ==
  ASSUME NEW A, NEW s, [srv |-> s, replies |-> <<>>] \in A, NEW q, NEW n \in Nat, DOMAIN q = 1 .. n, NEW advice, NEW late,
         \A a \in A, i \in 1 .. n : Answer(a, q[i], advice, late) \in A
  PROVE  /\ \E g : AnswerSteps(g, s, q, n, advice, late) /\ answers(s, q, advice, late) = g[n]
         /\ answers(s, q, advice, late) \in A
         /\ n = 1 => answers(s, q, advice, late) = Answer([srv |-> s, replies |-> <<>>], q[1], advice, late)
<1> DEFINE F == [p \in A \X (1 .. n) |-> Answer(p[1], q[p[2]], advice, late)]
<1>1. F \in [A \X (1 .. n) -> A]
  OBVIOUS
<1>2. PICK f : Folding(f, F, [srv |-> s, replies |-> <<>>], A, n)
  <2> HIDE DEF F
  <2> QED BY <1>1, FoldValues
<1>3. ASSUME NEW t \in SUBSET (1 .. n), t # {}
      PROVE  F[<<f[t \ {Max(t)}], Max(t)>>] = Answer(f[t \ {Max(t)}], q[Max(t)], advice, late)
  <2>1. Max(t) \in t /\ Max(t) \in 1 .. n
    BY <1>3, MaxOf
  <2>2. t \ {Max(t)} \in SUBSET (1 .. n) /\ f[t \ {Max(t)}] \in A
    BY <1>2 DEF Folding
  <2> QED BY <2>1, <2>2
<1> HIDE DEF F
<1> DEFINE Folds(h) == h = [t \in SUBSET DOMAIN q |-> IF t = {} THEN [srv |-> s, replies |-> <<>>]
                              ELSE Answer(h[t \ {Max(t)}], q[Max(t)], advice, late)]
           h == CHOOSE h : Folds(h)
<1>4. Folds(h)
  <2>1. Folds(f)
    BY <1>2, <1>3 DEF Folding
  <2> QED BY <2>1
<1>5. answers(s, q, advice, late) = h[DOMAIN q]
  BY DEF FoldLeft, MapThenFoldSet, answers
<1> HIDE DEF h
<1> DEFINE g == [k \in 0 .. n |-> h[1 .. k]]
<1>6. g[0] = [srv |-> s, replies |-> <<>>]
  <2>1. 1 .. 0 = {} /\ 1 .. 0 \in SUBSET DOMAIN q
    OBVIOUS
  <2>2. g[0] = h[1 .. 0]
    OBVIOUS
  <2> HIDE DEF g
  <2> QED BY <1>4, <2>1, <2>2
<1>7. ASSUME NEW k \in 0 .. n - 1
      PROVE  g[k + 1] = Answer(g[k], q[k + 1], advice, late)
  <2>1. k \in Nat /\ 1 .. k + 1 \in SUBSET DOMAIN q /\ k + 1 \in 1 .. k + 1
    OBVIOUS
  <2>2. Max(1 .. k + 1) = k + 1 /\ (1 .. k + 1) \ {k + 1} = 1 .. k
    BY <2>1, MaxUpTo
  <2>3. h[1 .. k + 1] = Answer(h[1 .. k], q[k + 1], advice, late)
    BY <1>4, <2>1, <2>2
  <2> QED BY <2>3
<1>8. answers(s, q, advice, late) = g[n]
  BY <1>5
<1> HIDE DEF g
<1>9. \A k \in 0 .. n : g[k] \in A
  <2>1. ASSUME NEW k \in 0 .. n - 1, g[k] \in A PROVE g[k + 1] \in A
    <3>1. k + 1 \in 1 .. n
      OBVIOUS
    <3> QED BY <2>1, <3>1, <1>7
  <2> QED BY <1>6, <2>1, KeepsIn
<1>10. n \in 0 .. n /\ (n = 1 => 0 \in 0 .. n - 1)
  OBVIOUS
<1>11. answers(s, q, advice, late) \in A
  BY <1>8, <1>9, <1>10
<1>12. n = 1 => answers(s, q, advice, late) = Answer([srv |-> s, replies |-> <<>>], q[1], advice, late)
  BY <1>6, <1>7, <1>8, <1>10
<1>13. AnswerSteps(g, s, q, n, advice, late)
  BY <1>6, <1>7 DEF AnswerSteps
<1> QED BY <1>8, <1>11, <1>12, <1>13

ReceiveSteps(g, s, q, n, quit) ==
  g[0] = s /\ \A k \in 0 .. n - 1 : g[k + 1] = receive(g[k], q[k + 1], quit)

LEMMA FoldReceive ==
  ASSUME NEW A, NEW s \in A, NEW q, NEW n \in Nat, DOMAIN q = 1 .. n, NEW quit,
         \A a \in A, i \in 1 .. n : receive(a, q[i], quit) \in A
  PROVE  /\ \E g : ReceiveSteps(g, s, q, n, quit) /\ handleMessages(s, q, quit) = g[n]
         /\ handleMessages(s, q, quit) \in A
         /\ n = 1 => handleMessages(s, q, quit) = receive(s, q[1], quit)
<1> DEFINE F == [p \in A \X (1 .. n) |-> receive(p[1], q[p[2]], quit)]
<1>1. F \in [A \X (1 .. n) -> A]
  OBVIOUS
<1>2. PICK f : Folding(f, F, s, A, n)
  <2> HIDE DEF F
  <2> QED BY <1>1, FoldValues
<1>3. ASSUME NEW t \in SUBSET (1 .. n), t # {}
      PROVE  F[<<f[t \ {Max(t)}], Max(t)>>] = receive(f[t \ {Max(t)}], q[Max(t)], quit)
  <2>1. Max(t) \in t /\ Max(t) \in 1 .. n
    BY <1>3, MaxOf
  <2>2. t \ {Max(t)} \in SUBSET (1 .. n) /\ f[t \ {Max(t)}] \in A
    BY <1>2 DEF Folding
  <2> QED BY <2>1, <2>2
<1> HIDE DEF F
<1> DEFINE Folds(h) == h = [t \in SUBSET DOMAIN q |-> IF t = {} THEN s
                              ELSE After(h[t \ {Max(t)}], LAMBDA u : receive(u, q[Max(t)], quit))]
           h == CHOOSE h : Folds(h)
<1>4. Folds(h)
  <2>1. Folds(f)
    BY <1>2, <1>3, ZenonT(60) DEF Folding, After
  <2> QED BY <2>1
<1>5. handleMessages(s, q, quit) = h[DOMAIN q]
  BY DEF FoldLeft, MapThenFoldSet, handleMessages
<1> HIDE DEF h
<1>b. \A t \in SUBSET DOMAIN q :
        h[t] = IF t = {} THEN s ELSE receive(h[t \ {Max(t)}], q[Max(t)], quit)
  <2> TAKE t \in SUBSET DOMAIN q
  <2>1. h[t] = IF t = {} THEN s ELSE After(h[t \ {Max(t)}], LAMBDA u : receive(u, q[Max(t)], quit))
    BY <1>4, Zenon
  <2> HIDE DEF Folds
  <2>2. After(h[t \ {Max(t)}], LAMBDA u : receive(u, q[Max(t)], quit)) = receive(h[t \ {Max(t)}], q[Max(t)], quit)
    BY DEF After
  <2> QED BY <2>1, <2>2, Zenon
<1> DEFINE g == [k \in 0 .. n |-> h[1 .. k]]
<1>6. g[0] = s
  <2>1. 1 .. 0 = {} /\ 1 .. 0 \in SUBSET DOMAIN q
    OBVIOUS
  <2>2. g[0] = h[1 .. 0]
    OBVIOUS
  <2> HIDE DEF g
  <2> QED BY <1>b, <2>1, <2>2
<1>7. ASSUME NEW k \in 0 .. n - 1
      PROVE  g[k + 1] = receive(g[k], q[k + 1], quit)
  <2>1. k \in Nat /\ 1 .. k + 1 \in SUBSET DOMAIN q /\ k + 1 \in 1 .. k + 1
    OBVIOUS
  <2>2. Max(1 .. k + 1) = k + 1 /\ (1 .. k + 1) \ {k + 1} = 1 .. k
    BY <2>1, MaxUpTo
  <2>3. h[1 .. k + 1] = receive(h[1 .. k], q[k + 1], quit)
    BY <1>b, <2>1, <2>2
  <2> QED BY <2>3
<1>8. handleMessages(s, q, quit) = g[n]
  BY <1>5
<1> HIDE DEF g
<1>9. \A k \in 0 .. n : g[k] \in A
  <2>1. ASSUME NEW k \in 0 .. n - 1, g[k] \in A PROVE g[k + 1] \in A
    <3>1. k + 1 \in 1 .. n
      OBVIOUS
    <3> QED BY <2>1, <3>1, <1>7
  <2> QED BY <1>6, <2>1, KeepsIn
<1>10. n \in 0 .. n /\ (n = 1 => 0 \in 0 .. n - 1)
  OBVIOUS
<1>11. handleMessages(s, q, quit) \in A
  BY <1>8, <1>9, <1>10
<1>12. n = 1 => handleMessages(s, q, quit) = receive(s, q[1], quit)
  BY <1>6, <1>7, <1>8, <1>10
<1>13. ReceiveSteps(g, s, q, n, quit)
  BY <1>6, <1>7 DEF ReceiveSteps
<1> QED BY <1>8, <1>11, <1>12, <1>13

FailSteps(g, s, q, n, quit) ==
  g[0] = s /\ \A k \in 0 .. n - 1 : g[k + 1] = failMessage(g[k], q[k + 1], quit)

LEMMA FoldFail ==
  ASSUME NEW A, NEW s \in A, NEW q, NEW n \in Nat, DOMAIN q = 1 .. n, NEW quit,
         \A a \in A, i \in 1 .. n : failMessage(a, q[i], quit) \in A
  PROVE  /\ \E g : FailSteps(g, s, q, n, quit) /\ handleFailure(s, q, quit) = g[n]
         /\ handleFailure(s, q, quit) \in A
         /\ n = 1 => handleFailure(s, q, quit) = failMessage(s, q[1], quit)
<1> DEFINE F == [p \in A \X (1 .. n) |-> failMessage(p[1], q[p[2]], quit)]
<1>1. F \in [A \X (1 .. n) -> A]
  OBVIOUS
<1>2. PICK f : Folding(f, F, s, A, n)
  <2> HIDE DEF F
  <2> QED BY <1>1, FoldValues
<1>3. ASSUME NEW t \in SUBSET (1 .. n), t # {}
      PROVE  F[<<f[t \ {Max(t)}], Max(t)>>] = failMessage(f[t \ {Max(t)}], q[Max(t)], quit)
  <2>1. Max(t) \in t /\ Max(t) \in 1 .. n
    BY <1>3, MaxOf
  <2>2. t \ {Max(t)} \in SUBSET (1 .. n) /\ f[t \ {Max(t)}] \in A
    BY <1>2 DEF Folding
  <2> QED BY <2>1, <2>2
<1> HIDE DEF F
<1> DEFINE Folds(h) == h = [t \in SUBSET DOMAIN q |-> IF t = {} THEN s
                              ELSE After(h[t \ {Max(t)}], LAMBDA u : failMessage(u, q[Max(t)], quit))]
           h == CHOOSE h : Folds(h)
<1>4. Folds(h)
  <2>1. Folds(f)
    BY <1>2, <1>3, ZenonT(60) DEF Folding, After
  <2> QED BY <2>1
<1>5. handleFailure(s, q, quit) = h[DOMAIN q]
  BY DEF FoldLeft, MapThenFoldSet, handleFailure
<1> HIDE DEF h
<1>b. \A t \in SUBSET DOMAIN q :
        h[t] = IF t = {} THEN s ELSE failMessage(h[t \ {Max(t)}], q[Max(t)], quit)
  <2> TAKE t \in SUBSET DOMAIN q
  <2>1. h[t] = IF t = {} THEN s ELSE After(h[t \ {Max(t)}], LAMBDA u : failMessage(u, q[Max(t)], quit))
    BY <1>4, Zenon
  <2> HIDE DEF Folds
  <2>2. After(h[t \ {Max(t)}], LAMBDA u : failMessage(u, q[Max(t)], quit)) = failMessage(h[t \ {Max(t)}], q[Max(t)], quit)
    BY DEF After
  <2> QED BY <2>1, <2>2, Zenon
<1> DEFINE g == [k \in 0 .. n |-> h[1 .. k]]
<1>6. g[0] = s
  <2>1. 1 .. 0 = {} /\ 1 .. 0 \in SUBSET DOMAIN q
    OBVIOUS
  <2>2. g[0] = h[1 .. 0]
    OBVIOUS
  <2> HIDE DEF g
  <2> QED BY <1>b, <2>1, <2>2
<1>7. ASSUME NEW k \in 0 .. n - 1
      PROVE  g[k + 1] = failMessage(g[k], q[k + 1], quit)
  <2>1. k \in Nat /\ 1 .. k + 1 \in SUBSET DOMAIN q /\ k + 1 \in 1 .. k + 1
    OBVIOUS
  <2>2. Max(1 .. k + 1) = k + 1 /\ (1 .. k + 1) \ {k + 1} = 1 .. k
    BY <2>1, MaxUpTo
  <2>3. h[1 .. k + 1] = failMessage(h[1 .. k], q[k + 1], quit)
    BY <1>b, <2>1, <2>2
  <2> QED BY <2>3
<1>8. handleFailure(s, q, quit) = g[n]
  BY <1>5
<1> HIDE DEF g
<1>9. \A k \in 0 .. n : g[k] \in A
  <2>1. ASSUME NEW k \in 0 .. n - 1, g[k] \in A PROVE g[k + 1] \in A
    <3>1. k + 1 \in 1 .. n
      OBVIOUS
    <3> QED BY <2>1, <3>1, <1>7
  <2> QED BY <1>6, <2>1, KeepsIn
<1>10. n \in 0 .. n /\ (n = 1 => 0 \in 0 .. n - 1)
  OBVIOUS
<1>11. handleFailure(s, q, quit) \in A
  BY <1>8, <1>9, <1>10
<1>12. n = 1 => handleFailure(s, q, quit) = failMessage(s, q[1], quit)
  BY <1>6, <1>7, <1>8, <1>10
<1>13. FailSteps(g, s, q, n, quit)
  BY <1>6, <1>7 DEF FailSteps
<1> QED BY <1>8, <1>11, <1>12, <1>13

LEMMA AppendSecond == ASSUME NEW T, NEW a \in T, NEW b \in T PROVE Append(<<a>>, b) = <<a, b>>
<1> DEFINE p == Append(<<a>>, b)
           q == <<a, b>>
<1>1. p \in Seq(T) /\ Len(p) = 2 /\ p[1] = a /\ p[2] = b
  <2>1. <<a>> \in Seq(T) /\ Len(<<a>>) = 1
    OBVIOUS
  <2> QED BY <2>1
<1>2. q \in Seq(T) /\ Len(q) = 2 /\ q[1] = a /\ q[2] = b
  OBVIOUS
<1>3. p = q
  <2> HIDE DEF p, q
  <2> QED BY <1>1, <1>2, SeqEqual
<1> QED BY <1>3
LEMMA AppendThird == ASSUME NEW T, NEW a \in T, NEW b \in T, NEW c \in T PROVE Append(<<a, b>>, c) = <<a, b, c>>
<1> DEFINE p == Append(<<a, b>>, c)
           q == <<a, b, c>>
<1>1. p \in Seq(T) /\ Len(p) = 3 /\ p[1] = a /\ p[2] = b /\ p[3] = c
  <2>1. <<a, b>> \in Seq(T) /\ Len(<<a, b>>) = 2
    OBVIOUS
  <2> QED BY <2>1
<1>2. q \in Seq(T) /\ Len(q) = 3 /\ q[1] = a /\ q[2] = b /\ q[3] = c
  OBVIOUS
<1>3. p = q
  <2> HIDE DEF p, q
  <2> QED BY <1>1, <1>2, SeqEqual
<1> QED BY <1>3
LEMMA LastTwo == ASSUME NEW T, NEW a \in T, NEW b \in T, NEW c \in T PROVE SubSeq(<<a, b, c>>, 2, 3) = <<b, c>>
<1> DEFINE s == <<a, b, c>>
           p == SubSeq(s, 2, 3)
           q == <<b, c>>
<1>1. s \in Seq(T) /\ Len(s) = 3 /\ s[2] = b /\ s[3] = c
  OBVIOUS
<1>2. p \in Seq(T) /\ Len(p) = 2 /\ p[1] = b /\ p[2] = c
  <2> HIDE DEF s
  <2> QED BY <1>1
<1>3. q \in Seq(T) /\ Len(q) = 2 /\ q[1] = b /\ q[2] = c
  OBVIOUS
<1>4. p = q
  <2> HIDE DEF p, q
  <2> QED BY <1>2, <1>3, SeqEqual
<1> QED BY <1>4

LEMMA RegisteredAre == Registered = <<"long-polling", "callback-polling">>
<1> DEFINE T == {"websocket", "long-polling", "callback-polling"}
           q == <<"websocket", "long-polling", "callback-polling">>
<1>1. add(<<>>, "websocket") = <<"websocket">>
  BY DEF add, Range
<1>2. add(<<"websocket">>, "long-polling") = <<"websocket", "long-polling">>
  <2>1. Range(<<"websocket">>) = {"websocket"}
    BY DEF Range
  <2>2. "websocket" \in T /\ "long-polling" \in T
    OBVIOUS
  <2> HIDE DEF T
  <2> QED BY <2>1, <2>2, AppendSecond DEF add
<1>3. add(<<"websocket", "long-polling">>, "callback-polling") = q
  <2>1. Range(<<"websocket", "long-polling">>) = {"websocket", "long-polling"}
    BY DEF Range
  <2>2. "websocket" \in T /\ "long-polling" \in T /\ "callback-polling" \in T
    OBVIOUS
  <2> HIDE DEF T
  <2> QED BY <2>1, <2>2, AppendThird DEF add
<1>4. SelectInSeq(q, LAMBDA v : v = "websocket") = 1
  <2>1. {i \in 1 .. Len(q) : q[i] = "websocket"} = {1}
    OBVIOUS
  <2>2. Min({1}) = 1
    BY DEF Min
  <2> QED BY <2>1, <2>2 DEF SelectInSeq
<1>5. RemoveFirst(q, "websocket") = RemoveAt(q, 1)
  BY <1>4 DEF RemoveFirst
<1>6. RemoveAt(q, 1) = <<"long-polling", "callback-polling">>
  <2>1. q \in Seq(T) /\ SubSeq(q, 1, 0) = <<>> /\ Len(q) = 3
    OBVIOUS
  <2>2. SubSeq(q, 2, 3) = <<"long-polling", "callback-polling">>
    <3>1. "websocket" \in T /\ "long-polling" \in T /\ "callback-polling" \in T
      OBVIOUS
    <3> HIDE DEF T
    <3> QED BY <3>1, LastTwo
  <2>3. SubSeq(q, 2, 3) \in Seq(T)
    BY <2>1
  <2>4. RemoveAt(q, 1) = <<>> \o SubSeq(q, 2, 3)
    <3> HIDE DEF q, T
    <3> QED BY <2>1 DEF RemoveAt
  <2> HIDE DEF q, T
  <2>5. <<>> \o SubSeq(q, 2, 3) = SubSeq(q, 2, 3)
    BY <2>3, ConcatEmptySeq
  <2> QED BY <2>2, <2>4, <2>5
<1> QED BY <1>1, <1>2, <1>3, <1>5, <1>6 DEF Registered, remove

LEMMA TypesAre == Types = {"long-polling", "callback-polling"}
  BY RegisteredAre DEF Types, Range
LEMMA Negotiated == ASSUME NEW s PROVE negotiateTransport(s) \in Types
<1>1. "callback-polling" \in findTransportTypes(s)
  BY TypesAre DEF findTransportTypes, accept
<1> DEFINE I == {i \in 1 .. Len(Registered) : Registered[i] \in findTransportTypes(s)}
<1>2. 2 \in I /\ I \subseteq {1, 2}
  BY <1>1, RegisteredAre
<1>3. Min(I) \in {1, 2}
  BY <1>2 DEF Min
<1>4. SelectInSeq(Registered, LAMBDA type : type \in findTransportTypes(s)) \in {1, 2}
  BY <1>2, <1>3 DEF SelectInSeq
<1> HIDE DEF I
<1> QED BY <1>4, RegisteredAre, TypesAre DEF negotiateTransport

-----------------------------------------------------------------------------
\* The types of the client's record, and the numbers it draws: ids not in use.

Channels == {"handshake", "connect", "disconnect", "publish", "subscribe"}
App == {"publish", "subscribe"}

Messages ==
  [channel : Channels, n : Nat, clientId : Nat, length : Nat \ {0}, displaced : BOOLEAN]
Replies ==
  [channel : Channels, n : Nat, ok : BOOLEAN, advice : {"", "retry", "handshake", "none"},
   clientId : Nat]

\* What a request carries: publishes and subscriptions, or one other message.
AppMessages == {m \in Messages : m.channel \in App}
AppBatches == Seq(AppMessages) \ {<<>>}
MetaBatches ==
  {ms \in Seq(Messages) : Len(ms) = 1 /\ ms[1].channel \notin App /\ ms[1].length = 1}
Batches == AppBatches \cup MetaBatches
Kind(ms) == ms[1].channel

\* What may wait, or fail after the call: no handshake and no long poll.
Waiting == {ms \in Batches : Kind(ms) \notin {"handshake", "connect"}}
Envelopes == [id : Nat, messages : Waiting]
Failures == [type : Types, id : Nat, messages : Waiting]
Transports == [requests : SUBSET Nat, metaConnect : Nat, envelopes : Seq(Envelopes)]

Requests ==
  [type : Types, id : Nat, metaConnect : BOOLEAN, messages : Batches, xhr : BOOLEAN,
   expired : BOOLEAN, served : BOOLEAN, replies : Seq(Replies)]

\* The replies of the server are those to the messages; it takes every handshake.
Answered(w) ==
  /\ DOMAIN w.replies = DOMAIN w.messages
  /\ \A i \in DOMAIN w.replies :
       /\ w.replies[i].channel = w.messages[i].channel
       /\ w.replies[i].channel = "handshake" =>
            w.replies[i].ok /\ w.replies[i].clientId # 0
UnderWay ==
  {w \in Requests : /\ w.metaConnect <=> Kind(w.messages) = "connect"
                    /\ w.xhr => ~w.expired
                    /\ w.served => Answered(w)}

Clients ==
  [status : {"disconnected", "disconnecting", "handshaking", "connecting", "connected"},
   clientId : Nat, reconnect : {"retry", "handshake", "none"},
   scheduled : {"", "connect", "handshake"}, internalBatch : BOOLEAN,
   queue : Seq(AppMessages), connected : BOOLEAN, subs : Nat, transport : Types,
   transports : [Types -> Transports], crossOk : BOOLEAN,
   wire : {v \in SUBSET UnderWay : IsFiniteSet(v)}, deferred : Seq(Failures)]

-----------------------------------------------------------------------------
LEMMA IdsOfSequence ==
  ASSUME NEW q, NEW n \in Nat, DOMAIN q = 1 .. n
  PROVE  IsFiniteSet({q[i].id : i \in DOMAIN q})
<1> DEFINE T == {q[i].id : i \in DOMAIN q}
           f == [i \in 1 .. n |-> q[i].id]
<1>1. IsFiniteSet(1 .. n)
  BY FS_Interval
<1>2. f \in Surjection(1 .. n, T)
  BY DEF Surjection
<1> HIDE DEF f, T
<1>3. IsFiniteSet(T)
  BY <1>1, <1>2, FS_Surjection
<1> QED BY <1>3 DEF T

LEMMA IdsOfSet ==
  ASSUME NEW S, IsFiniteSet(S)
  PROVE  IsFiniteSet({w.id : w \in S})
<1> DEFINE T == {w.id : w \in S}
           f == [w \in S |-> w.id]
<1>2. f \in Surjection(S, T)
  BY DEF Surjection
<1> HIDE DEF f, T
<1>3. IsFiniteSet(T)
  BY <1>2, FS_Surjection
<1> QED BY <1>3 DEF T

LEMMA ClientsOfMessages ==
  ASSUME NEW q, NEW n \in Nat, DOMAIN q = 1 .. n
  PROVE  IsFiniteSet({q[i].clientId : i \in DOMAIN q})
<1> DEFINE T == {q[i].clientId : i \in DOMAIN q}
           f == [i \in 1 .. n |-> q[i].clientId]
<1>1. IsFiniteSet(1 .. n)
  BY FS_Interval
<1>2. f \in Surjection(1 .. n, T)
  BY DEF Surjection
<1> HIDE DEF f, T
<1>3. IsFiniteSet(T)
  BY <1>1, <1>2, FS_Surjection
<1> QED BY <1>3 DEF T

\* The smallest number that is not in use.
LEMMA FreshNumber ==
  ASSUME NEW S, IsFiniteSet(S)
  PROVE  Min((1 .. Cardinality(S) + 1) \ S) \in Nat \ ({0} \cup S)
<1> DEFINE n == Cardinality(S)
           R == (1 .. n + 1) \ S
<1>1. n \in Nat
  BY FS_CardinalityType
<1>2. R # {}
  <2> SUFFICES ASSUME 1 .. n + 1 \subseteq S PROVE FALSE
    OBVIOUS
  <2>1. Cardinality(1 .. n + 1) = n + 1
    BY <1>1, FS_Interval
  <2>2. Cardinality(1 .. n + 1) <= n
    BY FS_Subset
  <2> HIDE DEF n
  <2> QED BY <1>1, <2>1, <2>2
<1>3. R \subseteq Nat
  BY <1>1
<1>4. PICK x \in R : \A y \in R : x <= y
  <2> HIDE DEF R
  <2> QED BY <1>2, <1>3, LeastNatural
<1>5. Min(R) \in R
  <2> HIDE DEF R
  <2> QED BY <1>4 DEF Min
<1>6. Min(R) \in Nat \ ({0} \cup S)
  BY <1>1, <1>5
<1> QED BY <1>6

LEMMA NextIdIsNew ==
  ASSUME NEW s \in Clients, NEW type \in Types
  PROVE  nextId(s, type) \in Nat \ {0} /\ nextId(s, type) \notin UsedIds(s, type)
<1>1. IsFiniteSet({w.id : w \in {v \in s.wire : v.type = type}})
  <2>1. IsFiniteSet(s.wire)
    BY DEF Clients
  <2>2. IsFiniteSet({v \in s.wire : v.type = type})
    BY <2>1, FS_Subset
  <2> QED BY <2>2, IdsOfSet
<1>2. IsFiniteSet({s.transports[type].envelopes[i].id : i \in DOMAIN s.transports[type].envelopes})
  <2> DEFINE q == s.transports[type].envelopes
  <2>1. q \in Seq(Envelopes)
    BY DEF Clients, Transports
  <2> HIDE DEF q
  <2>2. Len(q) \in Nat /\ DOMAIN q = 1 .. Len(q)
    BY <2>1
  <2>3. IsFiniteSet({q[i].id : i \in DOMAIN q})
    BY <2>2, IdsOfSequence
  <2> QED BY <2>3 DEF q
<1>3. IsFiniteSet({s.deferred[i].id : i \in DOMAIN s.deferred})
  <2>1. s.deferred \in Seq(Failures)
    BY DEF Clients
  <2>2. Len(s.deferred) \in Nat /\ DOMAIN s.deferred = 1 .. Len(s.deferred)
    BY <2>1
  <2> QED BY <2>2, IdsOfSequence
<1>4. IsFiniteSet(UsedIds(s, type))
  BY <1>1, <1>2, <1>3, FS_Union DEF UsedIds
<1> QED BY <1>4, FreshNumber DEF nextId

-----------------------------------------------------------------------------
\* What goes on the wire. A token is a long poll or a handshake that has not expired:
\* what the client waits for.

\* A long poll or a handshake that the client waits for.
Token(w) == ~w.expired /\ Kind(w.messages) \in {"connect", "handshake"}
Tokens(s) == {w \in s.wire : Token(w)}

\* All that a transport does not touch.
Same(s, r) ==
  /\ r.status = s.status
  /\ r.clientId = s.clientId
  /\ r.reconnect = s.reconnect
  /\ r.scheduled = s.scheduled
  /\ r.internalBatch = s.internalBatch
  /\ r.queue = s.queue
  /\ r.connected = s.connected
  /\ r.subs = s.subs
  /\ r.transport = s.transport
Sends(s, r) == r \in Clients /\ Same(s, r) /\ Tokens(r) = Tokens(s)

Steady(s, r) == r.transports = s.transports /\ r.deferred = s.deferred /\ r.crossOk = s.crossOk

\* A request has gone out.
Gone(s, r, w) == r \in Clients /\ Same(s, r) /\ Steady(s, r) /\ r.wire = s.wire \cup {w}

-----------------------------------------------------------------------------
LEMMA BatchIs ==
  ASSUME NEW ms \in Batches
  PROVE  /\ ms \in Seq(Messages) /\ ms # <<>> /\ Len(ms) \in Nat \ {0}
         /\ DOMAIN ms = 1 .. Len(ms) /\ 1 \in DOMAIN ms /\ ms[1] \in Messages
         /\ Kind(ms) \in App <=> ms \in AppBatches
         /\ Kind(ms) \notin App <=> ms \in MetaBatches
<1>1. AppMessages \subseteq Messages
  BY DEF AppMessages
<1>2. CASE ms \in AppBatches
  <2>1. ms \in Seq(AppMessages) /\ ms # <<>>
    BY <1>2 DEF AppBatches
  <2>2. ms \in Seq(Messages)
    BY <2>1, <1>1
  <2>3. Len(ms) \in Nat \ {0} /\ 1 \in DOMAIN ms /\ DOMAIN ms = 1 .. Len(ms)
    BY <2>1
  <2>4. ms[1] \in AppMessages
    BY <2>1, <2>3
  <2> QED BY <2>1, <2>2, <2>3, <2>4, <1>2 DEF Kind, AppMessages, MetaBatches
<1>3. CASE ms \in MetaBatches
  <2>1. ms \in Seq(Messages) /\ Len(ms) = 1 /\ ms[1].channel \notin App
    BY <1>3 DEF MetaBatches
  <2>2. ms # <<>> /\ 1 \in DOMAIN ms /\ DOMAIN ms = 1 .. 1 /\ ms[1] \in Messages
    BY <2>1
  <2>3. ms \notin AppBatches
    <3>1. ms \in AppBatches => ms[1] \in AppMessages
      BY <2>1, <2>2 DEF AppBatches
    <3> QED BY <2>1, <3>1 DEF AppMessages
  <2> QED BY <2>1, <2>2, <2>3, <1>3 DEF Kind
<1> QED BY <1>2, <1>3 DEF Batches

LEMMA RequestIs ==
  ASSUME NEW type \in Types, NEW id \in Nat, NEW meta \in BOOLEAN, NEW ms \in Batches,
         NEW xhr \in BOOLEAN, meta <=> Kind(ms) = "connect"
  PROVE  /\ Request(type, id, meta, ms, xhr) \in UnderWay
         /\ Token(Request(type, id, meta, ms, xhr)) <=> Kind(ms) \in {"connect", "handshake"}
BY DEF Request, UnderWay, Requests, Token, Answered

LEMMA OnTheWire ==
  ASSUME NEW s \in Clients, NEW w \in UnderWay
  PROVE  LET r == [s EXCEPT !.wire = @ \cup {w}]
         IN  /\ r \in Clients /\ Same(s, r) /\ Steady(s, r)
             /\ r.wire = s.wire \cup {w}
             /\ Tokens(r) = IF Token(w) THEN Tokens(s) \cup {w} ELSE Tokens(s)
<1>1. IsFiniteSet(s.wire \cup {w})
  BY FS_AddElement DEF Clients
<1>2. s.wire \cup {w} \in {v \in SUBSET UnderWay : IsFiniteSet(v)}
  BY <1>1 DEF Clients
<1> QED BY <1>2 DEF Clients, Same, Steady, Tokens

LEMMA FitsAlone ==
  ASSUME NEW ms \in MetaBatches
  PROVE  fits(ms)
<1> DEFINE Lengths(h) == h = [i \in 0 .. Len(ms) |-> IF i = 0 THEN 0 ELSE h[i - 1] + ms[i].length]
           h == CHOOSE h : Lengths(h)
           f == [i \in 0 .. Len(ms) |-> IF i = 0 THEN 0 ELSE 1]
<1>1. Len(ms) = 1 /\ ms[1].length = 1
  BY DEF MetaBatches
<1>2. Lengths(f)
  BY <1>1
<1>3. Lengths(h)
  <2> HIDE DEF Lengths, f
  <2> QED BY <1>2
<1>4. h[0] = 0 /\ h[1] = 1
  <2>1. \A i \in 0 .. 1 : h[i] = IF i = 0 THEN 0 ELSE h[i - 1] + ms[i].length
    <3> HIDE DEF h
    <3> QED BY <1>1, <1>3
  <2> HIDE DEF h
  <2> QED BY <1>1, <2>1
<1>5. fits(ms) <=> h[Len(ms)] <= MaxLength
  BY DEF fits
<1> HIDE DEF h
<1> QED BY <1>1, <1>4, <1>5, MaxLengthAssumption

LEMMA XhrSends ==
  ASSUME NEW s \in Clients, NEW id \in Nat, NEW meta \in BOOLEAN, NEW ms \in Batches,
         meta <=> Kind(ms) = "connect"
  PROVE  /\ Gone(s, xhrSend(s, id, meta, ms), Request("long-polling", id, meta, ms, TRUE))
         /\ Kind(ms) \notin {"connect", "handshake"} =>
              Tokens(xhrSend(s, id, meta, ms)) = Tokens(s)
<1>1. "long-polling" \in Types
  BY TypesAre
<1> QED BY <1>1, RequestIs, OnTheWire DEF xhrSend, Gone

LEMMA JsonpSends ==
  ASSUME NEW s \in Clients, NEW id \in Nat, NEW meta \in BOOLEAN, NEW ms \in Batches,
         meta <=> Kind(ms) = "connect"
  PROVE  /\ Gone(s, jsonpSend(s, id, meta, ms), Request("callback-polling", id, meta, ms, FALSE))
         /\ Kind(ms) \notin {"connect", "handshake"} =>
              Tokens(jsonpSend(s, id, meta, ms)) = Tokens(s)
<1>1. "callback-polling" \in Types
  BY TypesAre
<1> QED BY <1>1, RequestIs, OnTheWire DEF jsonpSend, Gone

-----------------------------------------------------------------------------
\* The parts of sending: the registry of requests, the envelopes that wait, the failures
\* that come later, the pieces of a long envelope.

LEMMA AlongSteps ==
  ASSUME NEW s \in Clients
  PROVE  /\ Sends(s, s)
         /\ \A r, t : Sends(s, r) /\ Sends(r, t) => Sends(s, t)
BY DEF Sends, Same

\* Only what one transport believes has changed.
Inside(s, r, type) ==
  /\ Sends(s, r)
  /\ r.wire = s.wire
  /\ r.deferred = s.deferred
  /\ r.crossOk = s.crossOk
  /\ \A t \in Types \ {type} : r.transports[t] = s.transports[t]

LEMMA EnvelopesOf ==
  ASSUME NEW s \in Clients, NEW type \in Types
  PROVE  /\ s.transports[type] \in Transports
         /\ s.transports[type].envelopes \in Seq(Envelopes)
         /\ s.transports[type].requests \in SUBSET Nat
         /\ s.deferred \in Seq(Failures)
BY DEF Clients, Transports

LEMMA InTransport ==
  ASSUME NEW s \in Clients, NEW type \in Types, NEW v \in Transports
  PROVE  Inside(s, [s EXCEPT !.transports[type] = v], type)
         /\ [s EXCEPT !.transports[type] = v].transports[type] = v
BY DEF Inside, Sends, Clients, Same, Tokens

LEMMA Remembers ==
  ASSUME NEW s \in Clients, NEW type \in Types, NEW id \in Nat
  PROVE  /\ Inside(s, remember(s, type, id), type)
         /\ remember(s, type, id).transports[type] =
              [s.transports[type] EXCEPT !.requests = @ \cup {id}]
<1> DEFINE v == [s.transports[type] EXCEPT !.requests = @ \cup {id}]
<1>1. v \in Transports
  BY ZenonT(60) DEF Clients, Transports
<1>2. remember(s, type, id) = [s EXCEPT !.transports[type] = v]
  BY DEF Clients, Transports, remember
<1> HIDE DEF v
<1>3. QED BY <1>1, <1>2, InTransport DEF v

LEMMA Forgets ==
  ASSUME NEW s \in Clients, NEW type \in Types, NEW id
  PROVE  /\ Inside(s, forget(s, type, id), type)
         /\ forget(s, type, id).transports[type] =
              [s.transports[type] EXCEPT !.requests = @ \ {id}]
<1> DEFINE v == [s.transports[type] EXCEPT !.requests = @ \ {id}]
<1>1. v \in Transports
  BY ZenonT(60) DEF Clients, Transports
<1>2. forget(s, type, id) = [s EXCEPT !.transports[type] = v]
  BY DEF Clients, Transports, forget
<1> HIDE DEF v
<1>3. QED BY <1>1, <1>2, InTransport DEF v

Waits(s, type, q) == [s EXCEPT !.transports[type].envelopes = q]

LEMMA WaitsAre ==
  ASSUME NEW s \in Clients, NEW type \in Types, NEW q \in Seq(Envelopes)
  PROVE  /\ Inside(s, Waits(s, type, q), type)
         /\ Waits(s, type, q).transports[type] = [s.transports[type] EXCEPT !.envelopes = q]
<1> DEFINE v == [s.transports[type] EXCEPT !.envelopes = q]
<1>1. v \in Transports
  BY ZenonT(60) DEF Clients, Transports
<1>2. Waits(s, type, q) = [s EXCEPT !.transports[type] = v]
  BY DEF Clients, Transports, Waits
<1> HIDE DEF v
<1>3. QED BY <1>1, <1>2, InTransport DEF v

LEMMA AppendIn ==
  ASSUME NEW T, NEW q \in Seq(T), NEW x \in T
  PROVE  Append(q, x) \in Seq(T) \ {<<>>}
<1>1. Append(q, x) \in Seq(T) /\ Len(Append(q, x)) = Len(q) + 1 /\ Len(q) \in Nat
  OBVIOUS
<1>2. Len(<<>>) = 0
  OBVIOUS
<1>3. QED BY <1>1, <1>2

LEMMA JoinsQueue ==
  ASSUME NEW s \in Clients, NEW type \in Types, NEW id \in Nat, NEW ms \in Waiting
  PROVE  /\ Inside(s, wait(s, type, id, ms), type)
         /\ wait(s, type, id, ms).transports[type] =
              [s.transports[type] EXCEPT !.envelopes = Append(@, [id |-> id, messages |-> ms])]
<1> DEFINE q == Append(s.transports[type].envelopes, [id |-> id, messages |-> ms])
<1>1. q \in Seq(Envelopes)
  <2>1. [id |-> id, messages |-> ms] \in Envelopes
    BY DEF Envelopes
  <2> QED BY <2>1, EnvelopesOf, AppendIn
<1>2. wait(s, type, id, ms) = Waits(s, type, q)
  BY DEF Clients, Transports, wait, Waits
<1>3. [s.transports[type] EXCEPT !.envelopes = Append(@, [id |-> id, messages |-> ms])]
        = [s.transports[type] EXCEPT !.envelopes = q]
  BY EnvelopesOf DEF Transports
<1> HIDE DEF q
<1>4. QED BY <1>1, <1>2, <1>3, WaitsAre

LEMMA FailsLater ==
  ASSUME NEW s \in Clients, NEW type \in Types, NEW id \in Nat, NEW ms \in Waiting
  PROVE  /\ Sends(s, failLater(s, type, id, ms))
         /\ failLater(s, type, id, ms).wire = s.wire
         /\ failLater(s, type, id, ms).transports = s.transports
         /\ failLater(s, type, id, ms).crossOk = s.crossOk
         /\ failLater(s, type, id, ms).deferred =
              Append(s.deferred, [type |-> type, id |-> id, messages |-> ms])
<1> DEFINE q == Append(s.deferred, [type |-> type, id |-> id, messages |-> ms])
<1>1. q \in Seq(Failures)
  <2>1. [type |-> type, id |-> id, messages |-> ms] \in Failures
    BY DEF Failures
  <2> QED BY <2>1, EnvelopesOf, AppendIn
<1>2. failLater(s, type, id, ms) = [s EXCEPT !.deferred = q]
  BY DEF Clients, failLater
<1> HIDE DEF q
<1>3. /\ [s EXCEPT !.deferred = q] \in Clients
      /\ [s EXCEPT !.deferred = q].wire = s.wire
      /\ [s EXCEPT !.deferred = q].transports = s.transports
      /\ [s EXCEPT !.deferred = q].crossOk = s.crossOk
      /\ [s EXCEPT !.deferred = q].deferred = q
      /\ Same(s, [s EXCEPT !.deferred = q])
  BY <1>1 DEF Clients, Same
<1>4. QED BY <1>2, <1>3 DEF Sends, Tokens, q

LEMMA AppBatchIs ==
  ASSUME NEW ms \in AppBatches
  PROVE  ms \in Waiting /\ ms \in Batches /\ Kind(ms) \in App
<1>1. ms \in Batches
  BY DEF Batches
<1>2. Kind(ms) \in App
  BY <1>1, BatchIs
<1> QED BY <1>1, <1>2 DEF Waiting, App

-----------------------------------------------------------------------------
LEMMA AddsPiece ==
  ASSUME NEW done \in Seq(AppBatches), NEW m \in AppMessages
  PROVE  addPiece(done, m) \in Seq(AppBatches) \ {<<>>}
<1>1. CASE done # <<>> /\ fits(Append(Last(done), m))
  <2>1. Len(done) \in 1 .. Len(done) /\ Last(done) = done[Len(done)]
    BY <1>1 DEF Last
  <2>2. done[Len(done)] \in AppBatches
    BY <2>1
  <2>3. Append(done[Len(done)], m) \in AppBatches
    <3> DEFINE p == done[Len(done)]
    <3>1. p \in Seq(AppMessages)
      BY <2>2 DEF AppBatches
    <3> HIDE DEF p
    <3>2. Append(p, m) \in Seq(AppMessages) /\ Append(p, m) # <<>>
      BY <3>1
    <3> QED BY <3>2 DEF AppBatches, p
  <2>4. [done EXCEPT ![Len(done)] = Append(@, m)] \in Seq(AppBatches) \ {<<>>}
    BY <1>1, <2>1, <2>3
  <2> QED BY <1>1, <2>4 DEF addPiece
<1>2. CASE ~ (done # <<>> /\ fits(Append(Last(done), m)))
  <2>1. <<m>> \in AppBatches
    BY DEF AppBatches
  <2>2. Append(done, <<m>>) \in Seq(AppBatches) \ {<<>>}
    BY <2>1, AppendIn
  <2> QED BY <1>2, <2>2 DEF addPiece
<1> QED BY <1>1, <1>2

LEMMA PiecesAre ==
  ASSUME NEW ms \in AppBatches
  PROVE  pieces(ms) \in Seq(AppBatches) \ {<<>>}
<1> DEFINE A == Seq(AppBatches)
           n == Len(ms)
<1>1. ms \in Seq(AppMessages) /\ n \in Nat \ {0} /\ DOMAIN ms = 1 .. n
  BY DEF AppBatches
<1>2. <<>> \in A
  OBVIOUS
<1>3. \A a \in A, i \in 1 .. n : addPiece(a, ms[i]) \in A \ {<<>>}
  BY <1>1, AddsPiece
<1> HIDE DEF A, n
<1>a. PICK g : PieceSteps(g, ms, n) /\ pieces(ms) = g[n]
  BY <1>1, <1>2, <1>3, FoldPieces
<1>4. /\ g[0] = <<>>
      /\ \A k \in 0 .. n - 1 : g[k + 1] = addPiece(g[k], ms[k + 1])
      /\ pieces(ms) = g[n]
  BY <1>a DEF PieceSteps
<1>5. \A k \in 0 .. n : g[k] \in A
  <2>1. \A k \in 0 .. n - 1 : g[k] \in A => g[k + 1] \in A
    BY <1>1, <1>3, <1>4
  <2> QED BY <1>1, <1>2, <1>4, <2>1, KeepsIn
<1>6. n - 1 \in 0 .. n - 1 /\ (n - 1) + 1 = n /\ g[n - 1] \in A
  BY <1>1, <1>5
<1>7. g[n] = addPiece(g[n - 1], ms[n]) /\ n \in 1 .. n
  BY <1>1, <1>4, <1>6
<1>8. g[n] \in A \ {<<>>}
  BY <1>3, <1>6, <1>7
<1> QED BY <1>4, <1>8 DEF A

LEMMA SendsPiece ==
  ASSUME NEW s \in Clients, NEW piece \in AppBatches
  PROVE  Sends(s, sendPiece(s, piece))
<1> DEFINE id == nextId(s, "callback-polling")
           r == remember(s, "callback-polling", id)
<1>1. "callback-polling" \in Types /\ id \in Nat
  BY TypesAre, NextIdIsNew
<1>2. piece \in Waiting /\ piece \in Batches /\ Kind(piece) \in App
  BY AppBatchIs
<1> HIDE DEF id
<1>3. Sends(s, r) /\ r \in Clients
  BY <1>1, Remembers DEF Inside, Sends
<1> HIDE DEF r
<1>4. Sends(r, jsonpSend(r, id, FALSE, piece))
  BY <1>1, <1>2, <1>3, JsonpSends DEF Gone, Sends, App
<1>5. Sends(s, jsonpSend(r, id, FALSE, piece))
  BY <1>3, <1>4, AlongSteps
<1>6. Sends(s, wait(s, "callback-polling", id, piece))
  BY <1>1, <1>2, JoinsQueue DEF Inside
<1>7. QED BY <1>5, <1>6 DEF sendPiece, id, r

LEMMA SendsPieces ==
  ASSUME NEW s \in Clients, NEW cut, cut \in Seq(AppBatches)
  PROVE  Sends(s, sendPieces(s, cut))
<1> DEFINE A == {a \in Clients : Sends(s, a)}
           n == Len(cut)
<1>1. n \in Nat /\ DOMAIN cut = 1 .. n
  OBVIOUS
<1>2. s \in A
  BY AlongSteps
<1>3. \A a \in A, i \in 1 .. n : sendPiece(a, cut[i]) \in A
  <2> TAKE a \in A, i \in 1 .. n
  <2>1. cut[i] \in AppBatches
    BY <1>1
  <2>2. Sends(a, sendPiece(a, cut[i]))
    BY <2>1, SendsPiece
  <2> QED BY <2>2, AlongSteps DEF Sends
<1> HIDE DEF A, n
<1>4. sendPieces(s, cut) \in A
  BY <1>1, <1>2, <1>3, FoldSend
<1> QED BY <1>4 DEF A

-----------------------------------------------------------------------------
\* Sending, and what the end of a request sets off. Neither touches a token, but for the
\* message that is one.

LEMMA TailIn ==
  ASSUME NEW T, NEW q \in Seq(T), q # <<>>
  PROVE  Head(q) \in T /\ Tail(q) \in Seq(T)
OBVIOUS

LEMMA WaitingIs ==
  ASSUME NEW ms \in Waiting
  PROVE  /\ ms \in Batches /\ Kind(ms) \notin {"connect", "handshake"}
         /\ ms \notin MetaBatches => ms \in AppBatches
BY DEF Waiting, Batches

LEMMA CallbackSendsWaiting ==
  ASSUME NEW s \in Clients, NEW id \in Nat, NEW ms \in Waiting
  PROVE  Sends(s, callbackSend(s, id, FALSE, ms))
<1>0. ms \in Batches /\ Kind(ms) \notin {"connect", "handshake"}
  BY WaitingIs
<1> DEFINE cut == pieces(ms)
<1>1. CASE fits(ms)
  <2>1. Sends(s, jsonpSend(s, id, FALSE, ms))
    BY <1>0, JsonpSends DEF Gone, Sends
  <2> QED BY <1>1, <2>1 DEF callbackSend
<1>2. CASE ~fits(ms) /\ \E i \in DOMAIN cut : ~fits(cut[i])
  <2>1. Sends(s, failLater(s, "callback-polling", id, ms))
    BY TypesAre, FailsLater
  <2> QED BY <1>2, <2>1 DEF callbackSend
<1>3. CASE ~fits(ms) /\ ~ \E i \in DOMAIN cut : ~fits(cut[i])
  <2>1. ms \in AppBatches
    BY <1>3, WaitingIs, FitsAlone
  <2>2. cut \in Seq(AppBatches) /\ cut # <<>>
    BY <2>1, PiecesAre
  <2>3. cut[1] \in AppBatches /\ Tail(cut) \in Seq(AppBatches)
    <3> HIDE DEF cut
    <3> QED BY <2>2
  <2> DEFINE r == jsonpSend(s, id, FALSE, cut[1])
  <2>4. cut[1] \in Batches /\ Kind(cut[1]) \in App
    BY <2>3, AppBatchIs
  <2>5. Sends(s, r) /\ r \in Clients
    BY <2>4, JsonpSends DEF Gone, Sends, App
  <2>6. Sends(r, sendPieces(r, Tail(cut)))
    <3> HIDE DEF r, cut
    <3> QED BY <2>3, <2>5, SendsPieces
  <2>7. Sends(s, sendPieces(r, Tail(cut)))
    <3> HIDE DEF r, cut
    <3> QED BY <2>5, <2>6, AlongSteps
  <2>8. QED BY <1>3, <2>7 DEF callbackSend
<1>4. QED BY <1>1, <1>2, <1>3

LEMMA SendsWaiting ==
  ASSUME NEW s \in Clients, NEW type \in Types, NEW id \in Nat, NEW ms \in Waiting
  PROVE  Sends(s, transportSend(s, type, id, FALSE, ms))
<1>0. ms \in Batches /\ Kind(ms) \notin {"connect", "handshake"}
  BY WaitingIs
<1>1. Sends(s, xhrSend(s, id, FALSE, ms))
  BY <1>0, XhrSends DEF Gone, Sends
<1>2. QED BY <1>1, CallbackSendsWaiting DEF transportSend

\* A message that is no publish and no subscription goes as it is.
LEMMA SendsMeta ==
  ASSUME NEW s \in Clients, NEW type \in Types, NEW id \in Nat, NEW ms \in MetaBatches,
         NEW meta \in BOOLEAN, meta <=> Kind(ms) = "connect"
  PROVE  Gone(s, transportSend(s, type, id, meta, ms),
              Request(type, id, meta, ms, type = "long-polling"))
<1>0. ms \in Batches
  BY DEF Batches
<1>1. CASE type = "long-polling"
  <2>1. transportSend(s, type, id, meta, ms) = xhrSend(s, id, meta, ms)
    BY <1>1 DEF transportSend
  <2>2. (type = "long-polling") = TRUE
    BY <1>1
  <2>3. QED BY <1>0, <1>1, <2>1, <2>2, XhrSends, ZenonT(60)
<1>2. CASE type # "long-polling"
  <2>1. type = "callback-polling" /\ (type = "long-polling") = FALSE
    BY <1>2, TypesAre
  <2>2. fits(ms)
    BY FitsAlone
  <2>3. transportSend(s, type, id, meta, ms) = jsonpSend(s, id, meta, ms)
    BY <1>2, <2>2 DEF transportSend, callbackSend
  <2>4. QED BY <1>0, <2>1, <2>3, JsonpSends, ZenonT(60)
<1>3. QED BY <1>1, <1>2

LEMMA QueueSends ==
  ASSUME NEW s \in Clients, NEW type \in Types, NEW ms \in Waiting
  PROVE  Sends(s, queueSend(s, type, ms))
<1> DEFINE id == nextId(s, type)
           r == remember(s, type, id)
<1>1. id \in Nat
  BY NextIdIsNew
<1> HIDE DEF id
<1>2. Sends(s, r) /\ r \in Clients
  BY <1>1, Remembers DEF Inside, Sends
<1> HIDE DEF r
<1>3. Sends(r, transportSend(r, type, id, FALSE, ms))
  BY <1>1, <1>2, SendsWaiting
<1>4. Sends(s, transportSend(r, type, id, FALSE, ms))
  BY <1>2, <1>3 DEF Sends, Same
<1>5. Sends(s, wait(s, type, id, ms))
  BY <1>1, JoinsQueue DEF Inside
<1>6. QED BY <1>4, <1>5 DEF queueSend, id, r

\* With no request under way a message that is no publish and no subscription goes.
LEMMA QueueSendsMeta ==
  ASSUME NEW s \in Clients, NEW type \in Types, NEW ms \in MetaBatches,
         Kind(ms) # "connect", s.transports[type].requests = {}
  PROVE  LET r == queueSend(s, type, ms)
             id == nextId(s, type)
         IN  /\ r \in Clients /\ Same(s, r) /\ id \in Nat
             /\ r.wire = s.wire \cup {Request(type, id, FALSE, ms, type = "long-polling")}
             /\ r.transports[type] = [s.transports[type] EXCEPT !.requests = {id}]
             /\ \A t \in Types \ {type} : r.transports[t] = s.transports[t]
             /\ r.deferred = s.deferred
<1> DEFINE id == nextId(s, type)
           r == remember(s, type, id)
           t == transportSend(r, type, id, FALSE, ms)
<1>1. id \in Nat
  BY NextIdIsNew
<1>2. hasRoom(s, type)
  BY FS_EmptySet, MaxConnectionsAssumption DEF hasRoom
<1>3. queueSend(s, type, ms) = t
  BY <1>2 DEF queueSend
<1> HIDE DEF id
<1>4. Inside(s, r, type) /\ r.transports[type] = [s.transports[type] EXCEPT !.requests = {id}]
  <2>1. [s.transports[type] EXCEPT !.requests = @ \cup {id}] = [s.transports[type] EXCEPT !.requests = {id}]
    OBVIOUS
  <2>2. QED BY <1>1, <2>1, Remembers
<1> HIDE DEF r
<1>5. r \in Clients /\ Same(s, r) /\ r.wire = s.wire /\ r.deferred = s.deferred
      /\ \A u \in Types \ {type} : r.transports[u] = s.transports[u]
  BY <1>4 DEF Inside, Sends
<1>6. Gone(r, t, Request(type, id, FALSE, ms, type = "long-polling"))
  BY <1>1, <1>5, SendsMeta
<1> HIDE DEF t
<1>7. QED BY <1>1, <1>3, <1>4, <1>5, <1>6 DEF Gone, Same, Steady, id

-----------------------------------------------------------------------------
LEMMA DisplacedAre ==
  ASSUME NEW ms \in Waiting
  PROVE  Displaced(ms) \in Waiting
<1> DEFINE p == Displaced(ms)
<1>1. ms \in Batches /\ Kind(ms) \notin {"connect", "handshake"}
  BY WaitingIs
<1>2. /\ ms \in Seq(Messages) /\ ms # <<>> /\ Len(ms) \in Nat \ {0}
      /\ DOMAIN ms = 1 .. Len(ms) /\ ms[1] \in Messages
  BY <1>1, BatchIs
<1>3. \A m \in Messages : /\ [m EXCEPT !.displaced = TRUE] \in Messages
                          /\ [m EXCEPT !.displaced = TRUE].channel = m.channel
                          /\ [m EXCEPT !.displaced = TRUE].length = m.length
  BY DEF Messages
<1>4. \A i \in 1 .. Len(ms) : ms[i] \in Messages
  BY <1>2
<1>5. p \in Seq(Messages) /\ Len(p) = Len(ms)
  BY <1>2, <1>3, <1>4 DEF Displaced
<1>6. \A i \in 1 .. Len(ms) : p[i] \in Messages /\ p[i].channel = ms[i].channel
                               /\ p[i].length = ms[i].length
  BY <1>2, <1>3, <1>4 DEF Displaced
<1> HIDE DEF p
<1>7. Kind(p) = Kind(ms) /\ p # <<>>
  BY <1>2, <1>5, <1>6 DEF Kind
<1>8. CASE ms \in AppBatches
  <2>1. \A i \in 1 .. Len(ms) : ms[i] \in AppMessages
    BY <1>2, <1>8 DEF AppBatches
  <2>2. \A i \in 1 .. Len(p) : p[i] \in AppMessages
    BY <1>5, <1>6, <2>1 DEF AppMessages
  <2>3. p \in Seq(AppMessages)
    BY <1>5, <2>2
  <2>4. p \in AppBatches
    BY <1>7, <2>3 DEF AppBatches
  <2>5. QED BY <2>4, AppBatchIs DEF p
<1>9. CASE ms \in MetaBatches
  <2>1. p \in MetaBatches
    BY <1>2, <1>5, <1>6, <1>9 DEF MetaBatches
  <2>2. QED BY <1>1, <1>7, <2>1 DEF Waiting, Batches, p
<1>10. QED BY <1>1, <1>8, <1>9 DEF Batches

LEMMA AllDisplacedAre ==
  ASSUME NEW q \in Seq(Envelopes)
  PROVE  AllDisplaced(q) \in Seq(Envelopes)
<1>1. \A i \in 1 .. Len(q) : [q[i] EXCEPT !.messages = Displaced(@)] \in Envelopes
  <2> TAKE i \in 1 .. Len(q)
  <2>1. q[i] \in Envelopes
    OBVIOUS
  <2>2. QED BY <2>1, DisplacedAre DEF Envelopes
<1>2. DOMAIN q = 1 .. Len(q) /\ Len(q) \in Nat
  OBVIOUS
<1>3. QED BY <1>1, <1>2 DEF AllDisplaced

LEMMA CompletesRequest ==
  ASSUME NEW s \in Clients, NEW type \in Types, NEW id, NEW success \in BOOLEAN
  PROVE  /\ Sends(s, completeRequest(s, type, id, success))
         /\ s.transports[type].envelopes = <<>> =>
              completeRequest(s, type, id, success) = forget(s, type, id)
<1> DEFINE done == forget(s, type, id)
           waiting == done.transports[type].envelopes
           next == Head(waiting)
           shifted == [done EXCEPT !.transports[type].envelopes = Tail(@)]
<1>1. /\ Inside(s, done, type)
      /\ done.transports[type] = [s.transports[type] EXCEPT !.requests = @ \ {id}]
  BY Forgets
<1>2. waiting = s.transports[type].envelopes /\ waiting \in Seq(Envelopes)
  BY <1>1, EnvelopesOf DEF Transports
<1>3. done \in Clients /\ Sends(s, done)
  BY <1>1 DEF Inside, Sends
<1>4. CASE waiting = <<>>
  <2>1. completeRequest(s, type, id, success) = done
    BY <1>4 DEF completeRequest
  <2>2. QED BY <1>3, <2>1
<1>5. CASE waiting # <<>>
  <2>1. next \in Envelopes /\ Tail(waiting) \in Seq(Envelopes)
    <3> HIDE DEF waiting
    <3>1. QED BY <1>2, <1>5, TailIn
  <2>2. next.id \in Nat /\ next.messages \in Waiting
    BY <2>1 DEF Envelopes
  <2>3. shifted = Waits(done, type, Tail(waiting))
    BY <1>3 DEF Waits, Clients, Transports
  <2> HIDE DEF done, waiting, next
  <2>4. shifted \in Clients /\ Sends(done, shifted)
    <3> HIDE DEF shifted
    <3>1. Inside(done, shifted, type)
      BY <1>3, <2>1, <2>3, WaitsAre
    <3>2. QED BY <3>1 DEF Inside, Sends
  <2>5. Sends(s, shifted)
    BY <1>3, <2>4, AlongSteps
  <2> DEFINE ms == IF hasRoom(shifted, type) THEN next.messages ELSE Displaced(next.messages)
             late == failLater(shifted, type, next.id, next.messages)
  <2>6. ms \in Waiting
    BY <2>2, DisplacedAre
  <2>7. CASE success
    <3>1. Sends(shifted, queueSend(shifted, type, ms))
      <4> HIDE DEF shifted, ms
      <4>1. QED BY <2>4, <2>6, QueueSends
    <3>2. completeRequest(s, type, id, success) =
            After(shifted, LAMBDA t : queueSend(t, type, IF hasRoom(t, type) THEN next.messages
                                                          ELSE Displaced(next.messages)))
      BY <1>5, <2>7, Zenon DEF completeRequest, done, waiting, next
    <3>3. After(shifted, LAMBDA t : queueSend(t, type, IF hasRoom(t, type) THEN next.messages
                                                          ELSE Displaced(next.messages)))
            = queueSend(shifted, type, ms)
      <4> HIDE DEF shifted
      <4>1. QED BY DEF After
    <3> HIDE DEF shifted, ms
    <3>4. QED BY <1>2, <1>5, <2>5, <3>1, <3>2, <3>3, AlongSteps
  <2>8. CASE ~success
    <3>1. Sends(shifted, late) /\ late \in Clients
      <4> HIDE DEF shifted
      <4>1. QED BY <2>2, <2>4, FailsLater, ZenonT(60) DEF Sends
    <3> DEFINE after == [late EXCEPT !.transports[type].envelopes = AllDisplaced(@)]
               q == late.transports[type].envelopes
    <3>2. AllDisplaced(q) \in Seq(Envelopes)
      <4> HIDE DEF late
      <4>1. QED BY <3>1, EnvelopesOf, AllDisplacedAre
    <3>3. after = Waits(late, type, AllDisplaced(q))
      <4> HIDE DEF late
      <4>1. QED BY <3>1 DEF Waits, Clients, Transports
    <3>4. Sends(late, after)
      <4> HIDE DEF late, q, after
      <4>1. QED BY <3>1, <3>2, <3>3, WaitsAre DEF Inside
    <3>5. completeRequest(s, type, id, success) = after
      BY <1>5, <2>8 DEF completeRequest, done, waiting, next
    <3> HIDE DEF shifted, late, after
    <3>6. QED BY <1>2, <1>5, <2>5, <3>1, <3>4, <3>5, AlongSteps
  <2>9. QED BY <2>7, <2>8
<1>6. QED BY <1>4, <1>5

-----------------------------------------------------------------------------
\* The invariant of the client, and the end of a request of any kind.

Idle(s) == Tokens(s) = {}

\* Nothing waits, and no transport knows of a request, or of one only.
Bare(s) == \A t \in Types : s.transports[t].envelopes = <<>> /\ s.transports[t].requests = {}
Only(s, w) ==
  \A t \in Types : /\ s.transports[t].envelopes = <<>>
                   /\ \A id \in s.transports[t].requests : t = w.type /\ id = w.id

\* The client waits for one thing at a time: a long poll, a handshake or a timer.
OneTurn(s) ==
  /\ \A v, w \in Tokens(s) : v = w
  /\ s.scheduled # "" => Idle(s)

\* A long poll is one of the session; while the client handshakes nothing else is
\* under way, unless the page has disconnected it.
Phase(s) ==
  /\ \A w \in Tokens(s) :
       /\ Kind(w.messages) = "connect" => s.clientId # 0 \/ isDisconnected(s)
       /\ Kind(w.messages) = "handshake" =>
            s.clientId = 0 /\ s.internalBatch /\ (isDisconnected(s) \/ Only(s, w))
  /\ s.scheduled = "connect" => s.clientId # 0 \/ isDisconnected(s)
  /\ s.scheduled = "handshake" => s.internalBatch /\ (isDisconnected(s) \/ Bare(s))

Good(s) == s \in Clients /\ OneTurn(s) /\ Phase(s)

\* What r has under way that s had not.
Kept(s, r) == (\A v : Only(s, v) => Only(r, v)) /\ (Bare(s) => Bare(r))

LEMMA GoodAfter ==
  ASSUME NEW s, NEW r, Good(s), Sends(s, r), Kept(s, r)
  PROVE  Good(r)
BY DEF Good, Sends, Same, OneTurn, Phase, Idle, Kept, isDisconnected

LEMMA ForgetKeeps ==
  ASSUME NEW s \in Clients, NEW type \in Types, NEW id
  PROVE  Kept(s, forget(s, type, id))
<1> DEFINE r == forget(s, type, id)
<1>1. /\ Inside(s, r, type)
      /\ r.transports[type] = [s.transports[type] EXCEPT !.requests = @ \ {id}]
  BY Forgets
<1>2. \A t \in Types : /\ r.transports[t].envelopes = s.transports[t].envelopes
                       /\ r.transports[t].requests \subseteq s.transports[t].requests
                       /\ id \in r.transports[t].requests => t # type
  BY <1>1, EnvelopesOf DEF Inside, Transports
<1> HIDE DEF r
<1>3. QED BY <1>2 DEF Kept, Only, Bare, r

LEMMA CompletesKept ==
  ASSUME NEW s \in Clients, NEW type \in Types, NEW id, NEW success \in BOOLEAN
  PROVE  Kept(s, completeRequest(s, type, id, success))
<1>1. CASE s.transports[type].envelopes = <<>>
  BY <1>1, ForgetKeeps, CompletesRequest
<1>2. CASE s.transports[type].envelopes # <<>>
  BY <1>2 DEF Kept, Only, Bare
<1>3. QED BY <1>1, <1>2

LEMMA WithoutRequest ==
  ASSUME NEW s \in Clients, NEW w
  PROVE  /\ [s EXCEPT !.wire = @ \ {w}] \in Clients
         /\ Same(s, [s EXCEPT !.wire = @ \ {w}])
         /\ Steady(s, [s EXCEPT !.wire = @ \ {w}])
         /\ [s EXCEPT !.wire = @ \ {w}].wire = s.wire \ {w}
         /\ Tokens([s EXCEPT !.wire = @ \ {w}]) = Tokens(s) \ {w}
<1>1. IsFiniteSet(s.wire \ {w})
  BY FS_RemoveElement DEF Clients
<1>2. s.wire \ {w} \in {v \in SUBSET UnderWay : IsFiniteSet(v)}
  BY <1>1 DEF Clients
<1>3. QED BY <1>2 DEF Clients, Same, Steady, Tokens

LEMMA CompletesPoll ==
  ASSUME NEW s \in Clients, NEW type \in Types
  PROVE  /\ [s EXCEPT !.transports[type].metaConnect = 0] \in Clients
         /\ Same(s, [s EXCEPT !.transports[type].metaConnect = 0])
         /\ [s EXCEPT !.transports[type].metaConnect = 0].wire = s.wire
         /\ [s EXCEPT !.transports[type].metaConnect = 0].deferred = s.deferred
         /\ Kept(s, [s EXCEPT !.transports[type].metaConnect = 0])
<1> DEFINE v == [s.transports[type] EXCEPT !.metaConnect = 0]
           r == [s EXCEPT !.transports[type] = v]
<1>1. v \in Transports /\ v.envelopes = s.transports[type].envelopes
                       /\ v.requests = s.transports[type].requests
  BY EnvelopesOf DEF Transports
<1>2. [s EXCEPT !.transports[type].metaConnect = 0] = r
  BY DEF Clients, Transports
<1> HIDE DEF v
<1>3. Inside(s, r, type) /\ r.transports[type] = v
  BY <1>1, InTransport
<1> HIDE DEF r
<1>4. \A t \in Types : r.transports[t].envelopes = s.transports[t].envelopes
                        /\ r.transports[t].requests = s.transports[t].requests
  BY <1>1, <1>3 DEF Inside
<1>5. Kept(s, r)
  BY <1>4 DEF Kept, Only, Bare
<1>6. QED BY <1>2, <1>3, <1>5 DEF Inside, Sends

LEMMA Completes ==
  ASSUME NEW s \in Clients, NEW w \in UnderWay, NEW success \in BOOLEAN
  PROVE  /\ complete(s, w, success) \in Clients
         /\ Same(s, complete(s, w, success))
         /\ Tokens(complete(s, w, success)) = Tokens(s) \ {w}
         /\ Kept(s, complete(s, w, success))
         /\ ~w.metaConnect /\ Only(s, w) => Bare(complete(s, w, success))
<1> DEFINE r == [s EXCEPT !.wire = @ \ {w}]
<1>0. w.type \in Types
  BY DEF UnderWay, Requests
<1>1. /\ r \in Clients /\ Same(s, r) /\ Steady(s, r) /\ r.wire = s.wire \ {w}
      /\ Tokens(r) = Tokens(s) \ {w}
  BY WithoutRequest
<1>2. Kept(s, r) /\ (Only(s, w) => Only(r, w))
  BY <1>1 DEF Steady, Kept, Only, Bare
<1>3. CASE w.metaConnect
  <2>1. CASE mismatch(s, w)
    <3>1. complete(s, w, success) = r
      BY <1>3, <2>1 DEF complete
    <3>2. QED BY <1>1, <1>2, <1>3, <3>1
  <2>2. CASE ~mismatch(s, w)
    <3> DEFINE t == [r EXCEPT !.transports[w.type].metaConnect = 0]
    <3>1. complete(s, w, success) = t
      BY <1>3, <2>2 DEF complete
    <3> HIDE DEF r
    <3>2. t \in Clients /\ Same(r, t) /\ t.wire = r.wire /\ Kept(r, t)
      BY <1>0, <1>1, CompletesPoll
    <3> HIDE DEF t
    <3>3. QED BY <1>1, <1>2, <1>3, <3>1, <3>2 DEF Same, Tokens, Kept
  <2>3. QED BY <2>1, <2>2
<1>4. CASE ~w.metaConnect
  <2> DEFINE t == completeRequest(r, w.type, w.id, success)
  <2>1. complete(s, w, success) = t
    BY <1>4 DEF complete
  <2> HIDE DEF r
  <2>2. Sends(r, t) /\ Kept(r, t)
        /\ (r.transports[w.type].envelopes = <<>> => t = forget(r, w.type, w.id))
    BY <1>0, <1>1, CompletesRequest, CompletesKept
  <2>3. ASSUME Only(s, w) PROVE Bare(t)
    <3>1. Only(r, w)
      BY <1>2, <2>3
    <3>2. t = forget(r, w.type, w.id)
      BY <1>0, <2>2, <3>1 DEF Only
    <3> HIDE DEF t
    <3>3. /\ Inside(r, t, w.type)
          /\ t.transports[w.type] = [r.transports[w.type] EXCEPT !.requests = @ \ {w.id}]
      BY <1>0, <1>1, <3>2, Forgets
    <3>4. /\ r.transports[w.type] \in Transports
          /\ r.transports[w.type].requests \ {w.id} = {}
          /\ r.transports[w.type].envelopes = <<>>
      BY <1>0, <1>1, <3>1, EnvelopesOf DEF Only
    <3>5. t.transports[w.type].requests = {} /\ t.transports[w.type].envelopes = <<>>
      BY <3>3, <3>4 DEF Transports
    <3>6. \A u \in Types \ {w.type} : t.transports[u].requests = {} /\ t.transports[u].envelopes = <<>>
      BY <3>1, <3>3 DEF Inside, Only
    <3>7. QED BY <3>5, <3>6 DEF Bare
  <2> HIDE DEF t
  <2>4. QED BY <1>1, <1>2, <2>1, <2>2, <2>3 DEF Sends, Same, Tokens, Kept
<1>5. QED BY <1>3, <1>4 DEF UnderWay, Requests

LEMMA CrossDomainFails ==
  ASSUME NEW s \in Clients, NEW w
  PROVE  /\ Sends(s, crossDomainFails(s, w)) /\ Kept(s, crossDomainFails(s, w))
         /\ crossDomainFails(s, w).wire = s.wire
         /\ crossDomainFails(s, w).transports = s.transports
         /\ crossDomainFails(s, w).deferred = s.deferred
BY ZenonT(60) DEF crossDomainFails, Clients, Sends, Same, Tokens, Kept, Only, Bare

-----------------------------------------------------------------------------
\* Handshakes and long polls that fail, the page that disconnects.

\* The session goes on, or the client is closed; the functions stay subscribed.
Settles(s, r) ==
  /\ r.subs = s.subs
  /\ \/ r.clientId = s.clientId /\ (isDisconnected(r) <=> isDisconnected(s))
     \/ r.clientId \in {0, s.clientId} /\ isDisconnected(r)
Quietly(s, r) == Settles(s, r) /\ r.connected = s.connected

LEMMA SettlesOn ==
  ASSUME NEW s, NEW r, NEW t
  PROVE  /\ Quietly(s, s)
         /\ Quietly(s, r) /\ Quietly(r, t) => Quietly(s, t)
         /\ Settles(s, r) /\ Settles(r, t) => Settles(s, t)
         /\ Same(s, r) => Quietly(s, r)
BY DEF Quietly, Settles, Same, isDisconnected

LEMMA QuietlyOn ==
  ASSUME NEW s, NEW r, NEW t, Quietly(s, r), Quietly(r, t)
  PROVE  Quietly(s, t)
BY DEF Quietly, Settles

LEMMA SettleOn ==
  ASSUME NEW s, NEW r, NEW t, Settles(s, r), Settles(r, t)
  PROVE  Settles(s, t)
BY DEF Settles

\* The messages the client makes.
LEMMA MessageIs ==
  ASSUME NEW channel \in Channels \ App, NEW c \in Nat
  PROVE  /\ <<Message(channel, 0, c)>> \in MetaBatches
         /\ Kind(<<Message(channel, 0, c)>>) = channel
<1>1. Message(channel, 0, c) \in Messages
  BY DEF Message, Messages
<1>2. Message(channel, 0, c).channel = channel /\ Message(channel, 0, c).length = 1
  BY DEF Message
<1> DEFINE m == Message(channel, 0, c)
<1> HIDE DEF m
<1>3. <<m>> \in Seq(Messages) /\ Len(<<m>>) = 1 /\ <<m>>[1] = m
  BY <1>1 DEF m
<1>4. QED BY <1>2, <1>3 DEF MetaBatches, Kind, m

LEMMA StampIs ==
  ASSUME NEW ms \in Batches, NEW c \in Nat
  PROVE  /\ Kind(stamp(ms, c)) = Kind(ms)
         /\ ms \in AppBatches => stamp(ms, c) \in AppBatches
         /\ ms \in MetaBatches => stamp(ms, c) \in MetaBatches
<1> DEFINE p == stamp(ms, c)
<1>2. /\ ms \in Seq(Messages) /\ ms # <<>> /\ Len(ms) \in Nat \ {0}
      /\ DOMAIN ms = 1 .. Len(ms) /\ ms[1] \in Messages
  BY BatchIs
<1>3. \A m \in Messages : /\ [m EXCEPT !.clientId = c] \in Messages
                          /\ [m EXCEPT !.clientId = c].channel = m.channel
                          /\ [m EXCEPT !.clientId = c].length = m.length
  BY DEF Messages
<1>4. \A i \in 1 .. Len(ms) : ms[i] \in Messages
  BY <1>2
<1>5. p \in Seq(Messages) /\ Len(p) = Len(ms)
  BY <1>2, <1>3, <1>4 DEF stamp
<1>6. \A i \in 1 .. Len(ms) : p[i] \in Messages /\ p[i].channel = ms[i].channel
                               /\ p[i].length = ms[i].length
  BY <1>2, <1>3, <1>4 DEF stamp
<1> HIDE DEF p
<1>7. Kind(p) = Kind(ms) /\ p # <<>>
  BY <1>2, <1>5, <1>6 DEF Kind
<1>8. ASSUME ms \in AppBatches PROVE p \in AppBatches
  <2>1. \A i \in 1 .. Len(ms) : ms[i] \in AppMessages
    BY <1>2, <1>8 DEF AppBatches
  <2>2. \A i \in 1 .. Len(p) : p[i] \in AppMessages
    BY <1>5, <1>6, <2>1 DEF AppMessages
  <2>3. p \in Seq(AppMessages)
    BY <1>5, <2>2
  <2>4. QED BY <1>7, <2>3 DEF AppBatches
<1>9. ASSUME ms \in MetaBatches PROVE p \in MetaBatches
  BY <1>2, <1>5, <1>6, <1>9 DEF MetaBatches
<1>10. QED BY <1>7, <1>8, <1>9 DEF p

LEMMA SendIs ==
  ASSUME NEW s, NEW ms
  PROVE  send(s, ms) = queueSend(s, s.transport, stamp(ms, s.clientId))
BY DEF send, After

LEMMA SendsApp ==
  ASSUME NEW s \in Clients, NEW ms \in AppBatches
  PROVE  Sends(s, send(s, ms))
<1>1. s.clientId \in Nat /\ s.transport \in Types
  BY DEF Clients
<1>2. stamp(ms, s.clientId) \in Waiting
  BY <1>1, AppBatchIs, StampIs
<1>3. QED BY <1>1, <1>2, QueueSends, SendIs

LEMMA StatusIs ==
  ASSUME NEW s \in Clients,
         NEW status \in {"disconnected", "disconnecting", "handshaking", "connecting", "connected"}
  PROVE  /\ [s EXCEPT !.status = status] \in Clients
         /\ [s EXCEPT !.status = status].status = status
         /\ Tokens([s EXCEPT !.status = status]) = Tokens(s)
         /\ [s EXCEPT !.status = status].clientId = s.clientId
         /\ [s EXCEPT !.status = status].reconnect = s.reconnect
         /\ [s EXCEPT !.status = status].scheduled = s.scheduled
         /\ [s EXCEPT !.status = status].internalBatch = s.internalBatch
         /\ [s EXCEPT !.status = status].queue = s.queue
         /\ [s EXCEPT !.status = status].connected = s.connected
         /\ [s EXCEPT !.status = status].subs = s.subs
         /\ [s EXCEPT !.status = status].transport = s.transport
         /\ [s EXCEPT !.status = status].wire = s.wire
         /\ [s EXCEPT !.status = status].transports = s.transports
         /\ [s EXCEPT !.status = status].deferred = s.deferred
BY DEF Clients, Tokens

LEMMA Disconnects ==
  ASSUME NEW s \in Clients
  PROVE  /\ disconnectCall(s) \in Clients
         /\ Tokens(disconnectCall(s)) = Tokens(s)
         /\ isDisconnected(disconnectCall(s))
         /\ Quietly(s, disconnectCall(s))
         /\ disconnectCall(s).clientId = s.clientId
         /\ disconnectCall(s).scheduled = s.scheduled
         /\ disconnectCall(s).internalBatch = s.internalBatch
         /\ disconnectCall(s).reconnect = s.reconnect
<1>1. CASE isDisconnected(s)
  BY <1>1 DEF disconnectCall, Quietly, Settles
<1>2. CASE ~isDisconnected(s)
  <2> DEFINE t == [s EXCEPT !.status = "disconnecting"]
             ms == <<Message("disconnect", 0, 0)>>
             r == send(t, ms)
  <2>1. /\ t \in Clients /\ t.status = "disconnecting" /\ Tokens(t) = Tokens(s)
        /\ t.clientId = s.clientId /\ t.scheduled = s.scheduled
        /\ t.internalBatch = s.internalBatch /\ t.reconnect = s.reconnect
        /\ t.connected = s.connected /\ t.subs = s.subs
    BY StatusIs
  <2>2. ms \in MetaBatches /\ Kind(ms) = "disconnect"
    BY MessageIs DEF Channels, App
  <2>3. disconnectCall(s) = r
    BY <1>2 DEF disconnectCall
  <2> HIDE DEF t, ms
  <2>4. t.clientId \in Nat /\ t.transport \in Types
    BY <2>1 DEF Clients
  <2>5. stamp(ms, t.clientId) \in Waiting
    BY <2>2, <2>4, StampIs DEF Waiting, Batches
  <2>6. Sends(t, r)
    BY <2>1, <2>4, <2>5, QueueSends, SendIs
  <2> HIDE DEF r
  <2>7. QED BY <2>1, <2>3, <2>6 DEF Sends, Same, Quietly, Settles, isDisconnected
<1>3. QED BY <1>1, <1>2

LEMMA DisconnectsGood ==
  ASSUME NEW s, Good(s)
  PROVE  Good(disconnectCall(s))
<1>1. s \in Clients
  BY DEF Good
<1>2. QED BY <1>1, Disconnects DEF Good, OneTurn, Phase, Idle

LEMMA Notified ==
  ASSUME NEW s \in Clients, NEW quit \in BOOLEAN
  PROVE  /\ notify(s, quit) \in Clients
         /\ Tokens(notify(s, quit)) = Tokens(s)
         /\ Quietly(s, notify(s, quit))
         /\ isDisconnected(s) => isDisconnected(notify(s, quit))
         /\ notify(s, quit).clientId = s.clientId
         /\ notify(s, quit).scheduled = s.scheduled
         /\ notify(s, quit).internalBatch = s.internalBatch
         /\ notify(s, quit).reconnect = s.reconnect
         /\ Good(s) => Good(notify(s, quit))
BY Disconnects, DisconnectsGood, SettlesOn DEF notify

LEMMA DelaysConnect ==
  ASSUME NEW s \in Clients, Idle(s), s.clientId # 0, ~isDisconnected(s)
  PROVE  Good(delayedConnect(s)) /\ Quietly(s, delayedConnect(s)) /\ Idle(delayedConnect(s))
BY DEF delayedConnect, delayedSend, Good, OneTurn, Phase, Idle, Tokens, Clients, Quietly,
       Settles, isDisconnected

LEMMA DelaysHandshake ==
  ASSUME NEW s \in Clients, Idle(s), Bare(s), ~isDisconnected(s)
  PROVE  /\ Good(delayedHandshake(s)) /\ Quietly(s, delayedHandshake(s))
         /\ Idle(delayedHandshake(s)) /\ Bare(delayedHandshake(s))
BY DEF delayedHandshake, delayedSend, Good, OneTurn, Phase, Idle, Bare, Tokens, Clients,
       Quietly, Settles, isDisconnected

LEMMA Closes ==
  ASSUME NEW s \in Clients, Idle(s) \/ Good(s)
  PROVE  /\ Good(disconnect(s)) /\ Quietly(s, disconnect(s)) /\ isDisconnected(disconnect(s))
         /\ Tokens(disconnect(s)) = Tokens(s)
<1> DEFINE r == disconnect(s)
<1>1. /\ r \in Clients /\ r.scheduled = "" /\ r.clientId = 0 /\ r.status = "disconnected"
      /\ r.internalBatch = s.internalBatch /\ r.connected = s.connected /\ r.subs = s.subs
      /\ Tokens(r) = Tokens(s)
  <2>1. <<>> \in Seq(AppMessages)
    OBVIOUS
  <2>2. QED BY <2>1 DEF disconnect, cancelDelayedSend, Clients, Tokens
<1> HIDE DEF r
<1>2. Good(r) /\ Quietly(s, r) /\ isDisconnected(r)
  BY <1>1 DEF Good, OneTurn, Phase, Idle, Quietly, Settles, isDisconnected
<1>3. QED BY <1>1, <1>2 DEF r

LEMMA HandshakeFails ==
  ASSUME NEW s \in Clients, Idle(s), isDisconnected(s) \/ Bare(s)
  PROVE  /\ Good(failHandshake(s)) /\ Quietly(s, failHandshake(s)) /\ Idle(failHandshake(s))
         /\ isDisconnected(failHandshake(s)) \/ Bare(failHandshake(s))
<1>1. CASE ~isDisconnected(s) /\ s.reconnect # "none"
  BY <1>1, DelaysHandshake DEF failHandshake
<1>2. CASE ~ (~isDisconnected(s) /\ s.reconnect # "none")
  BY <1>2, Closes DEF failHandshake, Idle
<1>3. QED BY <1>1, <1>2

LEMMA Resets ==
  ASSUME NEW s \in Clients
  PROVE  /\ reset(s) \in Clients /\ Same(s, reset(s)) /\ Bare(reset(s))
         /\ reset(s).wire = s.wire /\ reset(s).deferred = s.deferred
         /\ Tokens(reset(s)) = Tokens(s)
<1>1. Unused \in Transports
  BY DEF Unused, Transports
<1>2. QED BY <1>1 DEF reset, Clients, Same, Bare, Unused, Tokens

LEMMA ConnectFails ==
  ASSUME NEW s \in Clients, Idle(s), s.clientId # 0 \/ isDisconnected(s), NEW quit \in BOOLEAN
  PROVE  /\ Good(failConnect(s, quit)) /\ Quietly(s, failConnect(s, quit))
         /\ Idle(failConnect(s, quit))
<1> DEFINE told == notify(s, quit)
           r == failConnect(s, quit)
<1>1. /\ told \in Clients /\ Idle(told) /\ Quietly(s, told)
      /\ isDisconnected(s) => isDisconnected(told)
      /\ told.clientId = s.clientId
  BY Notified DEF Idle
<1>2. \/ ~isDisconnected(told) /\ r = delayedConnect(told)
      \/ ~isDisconnected(told) /\ r = delayedHandshake(reset(told))
      \/ r = disconnect(told)
  BY DEF failConnect
<1> HIDE DEF told
<1>3. CASE ~isDisconnected(told) /\ r = delayedConnect(told)
  <2>1. Idle(told) /\ told.clientId # 0 /\ told \in Clients
    BY <1>1, <1>2, <1>3 DEF Quietly, Settles
  <2>2. Good(r) /\ Quietly(told, r)
    BY <1>3, <2>1, DelaysConnect
  <2>3. Idle(r)
    BY <1>3, <2>1, DelaysConnect
  <2>4. QED BY <1>1, <2>2, <2>3, QuietlyOn
<1>4. CASE ~isDisconnected(told) /\ r = delayedHandshake(reset(told))
  <2> DEFINE t == reset(told)
  <2>1. t \in Clients /\ Same(told, t) /\ Bare(t) /\ Idle(t)
    BY <1>1, Resets DEF Idle
  <2>2. ~isDisconnected(t) /\ Quietly(told, t)
    BY <1>4, <2>1, SettlesOn DEF Same, isDisconnected
  <2> HIDE DEF t
  <2>3. Good(delayedHandshake(t)) /\ Quietly(t, delayedHandshake(t)) /\ Idle(delayedHandshake(t))
    BY <2>1, <2>2, DelaysHandshake
  <2>4. Quietly(told, delayedHandshake(t))
    BY <2>2, <2>3, QuietlyOn
  <2>5. QED BY <1>1, <1>4, <2>3, <2>4, QuietlyOn DEF t
<1>5. CASE r = disconnect(told)
  <2>1. Good(r) /\ Quietly(told, r) /\ Tokens(r) = Tokens(told)
    BY <1>1, <1>5, Closes
  <2>2. QED BY <1>1, <2>1, QuietlyOn DEF Idle
<1>6. QED BY <1>2, <1>3, <1>4, <1>5

-----------------------------------------------------------------------------
\* Advice, a transport that is reset, and the requests that abort ends one by one.

Advices == {"", "retry", "handshake", "none"}

LEMMA Advises ==
  ASSUME NEW s \in Clients, NEW advice \in Advices
  PROVE  /\ updateAdvice(s, advice) \in Clients
         /\ Tokens(updateAdvice(s, advice)) = Tokens(s)
         /\ Quietly(s, updateAdvice(s, advice))
         /\ isDisconnected(updateAdvice(s, advice)) <=> isDisconnected(s)
         /\ updateAdvice(s, advice).clientId = s.clientId
         /\ updateAdvice(s, advice).scheduled = s.scheduled
         /\ updateAdvice(s, advice).internalBatch = s.internalBatch
         /\ updateAdvice(s, advice).transports = s.transports
         /\ updateAdvice(s, advice).transport = s.transport
         /\ updateAdvice(s, advice).status = s.status
         /\ updateAdvice(s, advice).queue = s.queue
         /\ updateAdvice(s, advice).wire = s.wire
         /\ updateAdvice(s, advice).deferred = s.deferred
BY ZenonT(60) DEF updateAdvice, Clients, Tokens, Quietly, Settles, isDisconnected, Advices

LEMMA GoodLike ==
  ASSUME NEW s, Good(s), NEW r \in Clients, Tokens(r) = Tokens(s), r.clientId = s.clientId,
         r.status = s.status, r.internalBatch = s.internalBatch,
         r.scheduled \in {s.scheduled, ""}, r.transports = s.transports
  PROVE  Good(r)
<1>1. Kept(s, r)
  BY DEF Kept, Only, Bare
<1>2. QED BY <1>1 DEF Good, OneTurn, Phase, Idle, Kept, isDisconnected

LEMMA AdvisesGood ==
  ASSUME NEW s, Good(s), NEW advice \in Advices
  PROVE  Good(updateAdvice(s, advice))
<1>1. s \in Clients
  BY DEF Good
<1>2. QED BY <1>1, Advises, GoodLike

LEMMA ConnectionFails ==
  ASSUME NEW s \in Clients, Idle(s), s.clientId # 0 \/ isDisconnected(s), NEW quit \in BOOLEAN
  PROVE  /\ Good(connectFailure(s, quit)) /\ Settles(s, connectFailure(s, quit))
         /\ Idle(connectFailure(s, quit))
         /\ connectFailure(s, quit).connected = FALSE
<1> DEFINE t == [s EXCEPT !.connected = FALSE]
<1>1. /\ t \in Clients /\ Idle(t) /\ t.clientId = s.clientId /\ t.status = s.status
      /\ t.subs = s.subs /\ t.connected = FALSE
  BY DEF Clients, Idle, Tokens
<1>2. connectFailure(s, quit) = failConnect(t, quit)
  BY DEF connectFailure
<1> HIDE DEF t
<1>3. t.clientId # 0 \/ isDisconnected(t)
  BY <1>1 DEF isDisconnected
<1>4. Good(failConnect(t, quit)) /\ Quietly(t, failConnect(t, quit)) /\ Idle(failConnect(t, quit))
  BY <1>1, <1>3, ConnectFails
<1>5. QED BY <1>1, <1>2, <1>4 DEF Quietly, Settles, isDisconnected

LEMMA ResetsTransport ==
  ASSUME NEW s \in Clients, NEW type \in Types
  PROVE  Sends(s, resetTransport(s, type)) /\ Kept(s, resetTransport(s, type))
<1> DEFINE r == resetTransport(s, type)
<1>1. Unused \in Transports
  BY DEF Unused, Transports
<1>2. r \in Clients /\ Same(s, r) /\ Tokens(r) = Tokens(s)
  BY <1>1 DEF resetTransport, Clients, Same, Tokens
<1>3. /\ r.transports[type] = Unused
      /\ \A t \in Types \ {type} : r.transports[t] = s.transports[t]
  BY DEF resetTransport, Clients
<1> HIDE DEF r
<1>4. Kept(s, r)
  BY <1>3 DEF Kept, Only, Bare, Unused
<1>5. QED BY <1>2, <1>4 DEF Sends, r

-----------------------------------------------------------------------------
\* How far the abortion of a part of the requests of s has gone.
Aborting(s, a) ==
  /\ Good(a) /\ Settles(s, a)
  /\ Tokens(a) \subseteq Tokens(s)
  /\ a.connected = s.connected \/ \E w \in Tokens(s) : Kind(w.messages) = "connect"
  /\ \A w \in Tokens(s) : Kind(w.messages) = "handshake" => isDisconnected(a) \/ Only(a, w)

LEMMA AbortsOne ==
  ASSUME NEW s, Good(s), NEW w \in s.wire, w.xhr, NEW a, Aborting(s, a)
  PROVE  Aborting(s, abortRequest(a, w))
<1> DEFINE ended == crossDomainFails(complete(a, w, FALSE), w)
<1>0. s \in Clients /\ w \in UnderWay /\ a \in Clients
  BY DEF Good, Clients, Aborting
<1>1. w.expired = FALSE /\ (w.metaConnect <=> Kind(w.messages) = "connect")
  BY <1>0 DEF UnderWay, Requests
<1>2. /\ ended \in Clients /\ Same(a, ended) /\ Tokens(ended) = Tokens(a) \ {w}
      /\ Kept(a, ended) /\ (~w.metaConnect /\ Only(a, w) => Bare(ended))
  <2> DEFINE c == complete(a, w, FALSE)
  <2>1. /\ c \in Clients /\ Same(a, c) /\ Tokens(c) = Tokens(a) \ {w}
        /\ Kept(a, c) /\ (~w.metaConnect /\ Only(a, w) => Bare(c))
    BY <1>0, Completes
  <2> HIDE DEF c
  <2>2. Sends(c, ended) /\ Kept(c, ended)
    BY <2>1, CrossDomainFails DEF c
  <2> HIDE DEF ended
  <2>3. QED BY <2>1, <2>2 DEF Sends, Same, Kept
<1> HIDE DEF ended
<1>3. Quietly(a, ended)
  BY <1>2, SettlesOn
<1>4. CASE Kind(w.messages) = "connect"
  <2> DEFINE r == connectFailure(ended, FALSE)
  <2>1. w \in Tokens(s)
    BY <1>1, <1>4 DEF Tokens, Token
  <2>2. Tokens(ended) = {}
    BY <1>2, <2>1 DEF Good, OneTurn, Aborting
  <2>3. ended.clientId # 0 \/ isDisconnected(ended)
    BY <1>2, <1>4, <2>1 DEF Good, Phase, Aborting, Settles, Same, isDisconnected
  <2>4. Good(r) /\ Settles(ended, r) /\ Idle(r)
    BY <1>2, <2>2, <2>3, ConnectionFails DEF Idle
  <2>5. abortRequest(a, w) = r
    BY <1>4 DEF abortRequest, ended, Kind
  <2> HIDE DEF r
  <2>6. Settles(s, r)
    <3>1. Settles(s, ended)
      BY <1>3, SettleOn DEF Quietly, Aborting
    <3>2. QED BY <2>4, <3>1, SettleOn
  <2>7. \A v \in Tokens(s) : Kind(v.messages) = "connect"
    BY <1>4, <2>1 DEF Good, OneTurn
  <2>8. QED BY <1>4, <2>1, <2>4, <2>5, <2>6, <2>7 DEF Aborting, Idle
<1>5. CASE Kind(w.messages) = "handshake"
  <2> DEFINE r == failHandshake(ended)
  <2>1. w \in Tokens(s)
    BY <1>1, <1>5 DEF Tokens, Token
  <2>2. Tokens(ended) = {}
    BY <1>2, <2>1 DEF Good, OneTurn, Aborting
  <2>3. isDisconnected(ended) \/ Bare(ended)
    BY <1>1, <1>2, <1>5, <2>1 DEF Aborting, Same, isDisconnected
  <2>4. Good(r) /\ Quietly(ended, r) /\ Idle(r) /\ (isDisconnected(r) \/ Bare(r))
    BY <1>2, <2>2, <2>3, HandshakeFails DEF Idle
  <2>5. abortRequest(a, w) = r
    BY <1>5 DEF abortRequest, ended, Kind
  <2> HIDE DEF r
  <2>6. Settles(s, r)
    <3>1. Settles(s, ended)
      BY <1>3, SettleOn DEF Quietly, Aborting
    <3>2. QED BY <2>4, <3>1, SettleOn DEF Quietly
  <2>7. r.connected = a.connected
    BY <1>3, <2>4 DEF Quietly
  <2>8. Bare(r) => \A v : Only(r, v)
    BY DEF Bare, Only
  <2>9. QED BY <2>4, <2>5, <2>6, <2>7, <2>8 DEF Aborting, Idle
<1>6. CASE Kind(w.messages) \notin {"connect", "handshake"}
  <2>1. abortRequest(a, w) = ended
    BY <1>6 DEF abortRequest, ended, Kind
  <2>2. Sends(a, ended)
    BY <1>2, <1>6 DEF Sends, Tokens, Token
  <2>3. Good(ended)
    BY <1>2, <2>2, GoodAfter DEF Aborting
  <2>4. Settles(s, ended)
    BY <1>3, SettleOn DEF Quietly, Aborting
  <2>5. QED BY <1>2, <2>1, <2>2, <2>3, <2>4 DEF Aborting, Sends, Same, Kept, isDisconnected
<1>7. QED BY <1>4, <1>5, <1>6

LEMMA SetToSeqIs ==
  ASSUME NEW S, IsFiniteSet(S)
  PROVE  SetToSeq(S) \in Seq(S)
<1>1. Cardinality(S) \in Nat /\ ExistsBijection(1 .. Cardinality(S), S)
  BY FS_CardinalityType
<1>2. PICK f \in Bijection(1 .. Cardinality(S), S) : TRUE
  BY <1>1 DEF ExistsBijection
<1>3. f \in [1 .. Cardinality(S) -> S] /\ IsInjective(f)
  BY <1>2 DEF Bijection, Injection, IsInjective
<1>4. SetToSeq(S) \in [1 .. Cardinality(S) -> S]
  BY <1>3 DEF SetToSeq
<1>5. QED BY <1>1, <1>4

LEMMA AbortIs ==
  ASSUME NEW s, Good(s)
  PROVE  \E a : Aborting(s, a) /\ abort(s) = resetTransport(a, s.transport)
<1> DEFINE under == aborted(s, s.transport)
           requests == {w \in under : ~w.metaConnect}
           polls == {w \in under : w.metaConnect}
           q == SetToSeq(requests) \o SetToSeq(polls)
           A == {a \in Clients : Aborting(s, a)}
           n == Len(q)
<1>0. s \in Clients
  BY DEF Good
<1>1. /\ under \subseteq s.wire /\ \A w \in under : w.xhr
      /\ IsFiniteSet(s.wire)
  BY <1>0 DEF aborted, Clients
<1> HIDE DEF under
<1>2. SetToSeq(requests) \in Seq(under) /\ SetToSeq(polls) \in Seq(under)
  <2>1. IsFiniteSet(requests) /\ IsFiniteSet(polls)
    BY <1>1, FS_Subset
  <2>2. SetToSeq(requests) \in Seq(requests) /\ SetToSeq(polls) \in Seq(polls)
    <3> HIDE DEF requests, polls
    <3>1. QED BY <2>1, SetToSeqIs
  <2>3. requests \subseteq under /\ polls \subseteq under
    OBVIOUS
  <2> HIDE DEF requests, polls
  <2>4. QED BY <2>2, <2>3
<1> HIDE DEF requests, polls
<1>3. q \in Seq(under)
  BY <1>2
<1> HIDE DEF q
<1>4. n \in Nat /\ DOMAIN q = 1 .. n /\ \A i \in 1 .. n : q[i] \in s.wire /\ q[i].xhr
  BY <1>1, <1>3
<1>5. s \in A
  <2>1. Aborting(s, s)
    BY SettlesOn DEF Aborting, Good, Phase, Quietly
  <2>2. QED BY <1>0, <2>1
<1>6. \A a \in A, i \in 1 .. n : abortRequest(a, q[i]) \in A
  <2> TAKE a \in A, i \in 1 .. n
  <2>1. Aborting(s, abortRequest(a, q[i]))
    BY <1>4, AbortsOne
  <2>2. abortRequest(a, q[i]) \in Clients
    BY <2>1 DEF Aborting, Good
  <2>3. QED BY <2>1, <2>2
<1> HIDE DEF A, n
<1>7. FoldLeft(abortRequest, s, q) \in A
  BY <1>4, <1>5, <1>6, FoldAbort
<1>8. abort(s) = resetTransport(FoldLeft(abortRequest, s, q), s.transport)
  BY DEF abort, q, requests, polls, under
<1>9. QED BY <1>7, <1>8 DEF A

LEMMA ClosedIs ==
  ASSUME NEW s \in Clients, NEW r,
         r = [s EXCEPT !.clientId = 0, !.status = "disconnected", !.queue = <<>>]
  PROVE  /\ r \in Clients /\ r.clientId = 0 /\ r.status = "disconnected" /\ r.queue = <<>>
         /\ r.scheduled = s.scheduled /\ r.internalBatch = s.internalBatch
         /\ r.connected = s.connected /\ r.subs = s.subs /\ r.transports = s.transports
         /\ r.transport = s.transport /\ r.wire = s.wire /\ r.deferred = s.deferred
         /\ Tokens(r) = Tokens(s)
<1>1. <<>> \in Seq(AppMessages)
  OBVIOUS
<1>2. QED BY <1>1 DEF Clients, Tokens

LEMMA AbortsAndDisconnects ==
  ASSUME NEW s, Good(s)
  PROVE  LET r == abortAndDisconnect(s)
         IN  /\ Good(r) /\ Settles(s, r) /\ isDisconnected(r)
             /\ r.connected = s.connected \/ s.clientId # 0 \/ isDisconnected(s)
<1> DEFINE c == cancelDelayedSend(s)
           b == abort(c)
           r == abortAndDisconnect(s)
<1>0. s \in Clients
  BY DEF Good
<1>1. /\ c \in Clients /\ c.scheduled = "" /\ Tokens(c) = Tokens(s)
      /\ c.clientId = s.clientId /\ c.status = s.status /\ c.internalBatch = s.internalBatch
      /\ c.connected = s.connected /\ c.subs = s.subs /\ c.transports = s.transports
      /\ c.transport = s.transport
  BY <1>0 DEF cancelDelayedSend, Clients, Tokens
<1> HIDE DEF c
<1>2. Good(c) /\ Settles(s, c)
  BY <1>1, GoodLike DEF Settles, isDisconnected
<1>3. PICK a : Aborting(c, a) /\ b = resetTransport(a, c.transport)
  BY <1>2, AbortIs
<1>4. a \in Clients /\ c.transport \in Types /\ Good(a)
  BY <1>1, <1>3 DEF Clients, Aborting, Good
<1> HIDE DEF b
<1>5. Sends(a, b) /\ Kept(a, b)
  BY <1>3, <1>4, ResetsTransport
<1>6. Good(b) /\ b \in Clients
  BY <1>4, <1>5, GoodAfter DEF Good
<1>7. /\ r \in Clients /\ r.clientId = 0 /\ r.status = "disconnected"
      /\ r.scheduled = b.scheduled /\ r.internalBatch = b.internalBatch /\ Tokens(r) = Tokens(b)
      /\ r.connected = b.connected /\ r.subs = b.subs
  <2>1. r = [b EXCEPT !.clientId = 0, !.status = "disconnected", !.queue = <<>>]
    BY DEF abortAndDisconnect, b, c
  <2>2. QED BY <1>6, <2>1, ClosedIs
<1> HIDE DEF r
<1>8. Good(r)
  BY <1>6, <1>7 DEF Good, OneTurn, Phase, Idle, isDisconnected
<1>9. r.connected = a.connected /\ r.subs = s.subs
  BY <1>1, <1>3, <1>5, <1>7 DEF Sends, Same, Aborting, Settles
<1>10. a.connected = s.connected \/ s.clientId # 0 \/ isDisconnected(s)
  BY <1>1, <1>2, <1>3 DEF Aborting, Good, Phase, isDisconnected
<1>11. QED BY <1>7, <1>8, <1>9, <1>10 DEF Settles, isDisconnected, r

-----------------------------------------------------------------------------
\* One reply or failure, and what a turn does to the link.

LEMMA ReceiveOne ==
  ASSUME NEW s, NEW q, DOMAIN q = {1}, NEW quit
  PROVE  handleMessages(s, q, quit) = receive(s, q[1], quit)
<1> DEFINE Folds(h) == h = [t \in SUBSET DOMAIN q |-> IF t = {} THEN s
                              ELSE After(h[t \ {Max(t)}], LAMBDA u : receive(u, q[Max(t)], quit))]
           h == CHOOSE h : Folds(h)
           f == [t \in SUBSET DOMAIN q |-> IF t = {} THEN s ELSE receive(s, q[1], quit)]
<1>1. ASSUME NEW t \in SUBSET DOMAIN q, t # {}
      PROVE  t = {1} /\ Max(t) = 1
  <2>1. t = {1} /\ t \subseteq 1 .. 0 + 1 /\ 0 + 1 \in t
    BY <1>1
  <2>2. Max(t) = 0 + 1
    BY <2>1, MaxUpTo
  <2>3. QED BY <2>1, <2>2
<1>2. Folds(f)
  <2>1. f[{}] = s
    OBVIOUS
  <2>2. \A t \in SUBSET DOMAIN q : t # {} =>
          After(f[t \ {Max(t)}], LAMBDA u : receive(u, q[Max(t)], quit)) = receive(s, q[1], quit)
    <3> TAKE t \in SUBSET DOMAIN q
    <3> HAVE t # {}
    <3>1. t \ {Max(t)} = {} /\ Max(t) = 1
      BY <1>1
    <3>2. f[t \ {Max(t)}] = s
      BY <2>1, <3>1
    <3> HIDE DEF f
    <3>3. QED BY <3>1, <3>2 DEF After
  <2>3. QED BY <2>2
<1>3. Folds(h)
  <2> HIDE DEF Folds, f
  <2>1. QED BY <1>2
<1>4. handleMessages(s, q, quit) = h[DOMAIN q]
  BY DEF FoldLeft, MapThenFoldSet, handleMessages
<1> HIDE DEF h
<1>5. \A t \in SUBSET DOMAIN q :
        h[t] = IF t = {} THEN s ELSE After(h[t \ {Max(t)}], LAMBDA u : receive(u, q[Max(t)], quit))
  BY <1>3, Zenon
<1>6. h[{}] = s
  <2>1. {} \in SUBSET DOMAIN q
    OBVIOUS
  <2>2. QED BY <1>5, <2>1, Zenon
<1>7. h[DOMAIN q] = After(h[DOMAIN q \ {Max(DOMAIN q)}], LAMBDA u : receive(u, q[Max(DOMAIN q)], quit))
  <2>1. DOMAIN q \in SUBSET DOMAIN q /\ DOMAIN q # {}
    OBVIOUS
  <2>2. QED BY <1>5, <2>1, Zenon
<1>8. Max(DOMAIN q) = 1 /\ DOMAIN q \ {Max(DOMAIN q)} = {}
  BY <1>1
<1> HIDE DEF Folds
<1>9. h[DOMAIN q] = receive(s, q[1], quit)
  BY <1>6, <1>7, <1>8 DEF After
<1>10. QED BY <1>4, <1>9

LEMMA FailOne ==
  ASSUME NEW s, NEW q, DOMAIN q = {1}, NEW quit
  PROVE  handleFailure(s, q, quit) = failMessage(s, q[1], quit)
<1> DEFINE Folds(h) == h = [t \in SUBSET DOMAIN q |-> IF t = {} THEN s
                              ELSE After(h[t \ {Max(t)}], LAMBDA u : failMessage(u, q[Max(t)], quit))]
           h == CHOOSE h : Folds(h)
           f == [t \in SUBSET DOMAIN q |-> IF t = {} THEN s ELSE failMessage(s, q[1], quit)]
<1>1. ASSUME NEW t \in SUBSET DOMAIN q, t # {}
      PROVE  t = {1} /\ Max(t) = 1
  <2>1. t = {1} /\ t \subseteq 1 .. 0 + 1 /\ 0 + 1 \in t
    BY <1>1
  <2>2. Max(t) = 0 + 1
    BY <2>1, MaxUpTo
  <2>3. QED BY <2>1, <2>2
<1>2. Folds(f)
  <2>1. f[{}] = s
    OBVIOUS
  <2>2. \A t \in SUBSET DOMAIN q : t # {} =>
          After(f[t \ {Max(t)}], LAMBDA u : failMessage(u, q[Max(t)], quit)) = failMessage(s, q[1], quit)
    <3> TAKE t \in SUBSET DOMAIN q
    <3> HAVE t # {}
    <3>1. t \ {Max(t)} = {} /\ Max(t) = 1
      BY <1>1
    <3>2. f[t \ {Max(t)}] = s
      BY <2>1, <3>1
    <3> HIDE DEF f
    <3>3. QED BY <3>1, <3>2 DEF After
  <2>3. QED BY <2>2
<1>3. Folds(h)
  <2> HIDE DEF Folds, f
  <2>1. QED BY <1>2
<1>4. handleFailure(s, q, quit) = h[DOMAIN q]
  BY DEF FoldLeft, MapThenFoldSet, handleFailure
<1> HIDE DEF h
<1>5. \A t \in SUBSET DOMAIN q :
        h[t] = IF t = {} THEN s ELSE After(h[t \ {Max(t)}], LAMBDA u : failMessage(u, q[Max(t)], quit))
  BY <1>3, Zenon
<1>6. h[{}] = s
  <2>1. {} \in SUBSET DOMAIN q
    OBVIOUS
  <2>2. QED BY <1>5, <2>1, Zenon
<1>7. h[DOMAIN q] = After(h[DOMAIN q \ {Max(DOMAIN q)}], LAMBDA u : failMessage(u, q[Max(DOMAIN q)], quit))
  <2>1. DOMAIN q \in SUBSET DOMAIN q /\ DOMAIN q # {}
    OBVIOUS
  <2>2. QED BY <1>5, <2>1, Zenon
<1>8. Max(DOMAIN q) = 1 /\ DOMAIN q \ {Max(DOMAIN q)} = {}
  BY <1>1
<1> HIDE DEF Folds
<1>9. h[DOMAIN q] = failMessage(s, q[1], quit)
  BY <1>6, <1>7, <1>8 DEF After
<1>10. QED BY <1>4, <1>9

-----------------------------------------------------------------------------
\* What a turn of the browser, or a step of the server, does to the link.
Linked(s, r) ==
  \/ /\ r.clientId = s.clientId /\ (isDisconnected(r) <=> isDisconnected(s))
     /\ r.subs = s.subs /\ r.connected = s.connected
  \/ /\ ~isDisconnected(r) /\ r.clientId = 0 /\ r.subs = 0 /\ r.connected = s.connected
  \/ /\ s.clientId = 0 /\ r.clientId # 0 /\ (isDisconnected(r) <=> isDisconnected(s))
     /\ r.subs = s.subs /\ r.connected = s.connected
  \/ /\ s.clientId # 0 \/ isDisconnected(s)
     /\ r.clientId = s.clientId /\ (isDisconnected(r) <=> isDisconnected(s))
     /\ r.subs = s.subs
  \/ /\ isDisconnected(r) /\ (r.clientId # 0 => s.clientId # 0) /\ r.subs = s.subs
     /\ r.connected = s.connected \/ s.clientId # 0 \/ isDisconnected(s)

LEMMA SettledIsLinked ==
  ASSUME NEW s, NEW r, Settles(s, r),
         r.connected = s.connected \/ s.clientId # 0 \/ isDisconnected(s)
  PROVE  Linked(s, r)
BY DEF Settles, Linked

LEMMA SameLinked ==
  ASSUME NEW s, NEW t, NEW r, Same(s, t), Linked(t, r)
  PROVE  Linked(s, r)
BY DEF Same, Linked, isDisconnected

LEMMA Flushes ==
  ASSUME NEW s \in Clients
  PROVE  /\ flushBatch(s) \in Clients /\ Tokens(flushBatch(s)) = Tokens(s)
         /\ flushBatch(s).status = s.status /\ flushBatch(s).clientId = s.clientId
         /\ flushBatch(s).scheduled = s.scheduled
         /\ flushBatch(s).internalBatch = s.internalBatch
         /\ flushBatch(s).connected = s.connected /\ flushBatch(s).subs = s.subs
<1>1. CASE s.queue = <<>>
  BY <1>1 DEF flushBatch
<1>2. CASE s.queue # <<>>
  <2> DEFINE t == [s EXCEPT !.queue = <<>>]
             r == send(t, s.queue)
  <2>1. /\ t \in Clients /\ Tokens(t) = Tokens(s) /\ t.status = s.status
        /\ t.clientId = s.clientId /\ t.scheduled = s.scheduled
        /\ t.internalBatch = s.internalBatch /\ t.connected = s.connected /\ t.subs = s.subs
    <3>1. <<>> \in Seq(AppMessages)
      OBVIOUS
    <3>2. QED BY <3>1 DEF Clients, Tokens
  <2>2. s.queue \in AppBatches
    BY <1>2 DEF Clients, AppBatches
  <2>3. flushBatch(s) = r
    BY <1>2 DEF flushBatch
  <2> HIDE DEF t
  <2>4. Sends(t, r)
    BY <2>1, <2>2, SendsApp
  <2> HIDE DEF r
  <2>5. QED BY <2>1, <2>3, <2>4 DEF Sends, Same
<1>3. QED BY <1>1, <1>2

LEMMA ShakesHands ==
  ASSUME NEW s \in Clients, Idle(s), s.scheduled = "", s.clientId = 0,
         NEW reply \in Replies, reply.clientId # 0
  PROVE  Good(handshakeResponse(s, reply)) /\ Linked(s, handshakeResponse(s, reply))
<1> DEFINE known == [s EXCEPT !.clientId = reply.clientId]
           there == [known EXCEPT !.transport = negotiateTransport(known), !.internalBatch = FALSE]
           told == flushBatch(there)
           r == handshakeResponse(s, reply)
<1>1. /\ there \in Clients /\ Tokens(there) = Tokens(s) /\ there.status = s.status
      /\ there.clientId = reply.clientId /\ there.scheduled = "" 
      /\ there.connected = s.connected /\ there.subs = s.subs
  <2>1. reply.clientId \in Nat
    BY DEF Replies
  <2>2. known \in Clients /\ Tokens(known) = Tokens(s) /\ known.status = s.status
        /\ known.clientId = reply.clientId /\ known.scheduled = "" 
        /\ known.connected = s.connected /\ known.subs = s.subs
    BY <2>1 DEF Clients, Tokens
  <2> HIDE DEF known
  <2>3. QED BY <2>2, Negotiated DEF Clients, Tokens
<1>2. \/ r = disconnect(told)
      \/ ~isDisconnected(told) /\ r = delayedConnect(told)
      \/ r = told
  <2>1. r = After(told, LAMBDA u :
              CASE isDisconnected(u) \/ u.reconnect = "none" -> disconnect(u)
                [] ~isDisconnected(u) /\ u.reconnect = "retry" -> delayedConnect(u)
                [] OTHER -> u)
    BY Zenon DEF handshakeResponse
  <2> HIDE DEF told, r
  <2>2. r = CASE isDisconnected(told) \/ told.reconnect = "none" -> disconnect(told)
              [] ~isDisconnected(told) /\ told.reconnect = "retry" -> delayedConnect(told)
              [] OTHER -> told
    BY <2>1 DEF After
  <2>3. QED BY <2>2
<1> HIDE DEF there
<1>3. /\ told \in Clients /\ Tokens(told) = Tokens(s) /\ told.status = s.status
      /\ told.clientId = reply.clientId /\ told.scheduled = "" 
      /\ told.connected = s.connected /\ told.subs = s.subs
  BY <1>1, Flushes
<1> HIDE DEF told
<1>4. Idle(told)
  BY <1>3 DEF Idle
<1>5. CASE r = disconnect(told)
  <2>1. Good(r) /\ Quietly(told, r) /\ isDisconnected(r)
    BY <1>3, <1>4, <1>5, Closes
  <2>2. r.clientId = 0
    BY <1>3, <1>5 DEF disconnect, cancelDelayedSend, Clients
  <2>3. QED BY <1>3, <2>1, <2>2 DEF Quietly, Settles, Linked
<1>6. CASE ~isDisconnected(told) /\ r = delayedConnect(told)
  <2>1. Good(r) /\ Quietly(told, r)
    BY <1>3, <1>4, <1>6, DelaysConnect
  <2>2. r.clientId = told.clientId /\ ~isDisconnected(r)
    BY <1>3, <1>6 DEF delayedConnect, delayedSend, Clients, isDisconnected
  <2>3. ~isDisconnected(s)
    BY <1>3, <1>6 DEF isDisconnected
  <2>4. QED BY <1>3, <2>1, <2>2, <2>3 DEF Quietly, Settles, Linked
<1>7. CASE r = told
  <2>1. Good(r)
    BY <1>3, <1>4, <1>7 DEF Good, OneTurn, Phase, Idle
  <2>2. QED BY <1>3, <1>7, <2>1 DEF Linked, isDisconnected
<1>8. QED BY <1>2, <1>5, <1>6, <1>7

LEMMA PollResponds ==
  ASSUME NEW s \in Clients, Idle(s), s.scheduled = "", s.clientId # 0 \/ isDisconnected(s),
         NEW reply, NEW quit \in BOOLEAN
  PROVE  Good(connectResponse(s, reply, quit)) /\ Settles(s, connectResponse(s, reply, quit))
<1> DEFINE t == [s EXCEPT !.connected = TRUE]
           told == notify(t, quit)
           r == connectResponse(s, reply, quit)
<1>1. t \in Clients /\ Idle(t) /\ t.clientId = s.clientId /\ t.status = s.status
      /\ t.scheduled = "" /\ t.subs = s.subs
  BY DEF Clients, Idle, Tokens
<1>2. \/ ~reply.ok /\ r = failConnect([s EXCEPT !.connected = FALSE], quit)
      \/ ~isDisconnected(told) /\ r = delayedConnect(told)
      \/ r = disconnect(told)
      \/ r = told
  BY DEF connectResponse
<1> HIDE DEF t
<1>3. /\ told \in Clients /\ Idle(told) /\ Quietly(t, told)
      /\ told.clientId = t.clientId /\ told.scheduled = ""
      /\ isDisconnected(t) => isDisconnected(told)
  BY <1>1, Notified DEF Idle
<1>4. Settles(s, told)
  BY <1>1, <1>3 DEF Quietly, Settles, isDisconnected
<1> HIDE DEF told
<1>5. CASE ~reply.ok /\ r = failConnect([s EXCEPT !.connected = FALSE], quit)
  <2>1. r = connectFailure(s, quit)
    BY <1>5 DEF connectFailure
  <2>2. QED BY <2>1, ConnectionFails
<1>6. CASE ~isDisconnected(told) /\ r = delayedConnect(told)
  <2>1. told.clientId # 0
    BY <1>1, <1>3, <1>6 DEF isDisconnected
  <2>2. Good(r) /\ Quietly(told, r)
    BY <1>3, <1>6, <2>1, DelaysConnect
  <2>3. QED BY <1>4, <2>2, SettleOn DEF Quietly
<1>7. CASE r = disconnect(told)
  <2>1. Good(r) /\ Quietly(told, r)
    BY <1>3, <1>7, Closes
  <2>2. QED BY <1>4, <2>1, SettleOn DEF Quietly
<1>8. CASE r = told
  <2>1. Good(told)
    BY <1>3 DEF Good, OneTurn, Phase, Idle
  <2>2. QED BY <1>4, <1>8, <2>1
<1>9. QED BY <1>2, <1>5, <1>6, <1>7, <1>8

-----------------------------------------------------------------------------
\* All the replies of a request, or the failure of all its messages.

LEMMA CompleteGood ==
  ASSUME NEW s, Good(s), NEW w \in UnderWay, NEW success \in BOOLEAN
  PROVE  Good(complete(s, w, success))
<1> DEFINE r == complete(s, w, success)
<1>1. /\ r \in Clients /\ Same(s, r) /\ Tokens(r) = Tokens(s) \ {w} /\ Kept(s, r)
  BY Completes DEF Good
<1> HIDE DEF r
<1>2. Good(r)
  BY <1>1 DEF Good, Same, OneTurn, Phase, Idle, Kept, isDisconnected
<1>3. QED BY <1>2 DEF r

LEMMA OfOne ==
  ASSUME NEW ms \in MetaBatches
  PROVE  /\ DOMAIN ms = {1} /\ ms[1] \in Messages /\ Kind(ms) = ms[1].channel
         /\ Kind(ms) \in {"handshake", "connect", "disconnect"}
<1>1. ms \in Batches
  BY DEF Batches
<1>2. Len(ms) = 1 /\ DOMAIN ms = 1 .. Len(ms) /\ ms[1] \in Messages /\ Kind(ms) \notin App
  BY <1>1, BatchIs DEF MetaBatches, Kind
<1>3. QED BY <1>2 DEF Kind, Messages, Channels, App

\* The turn that ends the handshake or the long poll that the client waits for.
LEMMA TokenEnds ==
  ASSUME NEW s, Good(s), NEW w \in Tokens(s), NEW t, Same(s, t), t \in Clients,
         Tokens(t) = Tokens(s) \ {w}
  PROVE  Idle(t) /\ t.scheduled = ""
BY DEF Good, OneTurn, Same, Idle, Clients

LEMMA HandlesReplies ==
  ASSUME NEW s, Good(s), NEW w \in s.wire, w.served, ~w.expired, NEW quit \in BOOLEAN
  PROVE  LET r == handleMessages(complete(s, w, TRUE), w.replies, quit)
         IN  Good(r) /\ Linked(s, r)
<1> DEFINE t == complete(s, w, TRUE)
           r == handleMessages(t, w.replies, quit)
           reply == w.replies[1]
           u == updateAdvice(t, reply.advice)
<1>0. s \in Clients /\ w \in UnderWay /\ w.messages \in Batches /\ w.replies \in Seq(Replies)
      /\ Answered(w)
  BY DEF Good, Clients, UnderWay, Requests
<1>1. t \in Clients /\ Same(s, t) /\ Tokens(t) = Tokens(s) \ {w} /\ Good(t)
  <2>1. TRUE \in BOOLEAN
    OBVIOUS
  <2>2. Good(t)
    BY <1>0, <2>1, CompleteGood
  <2>3. t \in Clients /\ Same(s, t) /\ Tokens(t) = Tokens(s) \ {w}
    BY <1>0, <2>1, Completes
  <2>4. QED BY <2>2, <2>3
<1> HIDE DEF t
<1>2. \A i \in DOMAIN w.replies : w.replies[i] \in Replies /\ w.replies[i].advice \in Advices
  <2> DEFINE q == w.replies
  <2>1. q \in Seq(Replies)
    BY <1>0
  <2> HIDE DEF q
  <2>2. \A i \in DOMAIN q : q[i] \in Replies
    BY <2>1
  <2>3. \A x \in Replies : x.advice \in Advices
    BY DEF Replies, Advices
  <2>4. QED BY <2>2, <2>3 DEF q
<1>3. CASE w.messages \in MetaBatches
  <2>1. DOMAIN w.replies = {1} /\ reply \in Replies /\ reply.advice \in Advices
        /\ reply.channel = Kind(w.messages)
        /\ (reply.channel = "handshake" => reply.ok /\ reply.clientId # 0)
    BY <1>0, <1>2, <1>3, OfOne DEF Answered
  <2>2. r = receive(t, reply, quit)
    BY <2>1, ReceiveOne
  <2>3. /\ u \in Clients /\ Tokens(u) = Tokens(t) /\ Quietly(t, u) /\ u.scheduled = t.scheduled
        /\ u.clientId = t.clientId /\ u.status = t.status
    BY <1>1, <2>1, Advises
  <2>4. Good(u)
    BY <1>1, <2>1, AdvisesGood
  <2>5. Quietly(s, t)
    BY <1>1, SettlesOn
  <2> HIDE DEF u, reply
  <2>6. CASE Kind(w.messages) = "handshake"
    <3>1. w \in Tokens(s)
      BY <2>6 DEF Tokens, Token
    <3>2. Idle(t) /\ t.scheduled = "" /\ s.clientId = 0
      BY <1>1, <2>6, <3>1, TokenEnds DEF Good, Phase
    <3>3. Idle(u) /\ u.scheduled = "" /\ u.clientId = 0
      BY <1>1, <2>3, <3>2 DEF Idle, Same
    <3>4. r = handshakeResponse(u, reply)
      BY <2>1, <2>2, <2>6 DEF receive, u
    <3>5. Good(r) /\ Linked(u, r)
      BY <2>1, <2>3, <2>6, <3>3, <3>4, ShakesHands
    <3>6. Linked(s, r)
      BY <1>1, <2>3, <3>5 DEF Linked, Quietly, Settles, Same, isDisconnected
    <3>7. QED BY <3>5, <3>6 DEF t
  <2>7. CASE Kind(w.messages) = "connect"
    <3>1. w \in Tokens(s)
      BY <2>7 DEF Tokens, Token
    <3>2. Idle(t) /\ t.scheduled = "" /\ (s.clientId # 0 \/ isDisconnected(s))
      BY <1>1, <2>7, <3>1, TokenEnds DEF Good, Phase
    <3>3. Idle(u) /\ u.scheduled = "" /\ (u.clientId # 0 \/ isDisconnected(u))
      BY <1>1, <2>3, <3>2 DEF Idle, Same, isDisconnected
    <3>4. r = connectResponse(u, reply, quit)
      BY <2>1, <2>2, <2>7 DEF receive, u
    <3>5. Good(r) /\ Settles(u, r)
      BY <2>3, <3>3, <3>4, PollResponds
    <3>6. Settles(s, r)
      BY <2>3, <2>5, <3>5, SettleOn DEF Quietly
    <3>7. QED BY <3>2, <3>5, <3>6, SettledIsLinked DEF t
  <2>8. CASE Kind(w.messages) = "disconnect"
    <3>1. r \in {disconnect(u), abortAndDisconnect(u)}
      BY <2>1, <2>2, <2>8 DEF receive, u
    <3>2. CASE r = disconnect(u)
      <4>1. Good(r) /\ Quietly(u, r)
        BY <2>3, <2>4, <3>2, Closes
      <4>2. Quietly(s, r)
        BY <2>3, <2>5, <4>1, QuietlyOn
      <4>3. QED BY <4>1, <4>2, SettledIsLinked DEF Quietly, t
    <3>3. CASE r = abortAndDisconnect(u)
      <4>1. Good(r) /\ Settles(u, r)
            /\ (r.connected = u.connected \/ u.clientId # 0 \/ isDisconnected(u))
        BY <2>4, <3>3, AbortsAndDisconnects
      <4>2. Settles(s, r)
        BY <2>3, <2>5, <4>1, SettleOn DEF Quietly
      <4>3. r.connected = s.connected \/ s.clientId # 0 \/ isDisconnected(s)
        BY <1>1, <2>3, <4>1 DEF Quietly, Same, isDisconnected
      <4>4. QED BY <4>1, <4>2, <4>3, SettledIsLinked DEF t
    <3>4. QED BY <3>1, <3>2, <3>3
  <2>9. QED BY <1>3, <2>6, <2>7, <2>8, OfOne
<1>4. CASE w.messages \in AppBatches
  <2> DEFINE A == {a \in Clients : Good(a) /\ Quietly(t, a)}
             n == Len(w.replies)
  <2>1. n \in Nat /\ DOMAIN w.replies = 1 .. n
    BY <1>0
  <2>2. \A i \in 1 .. n : w.replies[i].channel \in App
    <3> TAKE i \in 1 .. n
    <3>1. w.messages \in Seq(AppMessages) /\ i \in DOMAIN w.messages
      BY <1>0, <1>4, <2>1 DEF Answered, AppBatches
    <3>2. w.messages[i] \in AppMessages
      BY <3>1
    <3>3. QED BY <1>0, <2>1, <3>2 DEF Answered, AppMessages
  <2>3. \A a \in A, i \in 1 .. n : receive(a, w.replies[i], quit) \in A
    <3> TAKE a \in A, i \in 1 .. n
    <3> DEFINE v == updateAdvice(a, w.replies[i].advice)
    <3>1. w.replies[i].advice \in Advices
      BY <1>2, <2>1
    <3>2. receive(a, w.replies[i], quit) = v
      BY <2>2 DEF receive, App
    <3>3. Good(v) /\ Quietly(a, v)
      BY <3>1, Advises, AdvisesGood
    <3> HIDE DEF v
    <3>4. Quietly(t, v)
      BY <3>3, QuietlyOn
    <3>5. QED BY <3>2, <3>3, <3>4 DEF Good
  <2>4. t \in A
    BY <1>1, SettlesOn
  <2> HIDE DEF A, n
  <2>5. r \in A
    BY <2>1, <2>3, <2>4, FoldReceive
  <2>6. Good(r) /\ Quietly(t, r)
    BY <2>5 DEF A
  <2> HIDE DEF r
  <2>7. Linked(t, r)
    BY <2>6, SettledIsLinked DEF Quietly
  <2>8. QED BY <1>1, <2>6, <2>7, SameLinked DEF r, t
<1>5. QED BY <1>0, <1>3, <1>4 DEF Batches

\* An envelope fails that is neither a handshake nor a long poll.
LEMMA WaitingFails ==
  ASSUME NEW s, Good(s), NEW ms \in Waiting, NEW quit \in BOOLEAN
  PROVE  Good(handleFailure(s, ms, quit)) /\ Linked(s, handleFailure(s, ms, quit))
<1> DEFINE r == handleFailure(s, ms, quit)
<1>0. s \in Clients /\ ms \in Batches /\ Kind(ms) \notin {"connect", "handshake"}
  BY WaitingIs DEF Good
<1>1. CASE ms \in MetaBatches
  <2>1. DOMAIN ms = {1} /\ ms[1].channel = "disconnect"
    BY <1>0, <1>1, OfOne
  <2>2. r = failMessage(s, ms[1], quit)
    BY <2>1, FailOne
  <2>3. r = abortAndDisconnect(s)
    BY <2>1, <2>2 DEF failMessage
  <2>4. QED BY <2>3, AbortsAndDisconnects, SettledIsLinked
<1>2. CASE ms \in AppBatches
  <2> DEFINE n == Len(ms)
  <2>1. n \in Nat /\ DOMAIN ms = 1 .. n
    BY <1>2 DEF AppBatches
  <2>2. \A a \in {s}, i \in 1 .. n : failMessage(a, ms[i], quit) \in {s}
    <3> TAKE a \in {s}, i \in 1 .. n
    <3>1. ms \in Seq(AppMessages) /\ i \in DOMAIN ms
      BY <1>2, <2>1 DEF AppBatches
    <3>2. ms[i] \in AppMessages
      BY <3>1
    <3>3. QED BY <3>2 DEF AppMessages, App, failMessage
  <2> HIDE DEF n
  <2>3. r \in {s}
    BY <2>1, <2>2, FoldFail
  <2>4. QED BY <2>3, SettlesOn, SettledIsLinked DEF Quietly
<1>3. QED BY <1>0, <1>1, <1>2 DEF Batches

\* The messages of a request that was under way fail.
LEMMA UnderWayFails ==
  ASSUME NEW s, Good(s), NEW w \in s.wire, ~w.expired, NEW quit \in BOOLEAN,
         NEW t, t \in Clients, Same(s, t), Tokens(t) = Tokens(s) \ {w}, Good(t),
         ~w.metaConnect /\ Only(s, w) => Bare(t)
  PROVE  Good(handleFailure(t, w.messages, quit)) /\ Linked(s, handleFailure(t, w.messages, quit))
<1> DEFINE r == handleFailure(t, w.messages, quit)
<1>0. s \in Clients /\ w \in UnderWay /\ w.messages \in Batches
      /\ (w.metaConnect <=> Kind(w.messages) = "connect")
  BY DEF Good, Clients, UnderWay, Requests
<1>1. Quietly(s, t)
  BY SettlesOn
<1>2. CASE Kind(w.messages) \in {"handshake", "connect"}
  <2>1. w \in Tokens(s)
    BY <1>2 DEF Tokens, Token
  <2>2. Idle(t)
    BY <2>1, TokenEnds
  <2>3. w.messages \in MetaBatches
    BY <1>0, <1>2, BatchIs DEF App
  <2>4. DOMAIN w.messages = {1} /\ w.messages[1].channel = Kind(w.messages)
    BY <2>3, OfOne
  <2>5. r = failMessage(t, w.messages[1], quit)
    BY <2>4, FailOne
  <2>6. CASE Kind(w.messages) = "handshake"
    <3>1. isDisconnected(t) \/ Bare(t)
      BY <1>0, <2>1, <2>6 DEF Good, Phase, Same, isDisconnected
    <3>2. r = failHandshake(t)
      BY <2>4, <2>5, <2>6 DEF failMessage
    <3>3. Good(r) /\ Quietly(t, r)
      BY <2>2, <3>1, <3>2, HandshakeFails
    <3>4. Quietly(s, r)
      BY <1>1, <3>3, QuietlyOn
    <3>5. QED BY <3>3, <3>4, SettledIsLinked DEF Quietly
  <2>7. CASE Kind(w.messages) = "connect"
    <3>1. s.clientId # 0 \/ isDisconnected(s)
      BY <2>1, <2>7 DEF Good, Phase
    <3>2. t.clientId # 0 \/ isDisconnected(t)
      BY <3>1 DEF Same, isDisconnected
    <3>3. r = connectFailure(t, quit)
      BY <2>4, <2>5, <2>7 DEF failMessage
    <3>4. Good(r) /\ Settles(t, r)
      BY <2>2, <3>2, <3>3, ConnectionFails
    <3>5. Settles(s, r)
      BY <1>1, <3>4, SettleOn DEF Quietly
    <3>6. QED BY <3>1, <3>4, <3>5, SettledIsLinked
  <2>8. QED BY <1>2, <2>6, <2>7
<1>3. CASE Kind(w.messages) \notin {"handshake", "connect"}
  <2>1. w.messages \in Waiting
    BY <1>0, <1>3 DEF Waiting
  <2>2. Good(r) /\ Linked(t, r)
    BY <2>1, WaitingFails
  <2>3. QED BY <2>2, SameLinked
<1>4. QED BY <1>2, <1>3

-----------------------------------------------------------------------------
\* The client connects, or handshakes again.

\* While no handshake is under way, what is sent leaves the client as it is.
LEMMA GoodUnbatched ==
  ASSUME NEW s, Good(s), NEW r, Sends(s, r), ~s.internalBatch
  PROVE  Good(r)
<1>1. Tokens(r) = Tokens(s) /\ Same(s, r) /\ r \in Clients
  BY DEF Sends
<1>2. \A w \in Tokens(s) : Kind(w.messages) # "handshake"
  BY DEF Good, Phase
<1>3. s.scheduled # "handshake"
  BY DEF Good, Phase
<1>4. QED BY <1>1, <1>2, <1>3 DEF Good, Same, OneTurn, Phase, Idle, isDisconnected

LEMMA PollGoes ==
  ASSUME NEW s \in Clients, NEW type \in Types, NEW ms \in MetaBatches, Kind(ms) = "connect"
  PROVE  \E w : /\ Kind(w.messages) = "connect"
                /\ metaConnectSend(s, type, ms) \in Clients
                /\ Same(s, metaConnectSend(s, type, ms))
                /\ Tokens(metaConnectSend(s, type, ms)) \subseteq Tokens(s) \cup {w}
<1> DEFINE id == nextId(s, type)
           v == [s.transports[type] EXCEPT !.metaConnect = id]
           held == [s EXCEPT !.transports[type] = v]
           t == transportSend(held, type, id, TRUE, ms)
           w == Request(type, id, TRUE, ms, type = "long-polling")
<1>1. id \in Nat
  BY NextIdIsNew
<1>2. v \in Transports
  BY <1>1, EnvelopesOf DEF Transports
<1>3. metaConnectSend(s, type, ms) = t
  BY DEF Clients, Transports, metaConnectSend
<1> HIDE DEF id, v
<1>4. held \in Clients /\ Same(s, held) /\ Tokens(held) = Tokens(s)
  BY <1>2, InTransport DEF Inside, Sends
<1> HIDE DEF held
<1>5. Gone(held, t, w)
  BY <1>1, <1>4, SendsMeta
<1> HIDE DEF t
<1>6. w.messages = ms
  BY DEF Request
<1> HIDE DEF w
<1>7. t \in Clients /\ Same(s, t) /\ Tokens(t) \subseteq Tokens(s) \cup {w}
  BY <1>4, <1>5 DEF Gone, Same, Tokens
<1>8. QED BY <1>3, <1>6, <1>7

LEMMA Connects ==
  ASSUME NEW s \in Clients, Idle(s), s.scheduled = "", s.clientId # 0 \/ isDisconnected(s)
  PROVE  Good(connect(s)) /\ Linked(s, connect(s))
<1>1. CASE isDisconnected(s)
  <2>1. connect(s) = s
    BY <1>1 DEF connect
  <2>2. QED BY <2>1 DEF Good, OneTurn, Phase, Idle, Linked
<1>2. CASE ~isDisconnected(s) /\ ~metaConnectAllowed(s, s.transport)
  <2> DEFINE r == [s EXCEPT !.status = "connecting"]
  <2>1. connect(s) = r
    BY <1>2 DEF connect
  <2>2. /\ r \in Clients /\ r.status = "connecting" /\ Tokens(r) = Tokens(s)
        /\ r.clientId = s.clientId /\ r.scheduled = s.scheduled
        /\ r.connected = s.connected /\ r.subs = s.subs
    BY StatusIs
  <2> HIDE DEF r
  <2>3. QED BY <1>2, <2>1, <2>2 DEF Good, OneTurn, Phase, Idle, Linked, isDisconnected
<1>3. CASE ~isDisconnected(s) /\ metaConnectAllowed(s, s.transport)
  <2> DEFINE ms == <<Message("connect", 0, s.clientId)>>
             t == metaConnectSend(s, s.transport, ms)
             r == [t EXCEPT !.status = "connected"]
  <2>1. connect(s) = r
    BY <1>3 DEF connect
  <2>2. s.clientId \in Nat /\ s.transport \in Types
    BY DEF Clients
  <2>3. ms \in MetaBatches /\ Kind(ms) = "connect"
    BY <2>2, MessageIs DEF Channels, App
  <2> HIDE DEF ms
  <2>4. PICK w : /\ Kind(w.messages) = "connect" /\ t \in Clients /\ Same(s, t)
                 /\ Tokens(t) \subseteq Tokens(s) \cup {w}
    BY <2>2, <2>3, PollGoes
  <2> HIDE DEF t
  <2>5. /\ r \in Clients /\ r.status = "connected" /\ Tokens(r) = Tokens(t)
        /\ r.clientId = t.clientId /\ r.scheduled = t.scheduled
        /\ r.connected = t.connected /\ r.subs = t.subs
    BY <2>4, StatusIs
  <2> HIDE DEF r
  <2>6. /\ r.clientId = s.clientId /\ r.scheduled = "" /\ r.connected = s.connected
        /\ r.subs = s.subs /\ Tokens(r) \subseteq {w}
    BY <2>4, <2>5 DEF Same, Idle
  <2>7. s.clientId # 0 /\ ~isDisconnected(r)
    BY <1>3, <2>5 DEF isDisconnected
  <2>8. OneTurn(r)
    BY <2>6 DEF OneTurn
  <2>9. Phase(r)
    BY <2>4, <2>6, <2>7 DEF Phase
  <2>10. QED BY <1>3, <2>1, <2>5, <2>6, <2>7, <2>8, <2>9 DEF Good, Linked
<1>4. QED BY <1>1, <1>2, <1>3

LEMMA ShakesAgain ==
  ASSUME NEW s \in Clients, Idle(s), s.scheduled = "", isDisconnected(s) \/ Bare(s)
  PROVE  Good(handshake(s)) /\ Linked(s, handshake(s))
<1> DEFINE cleared == [s EXCEPT !.clientId = 0, !.subs = 0]
           blank == IF isDisconnected(s) THEN reset(cleared) ELSE cleared
           ready == updateAdvice(blank, "retry")
           fresh == [ready EXCEPT !.internalBatch = TRUE, !.status = "handshaking",
                                  !.transport = negotiateTransport(ready)]
           ms == <<Message("handshake", 0, 0)>>
           r == send(fresh, ms)
<1>1. handshake(s) = r
  BY DEF handshake
<1>2. /\ cleared \in Clients /\ cleared.clientId = 0 /\ cleared.subs = 0
      /\ cleared.scheduled = "" /\ cleared.connected = s.connected
      /\ cleared.transports = s.transports /\ Tokens(cleared) = {}
  BY DEF Clients, Idle, Tokens
<1> HIDE DEF cleared
<1>3. /\ blank \in Clients /\ blank.clientId = 0 /\ blank.subs = 0
      /\ blank.scheduled = "" /\ blank.connected = s.connected
      /\ Bare(blank) /\ Tokens(blank) = {}
  <2>1. CASE isDisconnected(s)
    BY <1>2, <2>1, Resets DEF Same
  <2>2. CASE ~isDisconnected(s)
    BY <1>2, <2>2 DEF Bare
  <2>3. QED BY <2>1, <2>2
<1> HIDE DEF blank
<1>4. /\ ready \in Clients /\ ready.clientId = 0 /\ ready.subs = 0
      /\ ready.scheduled = "" /\ ready.connected = s.connected
      /\ ready.transports = blank.transports /\ Tokens(ready) = {}
  <2>1. "retry" \in Advices
    BY DEF Advices
  <2>2. QED BY <1>3, <2>1, Advises DEF Quietly, Settles
<1> HIDE DEF ready
<1>5. Bare(ready)
  BY <1>3, <1>4 DEF Bare
<1>6. /\ fresh \in Clients /\ fresh.clientId = 0 /\ fresh.subs = 0
      /\ fresh.scheduled = "" /\ fresh.connected = s.connected /\ fresh.internalBatch = TRUE
      /\ fresh.status = "handshaking"
      /\ fresh.transports = ready.transports /\ Tokens(fresh) = {}
  BY <1>4, Negotiated DEF Clients, Tokens
<1> HIDE DEF fresh
<1>7. Bare(fresh) /\ fresh.transport \in Types
  BY <1>5, <1>6, ZenonT(60) DEF Bare, Clients
<1>8. ms \in MetaBatches /\ Kind(ms) = "handshake"
  BY MessageIs DEF Channels, App
<1> HIDE DEF ms
<1> DEFINE p == stamp(ms, fresh.clientId)
           type == fresh.transport
           id == nextId(fresh, type)
           w == Request(type, id, FALSE, p, type = "long-polling")
<1>9. p \in MetaBatches /\ Kind(p) = "handshake"
  BY <1>6, <1>8, StampIs DEF Batches
<1>10. r = queueSend(fresh, type, p)
  BY SendIs
<1> HIDE DEF p, r
<1>11. /\ r \in Clients /\ Same(fresh, r) /\ r.wire = fresh.wire \cup {w}
       /\ r.transports[type] = [fresh.transports[type] EXCEPT !.requests = {id}]
       /\ \A t \in Types \ {type} : r.transports[t] = fresh.transports[t]
  <2>1. fresh.transports[type].requests = {} /\ type \in Types
    BY <1>7 DEF Bare
  <2> HIDE DEF type
  <2>2. Kind(p) # "connect"
    BY <1>9
  <2>3. fresh \in Clients /\ p \in MetaBatches
    BY <1>6, <1>9
  <2> DEFINE v == queueSend(fresh, type, p)
  <2>4. /\ v \in Clients /\ Same(fresh, v) /\ id \in Nat
        /\ v.wire = fresh.wire \cup {w}
        /\ v.transports[type] = [fresh.transports[type] EXCEPT !.requests = {id}]
        /\ \A t \in Types \ {type} : v.transports[t] = fresh.transports[t]
        /\ v.deferred = fresh.deferred
    BY <2>1, <2>2, <2>3, QueueSendsMeta, ZenonT(60)
  <2> HIDE DEF v, w, id
  <2>5. r = v
    BY <1>10 DEF v
  <2>6. QED BY <2>4, <2>5
<1>12. w.messages = p /\ w.type = type /\ w.id = id
  BY DEF Request
<1> HIDE DEF w, type, id
<1>13. Tokens(r) \subseteq {w}
  BY <1>6, <1>11 DEF Tokens
<1>14. Only(r, w)
  <2>1. fresh.transports[type] \in Transports /\ fresh.transports[type].envelopes = <<>>
    BY <1>6, <1>7, EnvelopesOf DEF Bare, type
  <2>2. r.transports[type].envelopes = <<>> /\ r.transports[type].requests = {id}
    BY <1>11, <2>1 DEF Transports
  <2>3. QED BY <1>7, <1>11, <1>12, <2>2, ZenonT(60) DEF Only, Bare
<1>15. /\ r.clientId = 0 /\ r.subs = 0 /\ r.scheduled = "" /\ r.connected = s.connected
       /\ r.internalBatch /\ r.status = "handshaking"
  BY <1>6, <1>11 DEF Same
<1>16. OneTurn(r)
  BY <1>13, <1>15 DEF OneTurn
<1>17. Phase(r)
  BY <1>9, <1>12, <1>13, <1>14, <1>15 DEF Phase
<1>18. QED BY <1>1, <1>11, <1>15, <1>16, <1>17 DEF Good, Linked, isDisconnected

-----------------------------------------------------------------------------
\* The actions of the page, the timers and the network.

LEMMA QueuesMessage ==
  ASSUME NEW s, Good(s), NEW m \in AppMessages
  PROVE  /\ Good(queueMessage(s, m))
         /\ queueMessage(s, m).status = s.status
         /\ queueMessage(s, m).clientId = s.clientId
         /\ queueMessage(s, m).connected = s.connected
         /\ queueMessage(s, m).subs = s.subs
<1> DEFINE r == queueMessage(s, m)
<1>0. s \in Clients
  BY DEF Good
<1>1. CASE s.internalBatch
  <2> DEFINE q == Append(s.queue, m)
             t == [s EXCEPT !.queue = q]
  <2>1. q \in Seq(AppMessages)
    <3>1. s.queue \in Seq(AppMessages)
      BY <1>0 DEF Clients
    <3>2. QED BY <3>1, AppendIn
  <2>2. r = t
    BY <1>0, <1>1 DEF queueMessage, Clients
  <2> HIDE DEF q
  <2>3. /\ t \in Clients /\ Tokens(t) = Tokens(s) /\ t.status = s.status
        /\ t.clientId = s.clientId /\ t.internalBatch = s.internalBatch
        /\ t.scheduled = s.scheduled /\ t.transports = s.transports
        /\ t.connected = s.connected /\ t.subs = s.subs
    BY <1>0, <2>1 DEF Clients, Tokens
  <2> HIDE DEF t
  <2>4. t.scheduled \in {s.scheduled, ""}
    BY <2>3
  <2>5. Good(t)
    BY <2>3, <2>4, GoodLike
  <2>6. QED BY <2>2, <2>3, <2>5
<1>2. CASE ~s.internalBatch
  <2>1. <<m>> \in AppBatches
    BY DEF AppBatches
  <2>2. Sends(s, send(s, <<m>>))
    BY <1>0, <2>1, SendsApp
  <2>3. r = send(s, <<m>>)
    BY <1>2 DEF queueMessage
  <2> HIDE DEF r
  <2>4. Good(r) /\ Sends(s, r)
    BY <1>2, <2>2, <2>3, GoodUnbatched
  <2>5. QED BY <2>4 DEF Sends, Same, r
<1>3. QED BY <1>1, <1>2

\* A request that was under way fails, from any state that differs only in it.
LEMMA Fails ==
  ASSUME NEW s, Good(s), NEW w \in s.wire, ~w.expired, NEW quit \in BOOLEAN,
         NEW left, Good(left), Same(s, left), Tokens(left) \ {w} = Tokens(s) \ {w},
         left.transports = s.transports,
         NEW ended, ended = complete(left, w, FALSE)
  PROVE  /\ Good(ended) /\ Linked(s, ended)
         /\ Good(handleFailure(ended, w.messages, quit))
         /\ Linked(s, handleFailure(ended, w.messages, quit))
<1>0. left \in Clients /\ w \in UnderWay
  BY DEF Good, Clients
<1>1. FALSE \in BOOLEAN
  OBVIOUS
<1>2. Good(ended)
  BY <1>0, <1>1, CompleteGood
<1>3. /\ ended \in Clients /\ Same(left, ended) /\ Tokens(ended) = Tokens(left) \ {w}
      /\ (~w.metaConnect /\ Only(left, w) => Bare(ended))
  BY <1>0, <1>1, Completes
<1>4. Same(s, ended) /\ Tokens(ended) = Tokens(s) \ {w}
  BY <1>3 DEF Same
<1>5. ~w.metaConnect /\ Only(s, w) => Bare(ended)
  BY <1>3 DEF Only
<1>6. Linked(s, ended)
  BY <1>4 DEF Same, Linked, isDisconnected
<1>7. QED BY <1>2, <1>3, <1>4, <1>5, <1>6, UnderWayFails

LEMMA GoodWith ==
  ASSUME NEW s, Good(s), NEW r \in Clients, Same(s, r), Tokens(r) \subseteq Tokens(s),
         r.transports = s.transports
  PROVE  Good(r)
<1>1. Kept(s, r)
  BY DEF Kept, Only, Bare
<1>2. QED BY <1>1 DEF Good, OneTurn, Phase, Idle, Same, Kept, isDisconnected

\* A request takes the place of another.
LEMMA Replaces ==
  ASSUME NEW s \in Clients, NEW w \in s.wire, NEW x \in UnderWay
  PROVE  /\ [s EXCEPT !.wire = (@ \ {w}) \cup {x}] \in Clients
         /\ Same(s, [s EXCEPT !.wire = (@ \ {w}) \cup {x}])
         /\ [s EXCEPT !.wire = (@ \ {w}) \cup {x}].transports = s.transports
         /\ Tokens([s EXCEPT !.wire = (@ \ {w}) \cup {x}]) =
              IF Token(x) THEN (Tokens(s) \ {w}) \cup {x} ELSE Tokens(s) \ {w}
<1>1. IsFiniteSet((s.wire \ {w}) \cup {x})
  BY FS_RemoveElement, FS_AddElement, ZenonT(60) DEF Clients
<1>2. (s.wire \ {w}) \cup {x} \in {v \in SUBSET UnderWay : IsFiniteSet(v)}
  BY <1>1 DEF Clients
<1>3. QED BY <1>2 DEF Clients, Same, Tokens

-----------------------------------------------------------------------------
\* What one action does to the client.
Turns(s, r) == Good(r) /\ Linked(s, r)

LEMMA TimerTurns ==
  ASSUME Good(client), Timer
  PROVE  Turns(client, client')
<1> DEFINE fired == [client EXCEPT !.scheduled = ""]
<1>0. client \in Clients /\ Idle(client)
  BY DEF Good, OneTurn, Timer
<1>1. /\ fired \in Clients /\ Tokens(fired) = Tokens(client) /\ fired.scheduled = ""
      /\ fired.clientId = client.clientId /\ fired.status = client.status
      /\ fired.transports = client.transports /\ fired.connected = client.connected
      /\ fired.subs = client.subs
  BY <1>0 DEF Clients, Tokens
<1>2. \/ client.scheduled = "connect" /\ client' = connect(fired)
      \/ client.scheduled = "handshake" /\ client' = handshake(fired)
  BY <1>0 DEF Timer, Clients
<1> HIDE DEF fired
<1>3. Idle(fired)
  BY <1>0, <1>1 DEF Idle
<1>4. CASE client.scheduled = "connect" /\ client' = connect(fired)
  <2>1. fired.clientId # 0 \/ isDisconnected(fired)
    BY <1>1, <1>4 DEF Good, Phase, isDisconnected
  <2>2. Good(client') /\ Linked(fired, client')
    BY <1>1, <1>3, <1>4, <2>1, Connects
  <2>3. QED BY <1>1, <2>2 DEF Turns, Linked, isDisconnected
<1>5. CASE client.scheduled = "handshake" /\ client' = handshake(fired)
  <2>1. isDisconnected(fired) \/ Bare(fired)
    BY <1>1, <1>5 DEF Good, Phase, isDisconnected, Bare
  <2>2. Good(client') /\ Linked(fired, client')
    BY <1>1, <1>3, <1>5, <2>1, ShakesAgain
  <2>3. QED BY <1>1, <2>2 DEF Turns, Linked, isDisconnected
<1>6. QED BY <1>2, <1>4, <1>5

LEMMA DeferredTurns ==
  ASSUME Good(client), Deferred
  PROVE  Turns(client, client')
<1> DEFINE next == Head(client.deferred)
           rest == [client EXCEPT !.deferred = Tail(@)]
           t == completeRequest(rest, next.type, next.id, FALSE)
<1>0. client \in Clients /\ client.deferred \in Seq(Failures) /\ client.deferred # <<>>
  BY DEF Good, Clients, Deferred
<1>1. next \in Failures /\ Tail(client.deferred) \in Seq(Failures)
  BY <1>0, TailIn
<1>2. client' = handleFailure(t, next.messages, FALSE)
  BY DEF Deferred
<1>3. next.type \in Types /\ next.messages \in Waiting
  BY <1>1 DEF Failures
<1>4. /\ rest \in Clients /\ Same(client, rest) /\ Tokens(rest) = Tokens(client)
      /\ rest.transports = client.transports
  BY <1>0, <1>1 DEF Clients, Same, Tokens
<1> HIDE DEF rest, next
<1>5. Good(rest)
  BY <1>4, GoodWith
<1>6. Sends(rest, t) /\ Kept(rest, t)
  BY <1>3, <1>4, CompletesRequest, CompletesKept
<1> HIDE DEF t
<1>7. Good(t) /\ Same(client, t)
  BY <1>4, <1>5, <1>6, GoodAfter DEF Sends, Same
<1>8. Good(client') /\ Linked(t, client')
  BY <1>2, <1>3, <1>7, WaitingFails
<1>9. QED BY <1>7, <1>8, SameLinked DEF Turns

LEMMA RespondTurns ==
  ASSUME Good(client), NEW w \in client.wire, NEW quit \in BOOLEAN, Respond(w, quit)
  PROVE  Turns(client, client')
<1>0. client \in Clients /\ w \in UnderWay /\ w.served /\ ~w.expired /\ TRUE \in BOOLEAN
  BY DEF Good, Clients, Respond
<1>1. CASE mismatch(client, w)
  <2>1. client' = complete(client, w, TRUE)
    BY <1>1 DEF Respond
  <2>2. Good(client') /\ Same(client, client')
    BY <1>0, <2>1, CompleteGood, Completes
  <2>3. QED BY <2>2 DEF Same, Linked, isDisconnected, Turns
<1>2. CASE ~mismatch(client, w)
  <2>1. client' = handleMessages(complete(client, w, TRUE), w.replies, quit)
    BY <1>2 DEF Respond
  <2>2. QED BY <1>0, <2>1, HandlesReplies DEF Turns
<1>3. QED BY <1>1, <1>2

LEMMA FailTurns ==
  ASSUME Good(client), NEW w \in client.wire, NEW quit \in BOOLEAN, Fail(w, quit)
  PROVE  Turns(client, client')
<1> DEFINE left == crossDomainFails(client, w)
           ended == complete(left, w, FALSE)
<1>0. client \in Clients /\ ~w.expired /\ Failed(ended, w, quit)
  BY DEF Good, Fail
<1>1. /\ Sends(client, left) /\ Kept(client, left) /\ left.transports = client.transports
  BY <1>0, CrossDomainFails
<1> HIDE DEF left
<1>2. Good(left) /\ Same(client, left) /\ Tokens(left) \ {w} = Tokens(client) \ {w}
  BY <1>1, GoodAfter DEF Sends
<1> HIDE DEF ended
<1>3. /\ Good(ended) /\ Linked(client, ended)
      /\ Good(handleFailure(ended, w.messages, quit))
      /\ Linked(client, handleFailure(ended, w.messages, quit))
  BY <1>0, <1>1, <1>2, Fails DEF ended
<1>4. QED BY <1>0, <1>3 DEF Failed, Turns

LEMMA ExpireTurns ==
  ASSUME Good(client), NEW w \in client.wire, NEW quit \in BOOLEAN, Expire(w, quit)
  PROVE  Turns(client, client')
<1> DEFINE x == [w EXCEPT !.expired = TRUE]
           left == IF w.xhr THEN crossDomainFails(client, w)
                   ELSE [client EXCEPT !.wire = (@ \ {w}) \cup {x}]
           ended == complete(left, w, FALSE)
<1>0. client \in Clients /\ w \in UnderWay /\ ~w.expired /\ Failed(ended, w, quit)
  BY DEF Good, Expire, Clients
<1>1. /\ Good(left) /\ Same(client, left) /\ Tokens(left) \ {w} = Tokens(client) \ {w}
      /\ left.transports = client.transports
  <2>1. CASE w.xhr
    <3>1. left = crossDomainFails(client, w)
      BY <2>1
    <3> HIDE DEF left
    <3>2. /\ Sends(client, left) /\ Kept(client, left) /\ left.transports = client.transports
      BY <1>0, <3>1, CrossDomainFails
    <3>3. QED BY <3>2, GoodAfter DEF Sends
  <2>2. CASE ~w.xhr
    <3>1. x \in UnderWay /\ ~Token(x)
      BY <1>0, <2>2 DEF UnderWay, Requests, Answered, Token
    <3>2. left = [client EXCEPT !.wire = (@ \ {w}) \cup {x}]
      BY <2>2
    <3> HIDE DEF left, x
    <3>3. /\ left \in Clients /\ Same(client, left) /\ left.transports = client.transports
          /\ Tokens(left) = Tokens(client) \ {w}
      BY <1>0, <3>1, <3>2, Replaces
    <3>4. QED BY <3>3, GoodWith
  <2>3. QED BY <1>0, <2>1, <2>2 DEF UnderWay, Requests
<1> HIDE DEF left, ended
<1>2. /\ Good(ended) /\ Linked(client, ended)
      /\ Good(handleFailure(ended, w.messages, quit))
      /\ Linked(client, handleFailure(ended, w.messages, quit))
  BY <1>0, <1>1, Fails DEF ended
<1>3. QED BY <1>0, <1>2 DEF Failed, Turns

LEMMA LateTurns ==
  ASSUME Good(client), NEW w \in client.wire, Late(w)
  PROVE  Turns(client, client')
<1>0. client \in Clients
  BY DEF Good
<1>1. /\ client' \in Clients /\ Same(client, client') /\ Steady(client, client')
      /\ Tokens(client') = Tokens(client) \ {w}
  BY <1>0, WithoutRequest DEF Late
<1>2. Good(client')
  BY <1>1, GoodWith DEF Steady
<1>3. QED BY <1>1, <1>2 DEF Turns, Same, Linked, isDisconnected

-----------------------------------------------------------------------------
\* The server, and the ids of its sessions.

Entries == [n : Nat, late : BOOLEAN]
Servers == UNION {[D -> Seq(Entries)] : D \in SUBSET Nat}
Given == {"", "retry"}
Dones == [srv : Servers, replies : Seq(Replies)]

LEMMA ServersAre ==
  ASSUME NEW srv
  PROVE  srv \in Servers <=> /\ srv = [x \in DOMAIN srv |-> srv[x]]
                             /\ DOMAIN srv \subseteq Nat
                             /\ \A x \in DOMAIN srv : srv[x] \in Seq(Entries)
BY DEF Servers

\* The id of a new session is one that nothing refers to.
LEMMA NewSessionIsNew ==
  ASSUME client \in Clients
  PROVE  NewSession \in Nat \ {0} /\ NewSession \notin Referred
<1> DEFINE R(w) == {w.messages[i].clientId : i \in DOMAIN w.messages} \cup
                   {w.replies[i].clientId : i \in DOMAIN w.replies}
           sets == {R(w) : w \in client.wire}
           f == [w \in client.wire |-> R(w)]
<1>1. \A w \in client.wire : IsFiniteSet(R(w))
  <2> TAKE w \in client.wire
  <2>1. w.messages \in Batches /\ w.replies \in Seq(Replies)
    BY DEF Clients, UnderWay, Requests
  <2>2. w.messages \in Seq(Messages)
    BY <2>1, BatchIs
  <2>3. /\ Len(w.messages) \in Nat /\ DOMAIN w.messages = 1 .. Len(w.messages)
        /\ Len(w.replies) \in Nat /\ DOMAIN w.replies = 1 .. Len(w.replies)
    BY <2>1, <2>2
  <2>4. /\ IsFiniteSet({w.messages[i].clientId : i \in DOMAIN w.messages})
        /\ IsFiniteSet({w.replies[i].clientId : i \in DOMAIN w.replies})
    BY <2>3, ClientsOfMessages
  <2>5. QED BY <2>4, FS_Union
<1>2. Referred = {client.clientId} \cup UNION sets
  BY DEF Referred
<1>3. IsFiniteSet(client.wire)
  BY DEF Clients
<1> HIDE DEF R
<1>4. f \in Surjection(client.wire, sets)
  BY DEF Surjection
<1>5. \A T \in sets : IsFiniteSet(T)
  BY <1>1
<1> HIDE DEF f, sets
<1>6. IsFiniteSet(sets)
  BY <1>3, <1>4, FS_Surjection
<1>7. IsFiniteSet(UNION sets)
  BY <1>5, <1>6, FS_UNION
<1>8. IsFiniteSet({client.clientId} \cup UNION sets)
  BY <1>7, FS_Singleton, FS_Union
<1>9. IsFiniteSet(Referred)
  BY <1>2, <1>8
<1>10. QED BY <1>9, FreshNumber DEF NewSession

LEMMA Accepts ==
  ASSUME NEW srv \in Servers, NEW m \in Messages, m.clientId \in DOMAIN srv, NEW late \in BOOLEAN
  PROVE  Accept(srv, m, late) \in Servers
<1>1. CASE m.channel = "disconnect"
  <2> DEFINE r == Restrict(srv, DOMAIN srv \ {m.clientId})
  <2>1. r = [x \in DOMAIN srv \ {m.clientId} |-> srv[x]]
    BY DEF Restrict
  <2>2. Accept(srv, m, late) = r
    BY <1>1 DEF Accept
  <2> HIDE DEF r
  <2>3. DOMAIN r = DOMAIN srv \ {m.clientId} /\ r = [x \in DOMAIN r |-> r[x]]
        /\ \A x \in DOMAIN r : r[x] = srv[x]
    BY <2>1
  <2>4. QED BY <2>2, <2>3, ServersAre
<1>2. CASE m.channel = "publish"
  <2> DEFINE e == [n |-> m.n, late |-> late \/ m.displaced]
             q == Append(srv[m.clientId], e)
             r == [srv EXCEPT ![m.clientId] = q]
  <2>1. e \in Entries
    BY DEF Entries, Messages
  <2>2. srv[m.clientId] \in Seq(Entries)
    BY ServersAre
  <2> HIDE DEF e
  <2>3. q \in Seq(Entries)
    BY <2>1, <2>2, AppendIn
  <2>4. Accept(srv, m, late) = r
    BY <1>2 DEF Accept, e
  <2> HIDE DEF q
  <2>5. DOMAIN r = DOMAIN srv /\ r = [x \in DOMAIN r |-> r[x]]
        /\ \A x \in DOMAIN r : r[x] = IF x = m.clientId THEN q ELSE srv[x]
    OBVIOUS
  <2> HIDE DEF r
  <2>6. QED BY <2>3, <2>4, <2>5, ServersAre, ZenonT(60)
<1>3. CASE m.channel \notin {"disconnect", "publish"}
  BY <1>3 DEF Accept
<1>4. QED BY <1>1, <1>2, <1>3

\* A reply to message m; the server takes every handshake.
IsReplyTo(reply, m) ==
  /\ reply \in Replies /\ reply.channel = m.channel
  /\ reply.channel = "handshake" => reply.ok /\ reply.clientId # 0

LEMMA Answers ==
  ASSUME client \in Clients, NEW done \in Dones, NEW m \in Messages,
         NEW advice \in Given, NEW late \in BOOLEAN
  PROVE  /\ Answer(done, m, advice, late) \in Dones
         /\ \E reply : /\ IsReplyTo(reply, m)
                       /\ Answer(done, m, advice, late).replies = Append(done.replies, reply)
<1> DEFINE srv == done.srv
           r == Answer(done, m, advice, late)
<1>0. srv \in Servers /\ done.replies \in Seq(Replies)
  BY DEF Dones
<1>1. NewSession \in Nat \ {0}
  BY NewSessionIsNew
<1>2. advice \in Advices /\ "" \in Advices /\ "handshake" \in Advices /\ m.clientId \in Nat
  BY DEF Advices, Given, Messages
<1>3. CASE m.channel = "handshake"
  <2> DEFINE D == (DOMAIN srv \cap Referred) \cup {NewSession}
             v == [session \in D |-> IF session = NewSession THEN <<>> ELSE srv[session]]
             reply == Reply(m, TRUE, advice, NewSession)
  <2>1. r = [srv |-> v, replies |-> Append(done.replies, reply)]
    BY <1>3 DEF Answer
  <2>2. v \in Servers
    <3>1. D \subseteq Nat /\ \A x \in D : x # NewSession => srv[x] \in Seq(Entries)
      BY <1>0, <1>1, ServersAre
    <3>2. <<>> \in Seq(Entries)
      OBVIOUS
    <3> HIDE DEF D
    <3>3. \A x \in D : (IF x = NewSession THEN <<>> ELSE srv[x]) \in Seq(Entries)
      BY <3>1, <3>2
    <3>4. v \in [D -> Seq(Entries)]
      BY <3>3
    <3> HIDE DEF v
    <3>5. QED BY <3>1, <3>4 DEF Servers
  <2>3. IsReplyTo(reply, m)
    BY <1>1, <1>2 DEF IsReplyTo, Reply, Replies, Messages, Advices
  <2> HIDE DEF v, reply, r
  <2>4. Append(done.replies, reply) \in Seq(Replies)
    BY <1>0, <2>3, AppendIn DEF IsReplyTo
  <2>5. r \in Dones /\ r.replies = Append(done.replies, reply)
    BY <2>1, <2>2, <2>4 DEF Dones
  <2>6. QED BY <2>3, <2>5 DEF r
<1>4. CASE m.channel # "handshake" /\ m.clientId \in DOMAIN srv
  <2> DEFINE v == Accept(srv, m, late)
             given == IF m.channel = "connect" THEN advice ELSE ""
             reply == Reply(m, TRUE, given, 0)
  <2>1. r = [srv |-> v, replies |-> Append(done.replies, reply)]
    BY <1>4 DEF Answer
  <2>2. v \in Servers
    BY <1>0, <1>4, Accepts
  <2>3. IsReplyTo(reply, m)
    BY <1>2, <1>4 DEF IsReplyTo, Reply, Replies, Messages, Advices
  <2> HIDE DEF v, reply, r
  <2>4. Append(done.replies, reply) \in Seq(Replies)
    BY <1>0, <2>3, AppendIn DEF IsReplyTo
  <2>5. r \in Dones /\ r.replies = Append(done.replies, reply)
    BY <2>1, <2>2, <2>4 DEF Dones
  <2>6. QED BY <2>3, <2>5 DEF r
<1>5. CASE m.channel # "handshake" /\ m.clientId \notin DOMAIN srv
  <2> DEFINE reply == Reply(m, FALSE, "handshake", 0)
  <2>1. r = [srv |-> srv, replies |-> Append(done.replies, reply)]
    BY <1>5 DEF Answer
  <2>3. IsReplyTo(reply, m)
    BY <1>2, <1>5 DEF IsReplyTo, Reply, Replies, Messages, Advices
  <2> HIDE DEF reply, r
  <2>4. Append(done.replies, reply) \in Seq(Replies)
    BY <1>0, <2>3, AppendIn DEF IsReplyTo
  <2>5. r \in Dones /\ r.replies = Append(done.replies, reply)
    BY <1>0, <2>1, <2>4 DEF Dones
  <2>6. QED BY <2>3, <2>5 DEF r
<1>6. QED BY <1>3, <1>4, <1>5

\* The server answers every message, in turn.
LEMMA AnswersAll ==
  ASSUME client \in Clients, NEW srv \in Servers, NEW ms \in Batches,
         NEW advice \in Given, NEW late \in BOOLEAN
  PROVE  /\ answers(srv, ms, advice, late) \in Dones
         /\ DOMAIN answers(srv, ms, advice, late).replies = DOMAIN ms
         /\ \A i \in DOMAIN ms : IsReplyTo(answers(srv, ms, advice, late).replies[i], ms[i])
<1> DEFINE n == Len(ms)
           first == [srv |-> srv, replies |-> <<>>]
           r == answers(srv, ms, advice, late)
<1>1. ms \in Seq(Messages) /\ n \in Nat /\ DOMAIN ms = 1 .. n
  BY BatchIs
<1>2. first \in Dones
  BY DEF Dones
<1>3. \A i \in 1 .. n : ms[i] \in Messages
  BY <1>1
<1>4. \A a \in Dones, i \in 1 .. n : Answer(a, ms[i], advice, late) \in Dones
  BY <1>3, Answers
<1> HIDE DEF n, r
<1>5. PICK g : AnswerSteps(g, srv, ms, n, advice, late) /\ r = g[n]
  BY <1>1, <1>2, <1>4, FoldAnswer DEF r
<1>6. /\ g[0] = first
      /\ \A k \in 0 .. n - 1 : g[k + 1] = Answer(g[k], ms[k + 1], advice, late)
  BY <1>5 DEF AnswerSteps
<1> DEFINE Upto(a, k) == /\ a \in Dones /\ Len(a.replies) = k
                         /\ \A i \in 1 .. k : IsReplyTo(a.replies[i], ms[i])
           S == {k \in Nat : k <= n => Upto(g[k], k)}
<1>7. 0 \in S
  <2>1. g[0].replies = <<>> /\ g[0] \in Dones
    BY <1>2, <1>6
  <2>2. QED BY <2>1
<1>8. \A k \in Nat : k \in S => k + 1 \in S
  <2> TAKE k \in Nat
  <2> SUFFICES ASSUME k \in S, k + 1 <= n PROVE Upto(g[k + 1], k + 1)
    OBVIOUS
  <2>1. k \in 0 .. n - 1 /\ k + 1 \in 1 .. n /\ k <= n
    BY <1>1
  <2>2. Upto(g[k], k) /\ ms[k + 1] \in Messages
    BY <1>3, <2>1
  <2>3. g[k + 1] = Answer(g[k], ms[k + 1], advice, late)
    BY <1>6, <2>1
  <2>4. PICK reply : /\ IsReplyTo(reply, ms[k + 1])
                     /\ g[k + 1].replies = Append(g[k].replies, reply)
    BY <2>2, <2>3, Answers
  <2>5. g[k + 1] \in Dones
    BY <1>4, <2>1, <2>2, <2>3
  <2>6. g[k].replies \in Seq(Replies) /\ reply \in Replies /\ Len(g[k].replies) = k
    BY <2>2, <2>4 DEF Dones, IsReplyTo
  <2>7. /\ Len(g[k + 1].replies) = k + 1 /\ g[k + 1].replies[k + 1] = reply
        /\ \A i \in 1 .. k : g[k + 1].replies[i] = g[k].replies[i]
    BY <2>4, <2>6
  <2>8. \A i \in 1 .. k + 1 : IsReplyTo(g[k + 1].replies[i], ms[i])
    <3> TAKE i \in 1 .. k + 1
    <3>1. CASE i = k + 1
      BY <2>4, <2>7, <3>1
    <3>2. CASE i \in 1 .. k
      BY <2>2, <2>7, <3>2
    <3>3. QED BY <3>1, <3>2
  <2>9. QED BY <2>5, <2>7, <2>8
<1>9. n \in S
  <2> HIDE DEF S
  <2>1. QED BY <1>1, <1>7, <1>8, SetInduction
<1>10. Upto(r, n)
  BY <1>1, <1>5, <1>9
<1>11. DOMAIN r.replies = DOMAIN ms
  <2>1. r.replies \in Seq(Replies) /\ Len(r.replies) = n
    BY <1>10 DEF Dones
  <2>2. QED BY <1>1, <2>1
<1>12. QED BY <1>1, <1>10, <1>11 DEF r

-----------------------------------------------------------------------------
\* The step of the server, and those of the page.

\* The copy of a request that the server has answered takes its place.
LEMMA GoodAnswered ==
  ASSUME NEW s, Good(s), NEW w \in s.wire, NEW x \in UnderWay, Token(x) <=> Token(w),
         x.messages = w.messages, x.type = w.type, x.id = w.id,
         NEW r \in Clients, Same(s, r), r.transports = s.transports,
         Tokens(r) = IF Token(x) THEN (Tokens(s) \ {w}) \cup {x} ELSE Tokens(s) \ {w}
  PROVE  Good(r)
<1>1. CASE Token(w)
  <2>1. w \in Tokens(s)
    BY <1>1 DEF Tokens
  <2>2. Tokens(s) = {w} /\ Tokens(r) = {x}
    BY <1>1, <2>1 DEF Good, OneTurn
  <2>3. s.scheduled = "" /\ r.scheduled = ""
    BY <2>2 DEF Good, OneTurn, Idle, Same
  <2>4. OneTurn(r)
    BY <2>2, <2>3 DEF OneTurn
  <2>5. Only(s, w) => Only(r, x)
    BY DEF Only
  <2>6. Phase(r)
    BY <2>1, <2>2, <2>3, <2>5 DEF Good, Phase, Same, isDisconnected
  <2>7. QED BY <2>4, <2>6 DEF Good
<1>2. CASE ~Token(w)
  <2>1. Tokens(r) \subseteq Tokens(s)
    BY <1>2
  <2>2. QED BY <2>1, GoodWith
<1>3. QED BY <1>1, <1>2

LEMMA ServeTurns ==
  ASSUME Good(client), server \in Servers, NEW w \in client.wire, NEW advice \in Given,
         Serve(w, advice)
  PROVE  Turns(client, client') /\ server' \in Servers
<1> DEFINE done == answers(server, w.messages, advice, w.expired)
           x == [w EXCEPT !.served = TRUE, !.replies = done.replies]
<1>0. client \in Clients /\ w \in UnderWay
  BY DEF Good, Clients
<1>1. w.messages \in Batches /\ w.expired \in BOOLEAN
  BY <1>0 DEF UnderWay, Requests
<1>2. /\ done \in Dones /\ DOMAIN done.replies = DOMAIN w.messages
      /\ \A i \in DOMAIN w.messages : IsReplyTo(done.replies[i], w.messages[i])
  BY <1>0, <1>1, AnswersAll
<1>3. server' = done.srv /\ client' = [client EXCEPT !.wire = (@ \ {w}) \cup {x}]
  BY DEF Serve
<1> HIDE DEF done
<1>4. /\ x.messages = w.messages /\ x.type = w.type /\ x.id = w.id
      /\ (Token(x) <=> Token(w)) /\ x.served = TRUE /\ x.replies = done.replies
  BY <1>0 DEF UnderWay, Requests, Token
<1>5. x \in UnderWay
  <2>1. done.replies \in Seq(Replies)
    BY <1>2 DEF Dones
  <2>2. x \in Requests /\ x.xhr = w.xhr /\ x.expired = w.expired /\ x.metaConnect = w.metaConnect
    BY <1>0, <2>1 DEF UnderWay, Requests
  <2> HIDE DEF x
  <2>3. Answered(x)
    BY <1>2, <1>4 DEF Answered, IsReplyTo
  <2>4. QED BY <1>0, <1>4, <2>2, <2>3 DEF UnderWay
<1> HIDE DEF x
<1>6. /\ client' \in Clients /\ Same(client, client')
      /\ client'.transports = client.transports
      /\ Tokens(client') =
           IF Token(x) THEN (Tokens(client) \ {w}) \cup {x} ELSE Tokens(client) \ {w}
  BY <1>0, <1>3, <1>5, Replaces
<1>7. Good(client')
  BY <1>4, <1>5, <1>6, GoodAnswered
<1>8. Linked(client, client')
  BY <1>6 DEF Same, Linked, isDisconnected
<1>9. QED BY <1>2, <1>3, <1>7, <1>8 DEF Dones, Turns

-----------------------------------------------------------------------------
\* What the client of a page that has not begun is like.
Unstarted(s) == s.wire = {} /\ s.scheduled = "" /\ s.deferred = <<>> /\ isDisconnected(s)

Calls ==
  [init : Nat, publish : Nat, subscribe : Nat, disconnect : Nat, failure : Nat, restart : Nat]

\* The inductive invariant: the types, one turn at a time, and a long poll only in
\* a session.
ClientInv ==
  /\ Good(client)
  /\ server \in Servers
  /\ calls \in Calls
  /\ limits \in Limits
  /\ calls.init = 0 => Unstarted(client)

LEMMA HandshakeTurns ==
  ASSUME Good(client), Unstarted(client), Handshake
  PROVE  Turns(client, client')
<1> DEFINE s == [client EXCEPT !.status = "disconnected"]
<1>0. client \in Clients
  BY DEF Good
<1>1. /\ s \in Clients /\ s.status = "disconnected" /\ Tokens(s) = Tokens(client)
      /\ s.clientId = client.clientId /\ s.scheduled = client.scheduled
      /\ s.connected = client.connected /\ s.subs = client.subs
  BY <1>0, StatusIs
<1>2. client' = handshake(s)
  BY DEF Handshake
<1> HIDE DEF s
<1>3. Idle(s) /\ s.scheduled = "" /\ isDisconnected(s)
  BY <1>1 DEF Unstarted, Tokens, Idle, isDisconnected
<1>4. Good(client') /\ Linked(s, client')
  BY <1>1, <1>2, <1>3, ShakesAgain
<1>5. QED BY <1>1, <1>3, <1>4 DEF Linked, Turns, Unstarted

LEMMA PublishTurns ==
  ASSUME Good(client), calls \in Calls, limits \in Limits, Publish
  PROVE  Turns(client, client')
<1> DEFINE n == calls.publish + 1
           length == IF n \in limits.tooLong THEN MaxLength + 1 ELSE 1
           m == [Message("publish", n, 0) EXCEPT !.length = length]
<1>1. client' = queueMessage(client, m)
  BY DEF Publish
<1>2. m \in AppMessages
  <2>1. n \in Nat /\ length \in Nat \ {0}
    BY MaxLengthAssumption DEF Calls
  <2> HIDE DEF n, length
  <2>2. QED BY <2>1 DEF Message, AppMessages, Messages, Channels, App
<1> HIDE DEF m
<1>3. QED BY <1>1, <1>2, QueuesMessage DEF Turns, Linked, isDisconnected

LEMMA SubscribeTurns ==
  ASSUME Good(client), Subscribe
  PROVE  /\ Good(client') /\ ~isDisconnected(client) /\ client'.status = client.status
         /\ client'.clientId = client.clientId /\ client'.connected = client.connected
         /\ client'.subs = client.subs + 1
<1> DEFINE added == [client EXCEPT !.subs = @ + 1]
           m == Message("subscribe", 0, 0)
<1>0. client \in Clients
  BY DEF Good
<1>1. /\ added \in Clients /\ Tokens(added) = Tokens(client)
      /\ added.clientId = client.clientId /\ added.status = client.status
      /\ added.internalBatch = client.internalBatch
      /\ added.scheduled \in {client.scheduled, ""}
      /\ added.transports = client.transports /\ added.connected = client.connected
      /\ added.subs = client.subs + 1
  <2> DEFINE k == client.subs + 1
  <2>1. k \in Nat
    <3>1. client.subs \in Nat
      BY <1>0 DEF Clients
    <3>2. QED BY <3>1
  <2>2. added = [client EXCEPT !.subs = k]
    BY <1>0 DEF Clients
  <2> HIDE DEF k
  <2>3. /\ [client EXCEPT !.subs = k] \in Clients
        /\ Tokens([client EXCEPT !.subs = k]) = Tokens(client)
        /\ [client EXCEPT !.subs = k].subs = k
        /\ [client EXCEPT !.subs = k].clientId = client.clientId
        /\ [client EXCEPT !.subs = k].status = client.status
        /\ [client EXCEPT !.subs = k].internalBatch = client.internalBatch
        /\ [client EXCEPT !.subs = k].scheduled = client.scheduled
        /\ [client EXCEPT !.subs = k].transports = client.transports
        /\ [client EXCEPT !.subs = k].connected = client.connected
    BY <1>0, <2>1 DEF Clients, Tokens
  <2> HIDE DEF added
  <2>4. QED BY <2>2, <2>3 DEF k
<1>2. m \in AppMessages
  BY DEF Message, AppMessages, Messages, Channels, App
<1>3. client' \in {added, queueMessage(added, m)} /\ ~isDisconnected(client)
  BY DEF Subscribe
<1> HIDE DEF added, m
<1>4. Good(added)
  BY <1>1, GoodLike
<1>5. QED BY <1>1, <1>2, <1>3, <1>4, QueuesMessage, ZenonT(60)

LEMMA DisconnectTurns ==
  ASSUME Good(client), Disconnect
  PROVE  Turns(client, client')
<1>0. client \in Clients /\ client' = disconnectCall(client)
  BY DEF Good, Disconnect
<1>1. Good(client') /\ Quietly(client, client')
  BY <1>0, Disconnects, DisconnectsGood
<1>2. QED BY <1>1, SettledIsLinked DEF Quietly, Turns

-----------------------------------------------------------------------------
\* A step of the link, or none.
LinkStep == Link!LinkNext \/ UNCHANGED Link!linkVars

LEMMA TurnIsLinkStep ==
  ASSUME Good(client), Turns(client, client')
  PROVE  LinkStep
<1> DEFINE closed == isDisconnected(client)
           after == isDisconnected(client')
<1>0. /\ client.connected \in BOOLEAN /\ client'.connected \in BOOLEAN
      /\ closed \in BOOLEAN /\ after \in BOOLEAN
  <2>1. client \in Clients /\ client' \in Clients
    BY DEF Turns, Good
  <2>2. \A s \in Clients : s.connected \in BOOLEAN
    BY DEF Clients
  <2>3. closed \in BOOLEAN /\ after \in BOOLEAN
    BY DEF isDisconnected
  <2> HIDE DEF closed, after
  <2>4. QED BY <2>1, <2>2, <2>3
<1>1. isDisconnected(client)' = after
  BY DEF isDisconnected
<1>2. CASE /\ client'.clientId = client.clientId /\ (after <=> closed)
           /\ client'.subs = client.subs /\ client'.connected = client.connected
  <2>1. after = closed
    BY <1>0, <1>2
  <2> HIDE DEF after, closed
  <2>2. QED BY <1>1, <1>2, <2>1 DEF LinkStep, Link!linkVars, closed
<1>3. CASE /\ ~after /\ client'.clientId = 0 /\ client'.subs = 0
           /\ client'.connected = client.connected
  <2>1. after = FALSE /\ (client'.clientId # 0) = FALSE
    BY <1>0, <1>3
  <2> HIDE DEF after
  <2>2. Link!Forget
    BY <1>1, <1>3, <2>1 DEF Link!Forget
  <2>3. QED BY <2>2 DEF LinkStep, Link!LinkNext
<1>4. CASE /\ client.clientId = 0 /\ client'.clientId # 0 /\ (after <=> closed)
           /\ client'.subs = client.subs /\ client'.connected = client.connected
  <2>1. after = closed /\ (client'.clientId # 0) = TRUE
    BY <1>0, <1>4
  <2> HIDE DEF after, closed
  <2>2. Link!Establish
    BY <1>1, <1>4, <2>1 DEF Link!Establish, closed
  <2>3. QED BY <2>2 DEF LinkStep, Link!LinkNext
<1>5. CASE /\ client.clientId # 0 \/ closed
           /\ client'.clientId = client.clientId /\ (after <=> closed)
           /\ client'.subs = client.subs
  <2>1. after = closed
    BY <1>0, <1>5
  <2>2. client.clientId # 0 \/ isDisconnected(client)
    BY <1>5
  <2> HIDE DEF after, closed
  <2>3. Link!Polled(client'.connected)
    BY <1>1, <1>5, <2>1, <2>2 DEF Link!Polled, closed
  <2>4. QED BY <1>0, <2>3 DEF LinkStep, Link!LinkNext
<1>6. CASE /\ after /\ (client'.clientId # 0 => client.clientId # 0)
           /\ client'.subs = client.subs
           /\ client'.connected = client.connected \/ client.clientId # 0 \/ closed
  <2>1. after = TRUE /\ (client'.clientId # 0) \in {client.clientId # 0, FALSE}
    BY <1>0, <1>6
  <2>2. client'.connected \in
          (IF client.clientId # 0 \/ isDisconnected(client) THEN BOOLEAN ELSE {client.connected})
    BY <1>0, <1>6
  <2> HIDE DEF after, closed
  <2>3. Link!Close
    BY <1>1, <1>6, <2>1, <2>2 DEF Link!Close
  <2>4. QED BY <2>3 DEF LinkStep, Link!LinkNext
<1>7. Linked(client, client')
  BY DEF Turns
<1>8. QED BY <1>2, <1>3, <1>4, <1>5, <1>6, <1>7 DEF Linked

-----------------------------------------------------------------------------
\* The invariant is inductive, and every step is one of the link.

LEMMA ClientInvInit ==
  ASSUME Init
  PROVE  ClientInv
<1>1. client \in Clients
  <2>1. <<>> \in Seq(AppMessages) /\ <<>> \in Seq(Failures) /\ <<>> \in Seq(Envelopes)
    OBVIOUS
  <2>2. Unused \in Transports /\ "long-polling" \in Types
    BY <2>1, TypesAre DEF Unused, Transports
  <2>3. {} \in {v \in SUBSET UnderWay : IsFiniteSet(v)}
    BY FS_EmptySet
  <2>4. QED BY <2>1, <2>2, <2>3 DEF Init, Clients
<1>2. Unstarted(client)
  BY DEF Init, Unstarted, isDisconnected
<1>3. Good(client)
  BY <1>1, <1>2 DEF Unstarted, Good, OneTurn, Phase, Idle, Tokens
<1>4. server \in Servers
  <2>1. [session \in {} |-> <<>>] \in [{} -> Seq(Entries)]
    OBVIOUS
  <2>2. server \in [{} -> Seq(Entries)] /\ {} \in SUBSET Nat
    BY <2>1 DEF Init
  <2>3. QED BY <2>2 DEF Servers
<1>5. calls \in Calls /\ limits \in Limits
  BY DEF Init, Calls
<1>6. QED BY <1>2, <1>3, <1>4, <1>5 DEF ClientInv

LEMMA CallsGrow ==
  ASSUME calls \in Calls, NEW name \in {"init", "publish", "subscribe", "disconnect", "failure", "restart"},
         Count(name)
  PROVE  calls' \in Calls /\ calls'.init \in {calls.init, calls.init + 1}
         /\ (name # "init" => calls'.init = calls.init)
         /\ (name = "init" => calls'.init = calls.init + 1)
BY DEF Calls, Count

LEMMA EndsCount ==
  ASSUME calls \in Calls, NEW quit \in BOOLEAN,
         \/ calls' = [calls EXCEPT !.disconnect = IF quit THEN @ + 1 ELSE @]
         \/ calls' = [calls EXCEPT !.failure = @ + 1, !.disconnect = IF quit THEN @ + 1 ELSE @]
  PROVE  calls' \in Calls /\ calls'.init = calls.init
<1>1. /\ calls.disconnect \in Nat /\ calls.disconnect + 1 \in Nat
      /\ calls.failure + 1 \in Nat
  BY DEF Calls
<1>2. (IF quit THEN calls.disconnect + 1 ELSE calls.disconnect) \in Nat
  BY <1>1
<1> DEFINE d == IF quit THEN calls.disconnect + 1 ELSE calls.disconnect
           f == calls.failure + 1
<1>3. \/ calls' = [calls EXCEPT !.disconnect = d]
      \/ calls' = [calls EXCEPT !.failure = f, !.disconnect = d]
  OBVIOUS
<1>4. d \in Nat /\ f \in Nat
  BY <1>1, <1>2
<1> HIDE DEF d, f
<1>5. QED BY <1>3, <1>4 DEF Calls

LEMMA ClientInvNext ==
  ASSUME ClientInv, [Next]_vars
  PROVE  ClientInv' /\ LinkStep
<1>0. /\ Good(client) /\ server \in Servers /\ calls \in Calls /\ limits \in Limits
      /\ calls.init \in Nat /\ (calls.init = 0 => Unstarted(client))
  BY DEF ClientInv, Calls
<1>1. ASSUME Turns(client, client'), server' \in Servers, calls' \in Calls, limits' \in Limits,
             calls'.init # 0
      PROVE  ClientInv' /\ LinkStep
  <2>1. LinkStep
    BY <1>0, <1>1, TurnIsLinkStep
  <2>2. Good(client)'
    BY <1>1 DEF Turns
  <2>3. QED BY <1>1, <2>1, <2>2 DEF ClientInv
<1>2. ASSUME ~Unstarted(client) PROVE calls.init # 0
  BY <1>0, <1>2
<1>3. CASE Handshake
  <2>1. Unstarted(client) /\ server' = server /\ limits' = limits /\ Count("init")
    BY <1>0, <1>3 DEF Handshake
  <2>2. Turns(client, client')
    BY <1>0, <1>3, <2>1, HandshakeTurns
  <2>3. calls' \in Calls /\ calls'.init = calls.init + 1
    BY <1>0, <2>1, CallsGrow
  <2>4. calls'.init # 0
    BY <1>0, <2>3
  <2>5. QED BY <1>0, <1>1, <2>1, <2>2, <2>3, <2>4
<1>4. CASE Publish
  <2>1. ~Unstarted(client) /\ server' = server /\ limits' = limits /\ Count("publish")
    BY <1>4 DEF Publish, Unstarted
  <2>2. Turns(client, client')
    BY <1>0, <1>4, PublishTurns
  <2>3. calls' \in Calls /\ calls'.init = calls.init
    BY <1>0, <2>1, CallsGrow
  <2>4. QED BY <1>0, <1>1, <1>2, <2>1, <2>2, <2>3
<1>5. CASE Subscribe
  <2>1. ~Unstarted(client) /\ server' = server /\ limits' = limits /\ Count("subscribe")
    BY <1>5 DEF Subscribe, Unstarted
  <2>2. /\ Good(client') /\ ~isDisconnected(client) /\ client'.status = client.status
        /\ client'.clientId = client.clientId /\ client'.connected = client.connected
        /\ client'.subs = client.subs + 1
    BY <1>0, <1>5, SubscribeTurns
  <2>3. calls' \in Calls /\ calls'.init = calls.init
    BY <1>0, <2>1, CallsGrow
  <2>4. Link!Subscribed
    BY <2>2 DEF Link!Subscribed, isDisconnected
  <2>5. Good(client)'
    BY <2>2
  <2>6. QED BY <1>0, <1>2, <2>1, <2>3, <2>4, <2>5 DEF ClientInv, LinkStep, Link!LinkNext
<1>6. CASE Disconnect
  <2>1. ~Unstarted(client) /\ server' = server /\ limits' = limits /\ Count("disconnect")
    BY <1>6 DEF Disconnect, Unstarted
  <2>2. Turns(client, client')
    BY <1>0, <1>6, DisconnectTurns
  <2>3. calls' \in Calls /\ calls'.init = calls.init
    BY <1>0, <2>1, CallsGrow
  <2>4. QED BY <1>0, <1>1, <1>2, <2>1, <2>2, <2>3
<1>7. CASE Timer
  <2>1. ~Unstarted(client) /\ server' = server /\ limits' = limits /\ calls' = calls
    BY <1>7 DEF Timer, Unstarted
  <2>2. Turns(client, client')
    BY <1>0, <1>7, TimerTurns
  <2>3. QED BY <1>0, <1>1, <1>2, <2>1, <2>2
<1>8. CASE Deferred
  <2>1. ~Unstarted(client) /\ server' = server /\ limits' = limits /\ calls' = calls
    BY <1>8 DEF Deferred, Unstarted
  <2>2. Turns(client, client')
    BY <1>0, <1>8, DeferredTurns
  <2>3. QED BY <1>0, <1>1, <1>2, <2>1, <2>2
<1>9. ASSUME NEW w \in client.wire, NEW quit \in BOOLEAN,
             Respond(w, quit) \/ Fail(w, quit) \/ Expire(w, quit)
      PROVE  ClientInv' /\ LinkStep
  <2>1. /\ ~Unstarted(client) /\ server' = server /\ limits' = limits
        /\ \/ calls' = [calls EXCEPT !.disconnect = IF quit THEN @ + 1 ELSE @]
           \/ calls' = [calls EXCEPT !.failure = @ + 1, !.disconnect = IF quit THEN @ + 1 ELSE @]
    BY <1>9 DEF Respond, Fail, Expire, Failed, Unstarted
  <2>2. Turns(client, client')
    BY <1>0, <1>9, RespondTurns, FailTurns, ExpireTurns
  <2>3. calls' \in Calls /\ calls'.init = calls.init
    BY <1>0, <2>1, EndsCount
  <2>4. QED BY <1>0, <1>1, <1>2, <2>1, <2>2, <2>3
<1>10. ASSUME NEW w \in client.wire, Late(w)
       PROVE  ClientInv' /\ LinkStep
  <2>1. ~Unstarted(client) /\ server' = server /\ limits' = limits /\ calls' = calls
    BY <1>10 DEF Late, Unstarted
  <2>2. Turns(client, client')
    BY <1>0, <1>10, LateTurns
  <2>3. QED BY <1>0, <1>1, <1>2, <2>1, <2>2
<1>11. ASSUME NEW w \in client.wire, NEW advice \in Given, Serve(w, advice)
       PROVE  ClientInv' /\ LinkStep
  <2>1. ~Unstarted(client) /\ limits' = limits /\ calls' = calls
    BY <1>11 DEF Serve, Unstarted
  <2>2. Turns(client, client') /\ server' \in Servers
    BY <1>0, <1>11, ServeTurns
  <2>3. QED BY <1>0, <1>1, <1>2, <2>1, <2>2
<1>12. CASE Restart
  <2>1. client' = client /\ limits' = limits /\ Count("restart")
        /\ server' = [session \in {} |-> <<>>]
    BY <1>12 DEF Restart
  <2>2. server' \in Servers
    <3>1. [session \in {} |-> <<>>] \in [{} -> Seq(Entries)] /\ {} \in SUBSET Nat
      OBVIOUS
    <3>2. QED BY <2>1, <3>1 DEF Servers
  <2>3. calls' \in Calls /\ calls'.init = calls.init
    BY <1>0, <2>1, CallsGrow
  <2>4. LinkStep
    BY <2>1 DEF LinkStep, Link!linkVars, isDisconnected
  <2>5. ClientInv'
    BY <1>0, <2>1, <2>2, <2>3 DEF ClientInv
  <2>6. QED BY <2>4, <2>5
<1>13. CASE UNCHANGED vars
  <2>1. client' = client /\ server' = server /\ calls' = calls /\ limits' = limits
    BY <1>13 DEF vars
  <2>2. LinkStep
    BY <2>1 DEF LinkStep, Link!linkVars, isDisconnected
  <2>3. ClientInv'
    BY <1>0, <2>1 DEF ClientInv
  <2>4. QED BY <2>2, <2>3
<1>14. QED BY <1>3, <1>4, <1>5, <1>6, <1>7, <1>8, <1>9, <1>10, <1>11, <1>12, <1>13 DEF Next, Given

-----------------------------------------------------------------------------
\* Types, and one turn at a time: the client waits for one long poll, one handshake or
\* one timer, no other (_metaConnectSend would throw, cometd.js:525); a long poll is of
\* the session, and nothing is under way while the client handshakes, unless the page
\* has disconnected it.
THEOREM OneTurnAtATime == Spec => []ClientInv
<1>1. Init => ClientInv
  BY ClientInvInit
<1>2. ClientInv /\ [Next]_vars => ClientInv'
  BY ClientInvNext
<1>3. QED BY <1>1, <1>2, PTL DEF Spec

\* A subscription is lost only with its session, a session only to a handshake, and no
\* long poll ends but one of the session the client has: for every number of connections,
\* length of a URL and bound on the calls, whatever is lost and however often the server
\* restarts.
THEOREM ClientImplementsLink == Spec => ImplementsLink
<1>1. Init => Link!LinkInit
  <2> SUFFICES ASSUME Init PROVE Link!LinkInit
    OBVIOUS
  <2>1. /\ client.status = "disconnected" /\ client.clientId = 0
        /\ client.connected = FALSE /\ client.subs = 0
    BY DEF Init
  <2>2. isDisconnected(client) = TRUE
    BY <2>1 DEF isDisconnected
  <2>3. (client.clientId # 0) = FALSE
    BY <2>1
  <2>4. QED BY <2>1, <2>2, <2>3 DEF Link!LinkInit
<1>2. ClientInv /\ [Next]_vars => [Link!LinkNext]_(Link!linkVars)
  BY ClientInvNext DEF LinkStep
<1>3. QED BY <1>1, <1>2, OneTurnAtATime, PTL DEF Spec, ImplementsLink, Link!LinkSpec

-----------------------------------------------------------------------------
\* The order of the publishes, with two connections. One request at a time is under way
\* beside the long poll, and what waits goes behind it. P is what a session has seen or
\* may yet be sent too late, N the number of the last publish: Ordered(s, P, N) says that
\* all that is under way or waits comes behind P, in order.

Session(ms) == ms[1].clientId
IsApp(ms) == Kind(ms) \in App
Pub(m) == m.channel = "publish"

\* p goes before q, or q has lost its place.
Before(p, q) == p.n < q.n \/ q.displaced
Ahead(ms, ls) ==
  Session(ms) = Session(ls) =>
    \A i \in DOMAIN ms, j \in DOMAIN ls : Pub(ms[i]) /\ Pub(ls[j]) => Before(ms[i], ls[j])

\* A batch is of one session and in order, behind what that session has seen: P, pairs of
\* a session and a number. No number is above N.
Fine(ms, P, N) ==
  \A j \in DOMAIN ms :
    /\ ms[j].clientId = Session(ms)
    /\ Pub(ms[j]) =>
         /\ ms[j].n <= N
         /\ \A i \in 1 .. j - 1 : Pub(ms[i]) => Before(ms[i], ms[j])
         /\ \A p \in P : p[1] = Session(ms) => p[2] < ms[j].n \/ ms[j].displaced

Envs(s, t) == s.transports[t].envelopes
Live(s) == {w \in s.wire : ~w.expired /\ IsApp(w.messages)}
Known(s, w) == w.id \in s.transports[w.type].requests
NoApps(s) ==
  /\ \A w \in Live(s) : ~Known(s, w)
  /\ \A t \in Types : \A i \in DOMAIN Envs(s, t) : ~IsApp(Envs(s, t)[i].messages)

\* A request, an envelope and a failure have ids of their own.
Ids(s) ==
  /\ \A v, w \in s.wire : v.type = w.type /\ v.id = w.id => v = w
  /\ \A w \in s.wire, i \in DOMAIN s.deferred :
       s.deferred[i].type = w.type => s.deferred[i].id # w.id
  /\ \A w \in s.wire : \A i \in DOMAIN Envs(s, w.type) : Envs(s, w.type)[i].id # w.id

\* A transport knows one request.
Slot(s) == \A t \in Types : \A a, b \in s.transports[t].requests : a = b

\* What waits for no request has lost its place.
Lost(ms) == \A j \in DOMAIN ms : Pub(ms[j]) => ms[j].displaced
Waited(s) ==
  \A t \in Types : s.transports[t].requests = {} =>
    \A i \in DOMAIN Envs(s, t) : IsApp(Envs(s, t)[i].messages) => Lost(Envs(s, t)[i].messages)

Sorted(q, N) ==
  \A j \in DOMAIN q : Pub(q[j]) =>
    q[j].n <= N /\ \A i \in 1 .. j - 1 : Pub(q[i]) => q[i].n < q[j].n

\* P has what a request that has expired may still bring.
Spent(w, P) ==
  \A i \in DOMAIN w.messages :
    Pub(w.messages[i]) => <<w.messages[i].clientId, w.messages[i].n>> \in P

Batched(s, P, N) ==
  /\ \A w \in s.wire : w.expired /\ ~w.served /\ IsApp(w.messages) => Spent(w, P)
  /\ \A t \in Types : \A i \in DOMAIN Envs(s, t) :
       IsApp(Envs(s, t)[i].messages) => Fine(Envs(s, t)[i].messages, P, N)
  /\ \A w \in Live(s) : ~w.served => Fine(w.messages, P, N)
  /\ \A p \in P : p[2] <= N
  /\ Sorted(s.queue, N)

\* What is under way goes before what waits, in turn.
Turn(s) ==
  \A t \in Types : \A j \in DOMAIN Envs(s, t) : IsApp(Envs(s, t)[j].messages) =>
    /\ \A i \in 1 .. j - 1 :
         IsApp(Envs(s, t)[i].messages) => Ahead(Envs(s, t)[i].messages, Envs(s, t)[j].messages)
    /\ \A w \in Live(s) : ~w.served => Ahead(w.messages, Envs(s, t)[j].messages)

\* One request of a session is under way.
One(s) == \A v, w \in Live(s) : Session(v.messages) = Session(w.messages) => v = w

\* A request that its transport has forgotten is of a session that is over.
Over(s, k) == s.internalBatch \/ s.clientId = 0 \/ k # s.clientId
Strays(s) ==
  \A w \in Live(s) : ~Known(s, w) =>
    /\ Over(s, Session(w.messages))
    /\ \A t \in Types : \A i \in DOMAIN Envs(s, t) :
         IsApp(Envs(s, t)[i].messages) => Session(Envs(s, t)[i].messages) # Session(w.messages)

\* Only the client's transport has publishes and subscriptions to send.
Place(s) ==
  /\ \A w \in Live(s) : Known(s, w) => w.type = s.transport
  /\ \A t \in Types : t # s.transport =>
       \A i \in DOMAIN Envs(s, t) : ~IsApp(Envs(s, t)[i].messages)

\* None has while the client handshakes.
Batch(s) == s.internalBatch => NoApps(s)

\* An envelope that goes in pieces waits only behind the message that disconnects.
Long(ms) == Len(ms) > 1 /\ ~fits(ms)
LongOnes(s) ==
  \A t \in Types : \A i \in DOMAIN Envs(s, t) : Long(Envs(s, t)[i].messages) =>
    /\ isDisconnected(s)
    /\ \A j \in DOMAIN Envs(s, t) \ {i} : ~IsApp(Envs(s, t)[j].messages)

Ready(s) == ~isDisconnected(s) /\ ~s.internalBatch => s.clientId # 0

\* Nothing is of the session that the reply to a handshake brings.
Untouched(s, P, k) ==
  /\ \A v \in Live(s) : Session(v.messages) # k
  /\ \A p \in P : p[1] # k
Fresh(s, P) ==
  \A w \in Tokens(s) : Kind(w.messages) = "handshake" /\ w.served =>
    Untouched(s, P, w.replies[1].clientId)

Ordered(s, P, N) ==
  /\ Ids(s) /\ Slot(s) /\ Batched(s, P, N) /\ Turn(s) /\ One(s) /\ Strays(s) /\ Place(s)
  /\ Batch(s) /\ LongOnes(s) /\ Ready(s) /\ Fresh(s, P)

\* r has no more to send than s.
Empty(s, t) == s.transports[t].requests = {} /\ Envs(s, t) = <<>>
Shrinks(s, r) ==
  /\ r.wire \subseteq s.wire /\ r.queue \in {s.queue, <<>>}
  /\ \A i \in DOMAIN r.deferred : \E k \in DOMAIN s.deferred : r.deferred[i] = s.deferred[k]
  /\ \A t \in Types :
       \/ r.transports[t].requests = s.transports[t].requests /\ Envs(r, t) = Envs(s, t)
       \/ Empty(r, t)
  /\ r.transport = s.transport \/ NoApps(r)
  /\ isDisconnected(s) => isDisconnected(r) \/ \A t \in Types : Empty(r, t)
  /\ r.internalBatch => s.internalBatch \/ \A t \in Types : Empty(r, t)

LEMMA ShrinksOrdered ==
  ASSUME NEW s \in Clients, NEW r \in Clients, NEW P, NEW N, Ordered(s, P, N), Shrinks(s, r),
         Ready(r), \A w \in Live(r) : ~Known(r, w) => Over(r, Session(w.messages))
  PROVE  Ordered(r, P, N) /\ (Waited(s) => Waited(r))
<1>0. /\ Live(r) \subseteq Live(s) /\ Tokens(r) \subseteq Tokens(s)
      /\ \A w \in Live(s) : w.type \in Types
  BY DEF Live, Tokens, Shrinks, Clients, UnderWay, Requests
<1>1. Ids(r)
  <2>1. \A w \in r.wire : w.type \in Types
    BY DEF Clients, UnderWay, Requests
  <2> QED BY <2>1 DEF Ids, Shrinks, Ordered, Empty
<1>2. Slot(r)
  BY DEF Slot, Shrinks, Ordered, Empty
<1>3. Batched(r, P, N)
  <2>1. Sorted(r.queue, N)
    BY DEF Sorted, Batched, Shrinks, Ordered
  <2> QED BY <1>0, <2>1 DEF Batched, Shrinks, Ordered, Empty
<1>4. Turn(r)
  BY <1>0 DEF Turn, Shrinks, Ordered, Empty
<1>5. One(r)
  BY <1>0 DEF One, Ordered
<1>6. Strays(r)
  <2> SUFFICES ASSUME NEW w \in Live(r), ~Known(r, w), NEW t \in Types, NEW i \in DOMAIN Envs(r, t),
                      IsApp(Envs(r, t)[i].messages)
               PROVE  Session(Envs(r, t)[i].messages) # Session(w.messages)
    BY DEF Strays
  <2>1. Envs(r, t) = Envs(s, t) /\ r.transports[t].requests = s.transports[t].requests
    BY DEF Shrinks, Empty
  <2>2. t = s.transport
    BY <2>1 DEF Ordered, Place
  <2>3. ~Known(s, w)
    <3> SUFFICES ASSUME Known(s, w) PROVE FALSE
      OBVIOUS
    <3>1. w.type = t
      BY <1>0, <2>2 DEF Ordered, Place
    <3> QED BY <2>1, <3>1 DEF Known
  <2> QED BY <1>0, <2>1, <2>3 DEF Ordered, Strays
<1>7. NoApps(s) => NoApps(r)
  BY <1>0 DEF NoApps, Shrinks, Empty, Known
<1>8. Place(r)
  <2>1. CASE NoApps(r)
    BY <2>1 DEF Place, NoApps
  <2>2. CASE r.transport = s.transport
    BY <1>0, <2>2 DEF Place, Shrinks, Ordered, Empty, Known
  <2> QED BY <2>1, <2>2 DEF Shrinks
<1>9. Batch(r)
  <2>1. (\A t \in Types : Empty(r, t)) => NoApps(r)
    BY <1>0 DEF NoApps, Empty, Known
  <2> QED BY <1>7, <2>1 DEF Batch, Shrinks, Ordered
<1>10. LongOnes(r)
  BY DEF LongOnes, Shrinks, Ordered, Empty
<1>11. Fresh(r, P)
  BY <1>0 DEF Fresh, Ordered, Untouched
<1>12. Waited(s) => Waited(r)
  BY DEF Waited, Shrinks, Empty
<1> QED BY <1>1, <1>2, <1>3, <1>4, <1>5, <1>6, <1>8, <1>9, <1>10, <1>11, <1>12 DEF Ordered

-----------------------------------------------------------------------------
LEMMA RoomIs ==
  ASSUME MaxConnections = 2, NEW s \in Clients, NEW type \in Types, Slot(s)
  PROVE  hasRoom(s, type) <=> s.transports[type].requests = {}
<1> DEFINE S == s.transports[type].requests
<1>1. \A a, b \in S : a = b
  BY DEF Slot
<1>2. hasRoom(s, type) <=> Cardinality(S) < 1
  BY DEF hasRoom
<1>3. Cardinality(S) < 1 <=> S = {}
  <2> HIDE DEF S
  <2>1. CASE S = {}
    BY <2>1, FS_EmptySet
  <2>2. CASE S # {}
    <3>1. PICK x \in S : S = {x}
      BY <1>1, <2>2
    <3>2. Cardinality(S) = 1
      BY <3>1, FS_Singleton
    <3> QED BY <2>2, <3>2
  <2> QED BY <2>1, <2>2
<1> QED BY <1>2, <1>3

\* An id is new to a transport.
New(s, type, id) ==
  /\ \A v \in s.wire : v.type = type => v.id # id
  /\ \A i \in DOMAIN Envs(s, type) : Envs(s, type)[i].id # id
  /\ \A i \in DOMAIN s.deferred : s.deferred[i].id # id

LEMMA NextIdNew ==
  ASSUME NEW s \in Clients, NEW type \in Types
  PROVE  New(s, type, nextId(s, type)) /\ nextId(s, type) \in Nat
BY NextIdIsNew DEF New, UsedIds, Envs

\* A message that is no publish and no subscription goes.
LEMMA MetaGoes ==
  ASSUME NEW s \in Clients, NEW r \in Clients, NEW P, NEW N, Ordered(s, P, N), Same(s, r),
         NEW type \in Types, NEW id, New(s, type, id), NEW ms \in MetaBatches,
         NEW w, w.type = type, w.id = id, w.messages = ms, ~w.served,
         r.wire = s.wire \cup {w}, r.deferred = s.deferred,
         \A t \in Types : Envs(r, t) = Envs(s, t),
         \A t \in Types :
           \/ r.transports[t].requests = s.transports[t].requests
           \/ t = type /\ s.transports[t].requests = {} /\ r.transports[t].requests = {id}
  PROVE  Ordered(r, P, N)
<1>0. /\ ~IsApp(w.messages) /\ Live(r) = Live(s)
      /\ \A v \in Live(s) : Known(r, v) <=> Known(s, v)
      /\ isDisconnected(r) <=> isDisconnected(s)
  <2>1. ~IsApp(w.messages)
    BY DEF IsApp, MetaBatches, Kind
  <2>2. \A v \in s.wire : v.type \in Types
    BY DEF Clients, UnderWay, Requests
  <2>3. Live(r) = Live(s)
    BY <2>1 DEF Live
  <2>4. \A v \in Live(s) : Known(r, v) <=> Known(s, v)
    BY <2>2 DEF Known, Live, New
  <2> QED BY <2>1, <2>3, <2>4 DEF Same, isDisconnected
<1>1. Ids(r)
  <2>1. \A v \in s.wire : v.type = type => v.id # id
    BY DEF New
  <2>2. \A u, v \in r.wire : u.type = v.type /\ u.id = v.id => u = v
    BY <2>1 DEF Ids, Ordered
  <2>3. \A v \in r.wire, i \in DOMAIN r.deferred :
          r.deferred[i].type = v.type => r.deferred[i].id # v.id
    BY DEF Ids, New, Ordered
  <2>4. \A v \in r.wire : \A i \in DOMAIN Envs(r, v.type) : Envs(r, v.type)[i].id # v.id
    <3>1. \A v \in s.wire : v.type \in Types
      BY DEF Clients, UnderWay, Requests
    <3> QED BY <3>1 DEF Ids, New, Ordered
  <2> QED BY <2>2, <2>3, <2>4 DEF Ids
<1>2. Slot(r)
  BY DEF Slot, Ordered
<1>3. Batched(r, P, N)
  BY <1>0 DEF Batched, Ordered, Same
<1>4. Turn(r)
  BY <1>0 DEF Turn, Ordered
<1>5. One(r)
  BY <1>0 DEF One, Ordered
<1>6. Strays(r)
  BY <1>0 DEF Strays, Ordered, Same, Over
<1>8. Place(r)
  BY <1>0 DEF Place, Ordered, Same
<1>9. Batch(r)
  BY <1>0 DEF Batch, Ordered, Same, NoApps
<1>10. LongOnes(r)
  BY <1>0 DEF LongOnes, Ordered
<1>11. Fresh(r, P)
  BY <1>0 DEF Fresh, Ordered, Untouched, Tokens
<1>12. Ready(r)
  BY <1>0 DEF Ready, Ordered, Same
<1> QED BY <1>1, <1>2, <1>3, <1>4, <1>5, <1>6, <1>8, <1>9, <1>10, <1>11, <1>12 DEF Ordered

\* Such a message waits.
LEMMA MetaWaits ==
  ASSUME NEW s \in Clients, NEW r \in Clients, NEW P, NEW N, Ordered(s, P, N), Same(s, r),
         NEW type \in Types, NEW id, New(s, type, id), NEW ms \in MetaBatches,
         r.wire = s.wire, r.deferred = s.deferred, s.transports[type].requests # {},
         Envs(r, type) = Append(Envs(s, type), [id |-> id, messages |-> ms]),
         \A t \in Types : r.transports[t].requests = s.transports[t].requests,
         \A t \in Types \ {type} : Envs(r, t) = Envs(s, t)
  PROVE  Ordered(r, P, N)
<1> DEFINE q == Envs(s, type)
           n == Len(q)
           e == [id |-> id, messages |-> ms]
<1>0. /\ n \in Nat /\ DOMAIN q = 1 .. n /\ DOMAIN Envs(r, type) = 1 .. n + 1
      /\ \A i \in 1 .. n : Envs(r, type)[i] = q[i]
      /\ Envs(r, type)[n + 1] = e
  <2>1. q \in Seq(Envelopes)
    BY EnvelopesOf DEF Envs
  <2>2. Envs(r, type) = Append(q, e)
    OBVIOUS
  <2> HIDE DEF q, e
  <2> QED BY <2>1, <2>2
<1>a. /\ ~IsApp(ms) /\ Len(ms) = 1
  BY DEF IsApp, MetaBatches, Kind
<1>b. /\ Live(r) = Live(s)
      /\ \A v \in Live(s) : Known(r, v) <=> Known(s, v)
      /\ isDisconnected(r) <=> isDisconnected(s)
      /\ Tokens(r) = Tokens(s)
  <2>2. \A v \in s.wire : v.type \in Types
    BY DEF Clients, UnderWay, Requests
  <2> QED BY <2>2 DEF Known, Live, Same, isDisconnected, Tokens
\* what waits in r
<1>c. \A t \in Types : \A i \in DOMAIN Envs(r, t) :
        \/ i \in DOMAIN Envs(s, t) /\ Envs(r, t)[i] = Envs(s, t)[i]
        \/ t = type /\ i = n + 1 /\ Envs(r, t)[i] = e
  BY <1>0
<1>d. e.id = id /\ e.messages = ms
  OBVIOUS
<1> HIDE DEF q, n, e
<1>1. Ids(r)
  <2>2. \A v \in s.wire : v.type \in Types
    BY DEF Clients, UnderWay, Requests
  <2> QED BY <1>c, <1>d, <2>2 DEF Ids, New, Ordered
<1>2. Slot(r)
  BY DEF Slot, Ordered
<1>3. Batched(r, P, N)
  BY <1>a, <1>b, <1>c, <1>d DEF Batched, Ordered, Same
<1>4. Turn(r)
  <2> SUFFICES ASSUME NEW t \in Types, NEW j \in DOMAIN Envs(r, t), IsApp(Envs(r, t)[j].messages)
               PROVE  /\ \A i \in 1 .. j - 1 : IsApp(Envs(r, t)[i].messages) =>
                           Ahead(Envs(r, t)[i].messages, Envs(r, t)[j].messages)
                      /\ \A w \in Live(r) : ~w.served => Ahead(w.messages, Envs(r, t)[j].messages)
    BY DEF Turn
  <2>1. j \in DOMAIN Envs(s, t) /\ Envs(r, t)[j] = Envs(s, t)[j]
    BY <1>a, <1>c, <1>d
  <2>2. \A i \in 1 .. j - 1 : Envs(r, t)[i] = Envs(s, t)[i]
    <3>1. CASE t = type
      BY <1>0, <2>1, <3>1 DEF q
    <3>2. CASE t # type
      BY <3>2
    <3> QED BY <3>1, <3>2
  <2> QED BY <1>b, <2>1, <2>2 DEF Turn, Ordered
<1>5. One(r)
  BY <1>b DEF One, Ordered
<1>6. Strays(r)
  BY <1>a, <1>b, <1>c, <1>d DEF Strays, Ordered, Same, Over
<1>8. Place(r)
  BY <1>a, <1>b, <1>c, <1>d DEF Place, Ordered, Same
<1>9. Batch(r)
  BY <1>a, <1>b, <1>c, <1>d DEF Batch, Ordered, Same, NoApps
<1>10. LongOnes(r)
  <2> SUFFICES ASSUME NEW t \in Types, NEW i \in DOMAIN Envs(r, t), Long(Envs(r, t)[i].messages)
               PROVE  /\ isDisconnected(r)
                      /\ \A j \in DOMAIN Envs(r, t) \ {i} : ~IsApp(Envs(r, t)[j].messages)
    BY DEF LongOnes
  <2>1. ~Long(ms)
    BY <1>a DEF Long
  <2>2. i \in DOMAIN Envs(s, t) /\ Envs(r, t)[i] = Envs(s, t)[i]
    BY <1>c, <1>d, <2>1
  <2>3. /\ isDisconnected(s)
        /\ \A j \in DOMAIN Envs(s, t) \ {i} : ~IsApp(Envs(s, t)[j].messages)
    BY <2>2 DEF LongOnes, Ordered
  <2> QED BY <1>a, <1>b, <1>c, <1>d, <2>3
<1>11. Fresh(r, P)
  BY <1>b DEF Fresh, Ordered, Untouched
<1>12. Ready(r)
  BY <1>b DEF Ready, Ordered, Same
<1> QED BY <1>1, <1>2, <1>3, <1>4, <1>5, <1>6, <1>8, <1>9, <1>10, <1>11, <1>12 DEF Ordered

-----------------------------------------------------------------------------
\* No handshake is under way, and nothing that r knows of is of this session.
HandshakeOver(s) == ~s.internalBatch /\ \A v \in Tokens(s) : Kind(v.messages) # "handshake"
Current(s, k) == \A v \in Live(s) : ~Known(s, v) => Session(v.messages) # k
NoLong(s, type) == \A i \in DOMAIN Envs(s, type) : ~Long(Envs(s, type)[i].messages)

\* A batch of publishes and subscriptions goes.
LEMMA BatchGoes ==
  ASSUME NEW s \in Clients, NEW r \in Clients, NEW P, NEW N, Ordered(s, P, N), Same(s, r),
         NEW id, New(s, s.transport, id), NEW ms \in AppBatches,
         NEW w, w.type = s.transport, w.id = id, w.messages = ms, ~w.served, ~w.expired,
         r.wire = s.wire \cup {w}, r.deferred = s.deferred,
         \A t \in Types : Envs(r, t) = Envs(s, t),
         s.transports[s.transport].requests = {}, r.transports[s.transport].requests = {id},
         \A t \in Types \ {s.transport} : r.transports[t].requests = s.transports[t].requests,
         HandshakeOver(s), Fine(ms, P, N), Current(s, Session(ms)),
         \A i \in DOMAIN Envs(s, s.transport) :
           IsApp(Envs(s, s.transport)[i].messages) => Ahead(ms, Envs(s, s.transport)[i].messages)
  PROVE  Ordered(r, P, N)
<1> DEFINE type == s.transport
<1>t. type \in Types
  BY DEF Clients
<1>0. /\ IsApp(ms) /\ Known(r, w) /\ Live(r) \subseteq Live(s) \cup {w}
      /\ \A v \in Live(s) : Known(r, v) <=> Known(s, v)
      /\ \A v \in Live(s) : v.type = type => ~Known(s, v)
      /\ isDisconnected(r) <=> isDisconnected(s)
  <2>1. IsApp(ms)
    BY AppBatchIs DEF IsApp
  <2>2. \A v \in s.wire : v.type \in Types
    BY DEF Clients, UnderWay, Requests
  <2>3. Live(r) \subseteq Live(s) \cup {w}
    BY <2>1 DEF Live
  <2>4. \A v \in Live(s) : Known(r, v) <=> Known(s, v)
    BY <2>2 DEF Known, Live, New
  <2>5. \A v \in Live(s) : v.type = type => ~Known(s, v)
    BY DEF Known
  <2>6. Known(r, w)
    BY DEF Known
  <2> QED BY <2>1, <2>3, <2>4, <2>5, <2>6 DEF Same, isDisconnected
<1>00. \A v \in Live(s) : Session(v.messages) # Session(ms)
  BY <1>0 DEF Ordered, Place, Current
<1>1. Ids(r)
  <2>1. \A v \in s.wire : v.type = type => v.id # id
    BY DEF New
  <2>2. \A u, v \in r.wire : u.type = v.type /\ u.id = v.id => u = v
    BY <2>1 DEF Ids, Ordered
  <2>3. \A v \in r.wire, i \in DOMAIN r.deferred :
          r.deferred[i].type = v.type => r.deferred[i].id # v.id
    BY DEF Ids, New, Ordered
  <2>4. \A v \in r.wire : \A i \in DOMAIN Envs(r, v.type) : Envs(r, v.type)[i].id # v.id
    <3>1. \A v \in s.wire : v.type \in Types
      BY DEF Clients, UnderWay, Requests
    <3> QED BY <1>t, <3>1 DEF Ids, New, Ordered
  <2> QED BY <2>2, <2>3, <2>4 DEF Ids
<1>2. Slot(r)
  BY <1>t DEF Slot, Ordered
<1>3. Batched(r, P, N)
  BY <1>0 DEF Batched, Ordered, Same
<1>4. Turn(r)
  <2> SUFFICES ASSUME NEW t \in Types, NEW j \in DOMAIN Envs(r, t), IsApp(Envs(r, t)[j].messages)
               PROVE  /\ \A i \in 1 .. j - 1 : IsApp(Envs(r, t)[i].messages) =>
                           Ahead(Envs(r, t)[i].messages, Envs(r, t)[j].messages)
                      /\ \A v \in Live(r) : ~v.served => Ahead(v.messages, Envs(r, t)[j].messages)
    BY DEF Turn
  <2>1. t = type
    BY DEF Ordered, Place
  <2> QED BY <1>0, <2>1 DEF Turn, Ordered
<1>5. One(r)
  BY <1>0, <1>00 DEF One, Ordered
<1>6. Strays(r)
  BY <1>0 DEF Strays, Ordered, Same, Over
<1>8. Place(r)
  BY <1>0 DEF Place, Ordered, Same
<1>9. Batch(r)
  BY DEF Batch, Same, HandshakeOver
<1>10. LongOnes(r)
  BY <1>0 DEF LongOnes, Ordered
<1>11. Fresh(r, P)
  <2>1. ~Token(w)
    BY <1>0 DEF Token, IsApp, App
  <2>2. Tokens(r) \subseteq Tokens(s)
    BY <2>1 DEF Tokens
  <2> QED BY <2>2 DEF Fresh, HandshakeOver
<1>12. Ready(r)
  BY <1>0 DEF Ready, Ordered, Same
<1> QED BY <1>1, <1>2, <1>3, <1>4, <1>5, <1>6, <1>8, <1>9, <1>10, <1>11, <1>12 DEF Ordered

\* Such a batch waits.
LEMMA BatchWaits ==
  ASSUME NEW s \in Clients, NEW r \in Clients, NEW P, NEW N, Ordered(s, P, N), Same(s, r),
         NEW id, New(s, s.transport, id), NEW ms \in AppBatches,
         r.wire = s.wire, r.deferred = s.deferred, s.transports[s.transport].requests # {},
         Envs(r, s.transport) = Append(Envs(s, s.transport), [id |-> id, messages |-> ms]),
         \A t \in Types : r.transports[t].requests = s.transports[t].requests,
         \A t \in Types \ {s.transport} : Envs(r, t) = Envs(s, t),
         id \in Nat,
         HandshakeOver(s), Fine(ms, P, N), Current(s, Session(ms)), NoLong(s, s.transport),
         \A v \in Live(s) : ~v.served => Ahead(v.messages, ms),
         \A i \in DOMAIN Envs(s, s.transport) :
           /\ IsApp(Envs(s, s.transport)[i].messages) => Ahead(Envs(s, s.transport)[i].messages, ms)
           /\ Long(ms) => ~IsApp(Envs(s, s.transport)[i].messages),
         Long(ms) => isDisconnected(s)
  PROVE  Ordered(r, P, N)
<1> DEFINE type == s.transport
           q == Envs(s, type)
           n == Len(q)
           e == [id |-> id, messages |-> ms]
<1>t. type \in Types
  BY DEF Clients
<1>a. IsApp(ms)
  BY AppBatchIs DEF IsApp
<1>0. /\ n \in Nat /\ DOMAIN q = 1 .. n /\ DOMAIN Envs(r, type) = 1 .. n + 1
      /\ \A i \in 1 .. n : Envs(r, type)[i] = q[i]
      /\ Envs(r, type)[n + 1] = e
  <2>1. q \in Seq(Envelopes)
    BY <1>t, EnvelopesOf DEF Envs
  <2>2. Envs(r, type) = Append(q, e)
    OBVIOUS
  <2> HIDE DEF q, e
  <2> QED BY <2>1, <2>2, SMTT(60)
<1>b. /\ Live(r) = Live(s)
      /\ \A v \in Live(s) : Known(r, v) <=> Known(s, v)
      /\ isDisconnected(r) <=> isDisconnected(s)
      /\ Tokens(r) = Tokens(s)
  <2>2. \A v \in s.wire : v.type \in Types
    BY DEF Clients, UnderWay, Requests
  <2> QED BY <2>2 DEF Known, Live, Same, isDisconnected, Tokens
\* what waits in r
<1>c. \A t \in Types : \A i \in DOMAIN Envs(r, t) :
        \/ i \in DOMAIN Envs(s, t) /\ Envs(r, t)[i] = Envs(s, t)[i]
        \/ t = type /\ i = n + 1 /\ Envs(r, t)[i] = e
  BY <1>0
<1>d. e.id = id /\ e.messages = ms
  OBVIOUS
<1>e. \A i \in DOMAIN Envs(s, type) :
        /\ ~Long(Envs(s, type)[i].messages)
        /\ IsApp(Envs(s, type)[i].messages) => Ahead(Envs(s, type)[i].messages, ms)
        /\ Long(ms) => ~IsApp(Envs(s, type)[i].messages)
  BY DEF NoLong
<1>f. \A t \in Types \ {type} : Envs(r, t) = Envs(s, t)
  OBVIOUS
<1>g. New(s, type, id) /\ s.transports[type].requests # {} /\ r.transport = type /\ s.transport = type
  BY DEF Same
<1> HIDE DEF q, n, e, type
<1>1. Ids(r)
  <2>2. \A v \in s.wire : v.type \in Types
    BY DEF Clients, UnderWay, Requests
  <2> QED BY <1>c, <1>d, <1>g, <2>2 DEF Ids, New, Ordered
<1>2. Slot(r)
  BY <1>f, <1>g DEF Slot, Ordered
<1>3. Batched(r, P, N)
  BY <1>b, <1>c, <1>d DEF Batched, Ordered, Same
<1>4. Turn(r)
  <2> SUFFICES ASSUME NEW t \in Types, NEW j \in DOMAIN Envs(r, t), IsApp(Envs(r, t)[j].messages)
               PROVE  /\ \A i \in 1 .. j - 1 : IsApp(Envs(r, t)[i].messages) =>
                           Ahead(Envs(r, t)[i].messages, Envs(r, t)[j].messages)
                      /\ \A w \in Live(r) : ~w.served => Ahead(w.messages, Envs(r, t)[j].messages)
    BY DEF Turn
  <2>1. CASE j \in DOMAIN Envs(s, t) /\ Envs(r, t)[j] = Envs(s, t)[j]
    <3>2. \A i \in 1 .. j - 1 : Envs(r, t)[i] = Envs(s, t)[i]
      <4>1. CASE t = type
        BY <1>0, <2>1, <4>1 DEF q
      <4>2. CASE t # type
        BY <4>2, <1>f
      <4> QED BY <4>1, <4>2
    <3> QED BY <1>b, <2>1, <3>2 DEF Turn, Ordered
  <2>2. CASE t = type /\ j = n + 1 /\ Envs(r, t)[j] = e
    <3>1. \A i \in 1 .. j - 1 : i \in DOMAIN Envs(s, type) /\ Envs(r, t)[i] = Envs(s, type)[i]
      BY <1>0, <2>2 DEF q
    <3> QED BY <1>b, <1>d, <1>e, <2>2, <3>1
  <2> QED BY <2>1, <2>2, <1>c
<1>5. One(r)
  BY <1>b DEF One, Ordered
<1>6. Strays(r)
  BY <1>b, <1>c, <1>d DEF Strays, Ordered, Same, Over, Current
<1>8. Place(r)
  BY <1>b, <1>f, <1>g DEF Place, Ordered
<1>9. Batch(r)
  BY DEF Batch, Same, HandshakeOver
<1>10. LongOnes(r)
  <2> SUFFICES ASSUME NEW t \in Types, NEW i \in DOMAIN Envs(r, t), Long(Envs(r, t)[i].messages)
               PROVE  /\ isDisconnected(r)
                      /\ \A j \in DOMAIN Envs(r, t) \ {i} : ~IsApp(Envs(r, t)[j].messages)
    BY DEF LongOnes
  <2>1. CASE t # type
    <3>1. i \in DOMAIN Envs(s, t) /\ Envs(r, t) = Envs(s, t)
      BY <1>f, <2>1
    <3> QED BY <1>b, <3>1 DEF LongOnes, Ordered
  <2>2. CASE t = type
    <3>1. i = n + 1 /\ Long(ms)
      BY <1>c, <1>d, <1>e, <2>2
    <3>2. \A j \in DOMAIN Envs(r, t) \ {i} : j \in DOMAIN Envs(s, t) /\ Envs(r, t)[j] = Envs(s, t)[j]
      BY <1>c, <3>1
    <3> QED BY <1>b, <1>e, <2>2, <3>1, <3>2
  <2> QED BY <2>1, <2>2
<1>11. Fresh(r, P)
  BY <1>b DEF Fresh, HandshakeOver
<1>12. Ready(r)
  BY <1>b DEF Ready, Ordered, Same
<1> QED BY <1>1, <1>2, <1>3, <1>4, <1>5, <1>6, <1>8, <1>9, <1>10, <1>11, <1>12 DEF Ordered

-----------------------------------------------------------------------------
\* The same messages, some of which may have lost their place since.
Alike(ls, ms) ==
  /\ DOMAIN ls = DOMAIN ms /\ (Long(ls) => Long(ms))
  /\ \A j \in DOMAIN ms :
       /\ ls[j].channel = ms[j].channel /\ ls[j].n = ms[j].n /\ ls[j].clientId = ms[j].clientId
       /\ ms[j].displaced => ls[j].displaced

LEMMA FitsAlike ==
  ASSUME NEW ms, NEW ls, Len(ls) = Len(ms), Len(ms) \in Nat,
         \A i \in 1 .. Len(ms) : ls[i].length = ms[i].length
  PROVE  fits(ls) <=> fits(ms)
<1> DEFINE L(h) == [i \in 0 .. Len(ls) |-> IF i = 0 THEN 0 ELSE h[i - 1] + ls[i].length]
           M(h) == [i \in 0 .. Len(ms) |-> IF i = 0 THEN 0 ELSE h[i - 1] + ms[i].length]
<1>1. \A h : L(h) = M(h)
  <2> TAKE h
  <2>1. \A i \in 0 .. Len(ms) :
          (IF i = 0 THEN 0 ELSE h[i - 1] + ls[i].length) = (IF i = 0 THEN 0 ELSE h[i - 1] + ms[i].length)
    OBVIOUS
  <2> QED BY <2>1
<1>2. (CHOOSE h : h = L(h)) = (CHOOSE h : h = M(h))
  <2> HIDE DEF L, M
  <2> QED BY <1>1
<1>3. /\ fits(ls) <=> (CHOOSE h : h = L(h))[Len(ls)] <= MaxLength
      /\ fits(ms) <=> (CHOOSE h : h = M(h))[Len(ms)] <= MaxLength
  BY DEF fits
<1> QED BY <1>2, <1>3

LEMMA AlikeIs ==
  ASSUME NEW ms \in Batches
  PROVE  Alike(ms, ms) /\ Alike(Displaced(ms), ms) /\ Lost(Displaced(ms))
<1>1. /\ ms \in Seq(Messages) /\ Len(ms) \in Nat /\ DOMAIN ms = 1 .. Len(ms)
  BY BatchIs
<1>2. /\ DOMAIN Displaced(ms) = 1 .. Len(ms)
      /\ \A i \in 1 .. Len(ms) :
           /\ Displaced(ms)[i].channel = ms[i].channel /\ Displaced(ms)[i].n = ms[i].n
           /\ Displaced(ms)[i].clientId = ms[i].clientId /\ Displaced(ms)[i].displaced
           /\ Displaced(ms)[i].length = ms[i].length
  <2>1. \A m \in Messages :
          /\ [m EXCEPT !.displaced = TRUE] \in Messages
          /\ [m EXCEPT !.displaced = TRUE].channel = m.channel
          /\ [m EXCEPT !.displaced = TRUE].n = m.n
          /\ [m EXCEPT !.displaced = TRUE].clientId = m.clientId
          /\ [m EXCEPT !.displaced = TRUE].displaced = TRUE
          /\ [m EXCEPT !.displaced = TRUE].length = m.length
    BY DEF Messages
  <2>2. \A i \in 1 .. Len(ms) : ms[i] \in Messages
    BY <1>1
  <2> QED BY <1>1, <2>1, <2>2 DEF Displaced
<1>3. Len(Displaced(ms)) = Len(ms)
  <2>1. \A m \in Messages : [m EXCEPT !.displaced = TRUE] \in Messages
    BY DEF Messages
  <2>2. \A i \in 1 .. Len(ms) : ms[i] \in Messages
    BY <1>1
  <2> QED BY <1>1, <2>1, <2>2 DEF Displaced
<1>4. fits(Displaced(ms)) <=> fits(ms)
  BY <1>1, <1>2, <1>3, FitsAlike
<1> QED BY <1>1, <1>2, <1>3, <1>4 DEF Alike, Long, Lost

\* What holds of a batch holds of it as well when it has lost its place.
LEMMA AlikeKeeps ==
  ASSUME NEW ls, NEW ms \in Batches, Alike(ls, ms)
  PROVE  /\ Session(ls) = Session(ms) /\ (IsApp(ls) <=> IsApp(ms))
         /\ \A P, N : Fine(ms, P, N) => Fine(ls, P, N)
         /\ \A ks : Ahead(ks, ms) => Ahead(ks, ls)
         /\ \A ks : Ahead(ms, ks) => Ahead(ls, ks)
<1>0. DOMAIN ms = 1 .. Len(ms) /\ Len(ms) \in Nat /\ 1 \in DOMAIN ms
  BY BatchIs
<1>1. Session(ls) = Session(ms) /\ (IsApp(ls) <=> IsApp(ms))
  BY <1>0 DEF Alike, Session, IsApp, Kind
<1>2. \A ks : Ahead(ks, ms) => Ahead(ks, ls)
  BY <1>1 DEF Alike, Ahead, Before, Pub
<1>3. \A ks : Ahead(ms, ks) => Ahead(ls, ks)
  BY <1>1 DEF Alike, Ahead, Before, Pub
<1>4. ASSUME NEW P, NEW N, Fine(ms, P, N)
      PROVE  Fine(ls, P, N)
  BY <1>0, <1>1, <1>4 DEF Alike, Fine, Before, Pub
<1> QED BY <1>1, <1>2, <1>3, <1>4

-----------------------------------------------------------------------------
\* Some of what waits goes from the head, some lose their place.
Shifts(s, r, type, d) ==
  /\ r.wire = s.wire
  /\ DOMAIN Envs(r, type) = 1 .. Len(Envs(s, type)) - d
  /\ \A i \in DOMAIN Envs(r, type) :
       /\ Envs(r, type)[i].id = Envs(s, type)[i + d].id
       /\ Alike(Envs(r, type)[i].messages, Envs(s, type)[i + d].messages)
  /\ r.transports[type].requests \subseteq s.transports[type].requests
  /\ \A t \in Types \ {type} :
       Envs(r, t) = Envs(s, t) /\ r.transports[t].requests = s.transports[t].requests
  /\ \A v \in Live(s) : Known(s, v) => Known(r, v)
  /\ \A i \in DOMAIN r.deferred :
       \/ \E k \in DOMAIN s.deferred : r.deferred[i] = s.deferred[k]
       \/ /\ r.deferred[i].type = type
          /\ \E k \in DOMAIN Envs(s, type) : r.deferred[i].id = Envs(s, type)[k].id

LEMMA EnvelopeIs ==
  ASSUME NEW s \in Clients, NEW t \in Types
  PROVE  /\ Len(Envs(s, t)) \in Nat /\ DOMAIN Envs(s, t) = 1 .. Len(Envs(s, t))
         /\ \A i \in DOMAIN Envs(s, t) :
              /\ Envs(s, t)[i] \in Envelopes /\ Envs(s, t)[i].id \in Nat
              /\ Envs(s, t)[i].messages \in Waiting /\ Envs(s, t)[i].messages \in Batches
<1> DEFINE q == Envs(s, t)
<1>1. q \in Seq(Envelopes)
  BY EnvelopesOf DEF Envs
<1> HIDE DEF q
<1>2. Len(q) \in Nat /\ DOMAIN q = 1 .. Len(q) /\ \A i \in DOMAIN q : q[i] \in Envelopes
  BY <1>1
<1>3. \A e \in Envelopes : e.id \in Nat /\ e.messages \in Waiting /\ e.messages \in Batches
  BY DEF Envelopes, Waiting
<1> QED BY <1>2, <1>3 DEF q

LEMMA ShiftsOrdered ==
  ASSUME NEW s \in Clients, NEW r \in Clients, NEW P, NEW N, Ordered(s, P, N), Same(s, r),
         NEW type \in Types, NEW d \in {0, 1}, Shifts(s, r, type, d)
  PROVE  Ordered(r, P, N)
<1> DEFINE n == Len(Envs(s, type))
           b(i) == Envs(s, type)[i].messages
           c(i) == Envs(r, type)[i].messages
<1>0. /\ n \in Nat /\ DOMAIN Envs(s, type) = 1 .. n /\ DOMAIN Envs(r, type) = 1 .. n - d
      /\ \A i \in 1 .. n - d : i + d \in 1 .. n /\ b(i + d) \in Batches
      /\ \A i \in 1 .. n - d : Alike(c(i), b(i + d))
      /\ \A i \in 1 .. n - d : Envs(r, type)[i].id = Envs(s, type)[i + d].id
  <2>1. n \in Nat /\ DOMAIN Envs(s, type) = 1 .. n /\ \A i \in 1 .. n : b(i) \in Batches
    BY EnvelopeIs
  <2>2. /\ DOMAIN Envs(r, type) = 1 .. n - d
        /\ \A i \in 1 .. n - d : Alike(c(i), b(i + d))
        /\ \A i \in 1 .. n - d : Envs(r, type)[i].id = Envs(s, type)[i + d].id
    BY DEF Shifts
  <2>3. \A i \in 1 .. n - d : i + d \in 1 .. n
    BY <2>1
  <2> HIDE DEF b, c
  <2> QED BY <2>1, <2>2, <2>3
<1>a. /\ Live(r) = Live(s) /\ Tokens(r) = Tokens(s)
      /\ \A v \in Live(s) : Known(r, v) <=> Known(s, v)
      /\ isDisconnected(r) <=> isDisconnected(s)
      /\ \A v \in s.wire : v.type \in Types
  <2>1. \A v \in s.wire : v.type \in Types
    BY DEF Clients, UnderWay, Requests
  <2>2. Live(r) = Live(s) /\ Tokens(r) = Tokens(s)
    BY DEF Shifts, Live, Tokens
  <2>3. \A v \in Live(s) : Known(r, v) => Known(s, v)
    BY <2>1 DEF Known, Live, Shifts
  <2>4. \A v \in Live(s) : Known(s, v) => Known(r, v)
    BY DEF Shifts
  <2> QED BY <2>1, <2>2, <2>3, <2>4 DEF Same, isDisconnected
<1>b. \A i \in 1 .. n - d :
        /\ IsApp(c(i)) <=> IsApp(b(i + d))
        /\ Session(c(i)) = Session(b(i + d))
        /\ Fine(b(i + d), P, N) => Fine(c(i), P, N)
        /\ \A ks : Ahead(ks, b(i + d)) => Ahead(ks, c(i))
        /\ \A ks : Ahead(b(i + d), ks) => Ahead(c(i), ks)
        /\ Long(c(i)) => Long(b(i + d))
  <2> TAKE i \in 1 .. n - d
  <2>1. Alike(c(i), b(i + d)) /\ b(i + d) \in Batches
    BY <1>0
  <2>2. Long(c(i)) => Long(b(i + d))
    BY <2>1 DEF Alike
  <2> HIDE DEF b, c
  <2> QED BY <2>1, <2>2, AlikeKeeps
<1>c. \A t \in Types \ {type} : Envs(r, t) = Envs(s, t)
  BY DEF Shifts
<1>1. Ids(r)
  <2>1. \A u, v \in r.wire : u.type = v.type /\ u.id = v.id => u = v
    BY DEF Ids, Ordered, Shifts
  <2>2. \A v \in r.wire, i \in DOMAIN r.deferred :
          r.deferred[i].type = v.type => r.deferred[i].id # v.id
    <3>1. \A v \in s.wire : v.type = type => \A k \in DOMAIN Envs(s, type) : Envs(s, type)[k].id # v.id
      BY DEF Ids, Ordered
    <3> QED BY <3>1 DEF Ids, Ordered, Shifts
  <2>3. \A v \in r.wire : \A i \in DOMAIN Envs(r, v.type) : Envs(r, v.type)[i].id # v.id
    <3> SUFFICES ASSUME NEW v \in r.wire, NEW i \in DOMAIN Envs(r, v.type)
                 PROVE  Envs(r, v.type)[i].id # v.id
      OBVIOUS
    <3>1. v \in s.wire /\ v.type \in Types
      BY <1>a DEF Shifts
    <3>2. CASE v.type = type
      <4>1. i \in 1 .. n - d /\ Envs(r, v.type)[i].id = Envs(s, type)[i + d].id
        BY <1>0, <3>2
      <4>2. i + d \in DOMAIN Envs(s, type)
        BY <1>0, <4>1
      <4>3. Envs(s, type)[i + d].id # v.id
        BY <3>1, <3>2, <4>2 DEF Ids, Ordered
      <4> QED BY <4>1, <4>3
    <3>3. CASE v.type # type
      BY <1>c, <3>1, <3>3 DEF Ids, Ordered
    <3> QED BY <3>2, <3>3
  <2> QED BY <2>1, <2>2, <2>3 DEF Ids
<1>2. Slot(r)
  BY DEF Slot, Ordered, Shifts
<1>3. Batched(r, P, N)
  <2>1. \A t \in Types : \A i \in DOMAIN Envs(r, t) :
          IsApp(Envs(r, t)[i].messages) => Fine(Envs(r, t)[i].messages, P, N)
    <3>1. \A i \in 1 .. n : IsApp(b(i)) => Fine(b(i), P, N)
      BY <1>0 DEF Ordered, Batched
    <3>2. \A i \in 1 .. n - d : IsApp(c(i)) => Fine(c(i), P, N)
      BY <1>0, <1>b, <3>1
    <3>3. \A t \in Types \ {type} : \A i \in DOMAIN Envs(r, t) :
          IsApp(Envs(r, t)[i].messages) => Fine(Envs(r, t)[i].messages, P, N)
      BY <1>c DEF Ordered, Batched
    <3> QED BY <1>0, <3>2, <3>3
  <2>2. r.wire = s.wire
    BY DEF Shifts
  <2> QED BY <1>a, <2>1, <2>2 DEF Batched, Ordered, Same
<1>4. Turn(r)
  <2>1. \A j \in 1 .. n : IsApp(b(j)) =>
          /\ \A i \in 1 .. j - 1 : IsApp(b(i)) => Ahead(b(i), b(j))
          /\ \A w \in Live(s) : ~w.served => Ahead(w.messages, b(j))
    BY <1>0 DEF Ordered, Turn
  <2>2. \A j \in 1 .. n - d : IsApp(c(j)) =>
          /\ \A i \in 1 .. j - 1 : IsApp(c(i)) => Ahead(c(i), c(j))
          /\ \A w \in Live(s) : ~w.served => Ahead(w.messages, c(j))
    <3> SUFFICES ASSUME NEW j \in 1 .. n - d, IsApp(c(j))
                 PROVE  /\ \A i \in 1 .. j - 1 : IsApp(c(i)) => Ahead(c(i), c(j))
                        /\ \A w \in Live(s) : ~w.served => Ahead(w.messages, c(j))
      OBVIOUS
    <3> HIDE DEF b, c
    <3>1. j + d \in 1 .. n /\ IsApp(b(j + d))
      BY <1>0, <1>b
    <3>2. \A i \in 1 .. j - 1 : i \in 1 .. n - d /\ i + d \in 1 .. (j + d) - 1
      BY <1>0
    <3>3. \A i \in 1 .. j - 1 : IsApp(c(i)) => Ahead(c(i), c(j))
      <4> TAKE i \in 1 .. j - 1
      <4>1. i \in 1 .. n - d /\ i + d \in 1 .. (j + d) - 1
        BY <3>2
      <4>2. IsApp(c(i)) => Ahead(b(i + d), b(j + d))
        BY <1>b, <2>1, <3>1, <4>1
      <4> QED BY <1>b, <4>1, <4>2
    <3>4. \A w \in Live(s) : ~w.served => Ahead(w.messages, c(j))
      BY <1>b, <2>1, <3>1
    <3> QED BY <3>3, <3>4
  <2>3. \A t \in Types \ {type} : \A j \in DOMAIN Envs(r, t) : IsApp(Envs(r, t)[j].messages) =>
          /\ \A i \in 1 .. j - 1 :
               IsApp(Envs(r, t)[i].messages) => Ahead(Envs(r, t)[i].messages, Envs(r, t)[j].messages)
          /\ \A w \in Live(s) : ~w.served => Ahead(w.messages, Envs(r, t)[j].messages)
    BY <1>c DEF Ordered, Turn
  <2> QED BY <1>0, <1>a, <2>2, <2>3 DEF Turn
<1>5. One(r)
  BY <1>a DEF One, Ordered
<1>6. Strays(r)
  <2> SUFFICES ASSUME NEW w \in Live(r), ~Known(r, w)
               PROVE  /\ Over(r, Session(w.messages))
                      /\ \A t \in Types : \A i \in DOMAIN Envs(r, t) : IsApp(Envs(r, t)[i].messages) =>
                           Session(Envs(r, t)[i].messages) # Session(w.messages)
    BY DEF Strays
  <2>1. /\ Over(s, Session(w.messages))
        /\ \A t \in Types : \A i \in DOMAIN Envs(s, t) : IsApp(Envs(s, t)[i].messages) =>
             Session(Envs(s, t)[i].messages) # Session(w.messages)
    BY <1>a DEF Ordered, Strays
  <2>2. \A i \in 1 .. n - d : IsApp(c(i)) => Session(c(i)) # Session(w.messages)
    BY <1>0, <1>b, <2>1
  <2>3. Over(r, Session(w.messages))
    BY <2>1 DEF Over, Same
  <2> QED BY <1>0, <1>c, <2>1, <2>2, <2>3
<1>7. NoApps(s) => NoApps(r)
  <2>1. (\A i \in 1 .. n : ~IsApp(b(i))) => \A i \in 1 .. n - d : ~IsApp(c(i))
    BY <1>0, <1>b
  <2> QED BY <1>0, <1>a, <1>c, <2>1 DEF NoApps
<1>8. Place(r)
  <2>1. s.transport # type => \A i \in DOMAIN Envs(r, type) : ~IsApp(Envs(r, type)[i].messages)
    <3>1. s.transport # type => \A i \in 1 .. n : ~IsApp(b(i))
      BY <1>0 DEF Ordered, Place
    <3> QED BY <1>0, <1>b, <3>1
  <2>2. r.transport = s.transport
    BY DEF Same
  <2> QED BY <1>a, <1>c, <2>1, <2>2 DEF Place, Ordered
<1>9. Batch(r)
  BY <1>7 DEF Batch, Ordered, Same
<1>10. LongOnes(r)
  <2> SUFFICES ASSUME NEW t \in Types, NEW i \in DOMAIN Envs(r, t), Long(Envs(r, t)[i].messages)
               PROVE  /\ isDisconnected(r)
                      /\ \A j \in DOMAIN Envs(r, t) \ {i} : ~IsApp(Envs(r, t)[j].messages)
    BY DEF LongOnes
  <2>1. CASE t # type
    BY <1>a, <1>c, <2>1 DEF LongOnes, Ordered
  <2>2. CASE t = type
    <3>1. i \in 1 .. n - d /\ i + d \in 1 .. n /\ Long(b(i + d))
      BY <1>0, <1>b, <2>2
    <3>2. isDisconnected(s) /\ \A j \in 1 .. n : j # i + d => ~IsApp(b(j))
      BY <1>0, <3>1 DEF LongOnes, Ordered
    <3>3. \A j \in 1 .. n - d : j # i => ~IsApp(c(j))
      <4> TAKE j \in 1 .. n - d
      <4>1. j # i => j + d # i + d
        BY <3>1
      <4>2. j + d \in 1 .. n
        BY <1>0
      <4> QED BY <1>b, <3>2, <4>1, <4>2
    <3> QED BY <1>0, <1>a, <2>2, <3>2, <3>3
  <2> QED BY <2>1, <2>2
<1>11. Fresh(r, P)
  BY <1>a DEF Fresh, Ordered, Untouched
<1>12. Ready(r)
  BY <1>a DEF Ready, Ordered, Same
<1> QED BY <1>1, <1>2, <1>3, <1>4, <1>5, <1>6, <1>8, <1>9, <1>10, <1>11, <1>12 DEF Ordered

-----------------------------------------------------------------------------
\* The pieces of a long batch: its messages, in turn.
Follows(p, q) == Pub(p) /\ Pub(q) => Before(p, q)

Cut(done, ms, k) ==
  /\ done \in Seq(AppBatches)
  /\ \A b \in DOMAIN done :
       /\ ~Long(done[b])
       /\ \A i \in DOMAIN done[b] : \E x \in 1 .. k : done[b][i] = ms[x]
       /\ \A i \in DOMAIN done[b] : \A j \in 1 .. i - 1 : Follows(done[b][j], done[b][i])
       /\ \A a \in 1 .. b - 1 : \A i \in DOMAIN done[b], j \in DOMAIN done[a] :
            Follows(done[a][j], done[b][i])

LEMMA CutAdds ==
  ASSUME NEW ms \in AppBatches, \A x \in 1 .. Len(ms) : \A y \in 1 .. x - 1 : Follows(ms[y], ms[x]),
         NEW k \in Nat, k + 1 \in 1 .. Len(ms), NEW done, Cut(done, ms, k)
  PROVE  Cut(addPiece(done, ms[k + 1]), ms, k + 1)
<1> DEFINE m == ms[k + 1]
           n == Len(done)
           new == addPiece(done, m)
<1>0. /\ done \in Seq(AppBatches) /\ n \in Nat /\ DOMAIN done = 1 .. n
      /\ m \in AppMessages
  BY DEF AppBatches, Cut
<1>1. new \in Seq(AppBatches)
  BY <1>0, AddsPiece
\* what was there comes before m
<1>2. \A b \in 1 .. n : \A i \in DOMAIN done[b] : Follows(done[b][i], m)
  <2> SUFFICES ASSUME NEW b \in 1 .. n, NEW i \in DOMAIN done[b]
               PROVE  Follows(done[b][i], m)
    OBVIOUS
  <2>1. PICK x \in 1 .. k : done[b][i] = ms[x]
    BY <1>0 DEF Cut
  <2>2. x \in 1 .. (k + 1) - 1
    OBVIOUS
  <2> QED BY <2>1, <2>2
<1>c. \A b \in 1 .. n :
        /\ done[b] \in AppBatches
        /\ ~Long(done[b])
        /\ \A i \in DOMAIN done[b] : \E x \in 1 .. k + 1 : done[b][i] = ms[x]
        /\ \A i \in DOMAIN done[b] : \A j \in 1 .. i - 1 : Follows(done[b][j], done[b][i])
        /\ \A a \in 1 .. b - 1 : \A i \in DOMAIN done[b], j \in DOMAIN done[a] :
             Follows(done[a][j], done[b][i])
  <2>1. \A x \in 1 .. k : x \in 1 .. k + 1
    OBVIOUS
  <2>2. \A b \in 1 .. n : done[b] \in AppBatches
    <3> HIDE DEF n
    <3>1. n = Len(done)
      BY DEF n
    <3> QED BY <1>0, <3>1
  <2>3. \A b \in 1 .. n :
          /\ ~Long(done[b])
          /\ \A i \in DOMAIN done[b] : \E x \in 1 .. k : done[b][i] = ms[x]
          /\ \A i \in DOMAIN done[b] : \A j \in 1 .. i - 1 : Follows(done[b][j], done[b][i])
          /\ \A a \in 1 .. b - 1 : \A i \in DOMAIN done[b], j \in DOMAIN done[a] :
               Follows(done[a][j], done[b][i])
    BY <1>0 DEF Cut
  <2> HIDE DEF n
  <2> QED BY <2>1, <2>2, <2>3
<1>d. m = ms[k + 1] /\ k + 1 \in 1 .. k + 1
  OBVIOUS
<1>3. CASE done # <<>> /\ fits(Append(Last(done), m))
  <2> DEFINE p == done[n]
             l == Append(p, m)
  <2>1. n \in 1 .. n /\ Last(done) = p /\ new = [done EXCEPT ![n] = l]
    <3>1. n # 0
      <4> HIDE DEF n
      <4>1. n = Len(done)
        BY DEF n
      <4> QED BY <1>0, <1>3, <4>1, EmptySeq
    <3>2. Last(done) = p
      BY DEF Last
    <3>3. new = [done EXCEPT ![n] = Append(@, m)]
      BY <1>3 DEF addPiece
    <3> QED BY <1>0, <3>1, <3>2, <3>3
  <2>2. DOMAIN new = 1 .. n /\ new[n] = l /\ \A b \in 1 .. n - 1 : new[b] = done[b]
    <3> HIDE DEF l, n, new
    <3>1. \A b \in 1 .. n - 1 : b \in 1 .. n /\ b # n
      BY <1>0
    <3> QED BY <1>0, <2>1, <3>1
  <2>3. p \in Seq(AppMessages) /\ p \in AppBatches
    BY <1>0, <2>1 DEF AppBatches
  <2>4. ~Long(l)
    BY <1>3, <2>1 DEF Long
  <2>a. /\ \A i \in DOMAIN p : \E x \in 1 .. k + 1 : p[i] = ms[x]
        /\ \A i \in DOMAIN p : \A j \in 1 .. i - 1 : Follows(p[j], p[i])
        /\ \A a \in 1 .. n - 1 : \A i \in DOMAIN p, j \in DOMAIN done[a] :
             Follows(done[a][j], p[i])
        /\ \A i \in DOMAIN p : Follows(p[i], m)
    <3>1. /\ \A i \in DOMAIN p : \E x \in 1 .. k + 1 : p[i] = ms[x]
          /\ \A i \in DOMAIN p : \A j \in 1 .. i - 1 : Follows(p[j], p[i])
          /\ \A a \in 1 .. n - 1 : \A i \in DOMAIN p, j \in DOMAIN done[a] :
               Follows(done[a][j], p[i])
      BY <1>c, <2>1
    <3>2. \A i \in DOMAIN p : Follows(p[i], m)
      BY <1>2, <2>1
    <3> QED BY <3>1, <3>2
  <2> HIDE DEF p, new, n, m
  <2>5. /\ Len(p) \in Nat /\ DOMAIN p = 1 .. Len(p) /\ DOMAIN l = 1 .. Len(p) + 1
        /\ l[Len(p) + 1] = m /\ \A i \in 1 .. Len(p) : l[i] = p[i]
    BY <1>0, <2>3
  <2> HIDE DEF l
  <2>6. \A i \in DOMAIN l : \E x \in 1 .. k + 1 : l[i] = ms[x]
    BY <2>5, <2>a, <1>d
  <2>7. \A i \in DOMAIN l : \A j \in 1 .. i - 1 : Follows(l[j], l[i])
    BY <2>5, <2>a
  <2>8. \A a \in 1 .. n - 1 : \A i \in DOMAIN l, j \in DOMAIN done[a] : Follows(done[a][j], l[i])
    <3>1. \A a \in 1 .. n - 1 : a \in 1 .. n
      BY <1>0
    <3> QED BY <2>5, <2>a, <1>2, <3>1
  <2>9. \A b \in DOMAIN new :
          /\ ~Long(new[b])
          /\ \A i \in DOMAIN new[b] : \E x \in 1 .. k + 1 : new[b][i] = ms[x]
          /\ \A i \in DOMAIN new[b] : \A j \in 1 .. i - 1 : Follows(new[b][j], new[b][i])
          /\ \A a \in 1 .. b - 1 : \A i \in DOMAIN new[b], j \in DOMAIN new[a] :
               Follows(new[a][j], new[b][i])
    <3> TAKE b \in DOMAIN new
    <3>1. CASE b = n
      <4>1. \A a \in 1 .. b - 1 : new[a] = done[a]
        BY <2>2, <3>1
      <4> QED BY <2>2, <2>4, <2>6, <2>7, <2>8, <3>1, <4>1
    <3>2. CASE b # n
      <4>1. b \in 1 .. n - 1 /\ b \in 1 .. n /\ new[b] = done[b]
        BY <1>0, <2>2, <3>2
      <4>2. \A a \in 1 .. b - 1 : new[a] = done[a]
        BY <1>0, <2>2, <4>1
      <4> QED BY <1>c, <4>1, <4>2
    <3> QED BY <3>1, <3>2
  <2> QED BY <1>1, <2>9 DEF Cut, new, m
<1>4. CASE ~ (done # <<>> /\ fits(Append(Last(done), m)))
  <2> DEFINE l == <<m>>
  <2>1. new = Append(done, l)
    BY <1>4 DEF addPiece
  <2>0. DOMAIN l = {1} /\ l[1] = m /\ ~Long(l)
    BY DEF Long
  <2>00. l \in AppBatches
    BY <1>0 DEF AppBatches
  <2> HIDE DEF l, new, n, m
  <2>2. DOMAIN new = 1 .. n + 1 /\ new[n + 1] = l /\ \A b \in 1 .. n : new[b] = done[b]
    BY <1>0, <2>1, <2>00 DEF n
  <2>3. \A b \in DOMAIN new :
          /\ ~Long(new[b])
          /\ \A i \in DOMAIN new[b] : \E x \in 1 .. k + 1 : new[b][i] = ms[x]
          /\ \A i \in DOMAIN new[b] : \A j \in 1 .. i - 1 : Follows(new[b][j], new[b][i])
          /\ \A a \in 1 .. b - 1 : \A i \in DOMAIN new[b], j \in DOMAIN new[a] :
               Follows(new[a][j], new[b][i])
    <3> TAKE b \in DOMAIN new
    <3>1. CASE b = n + 1
      <4>1. \A a \in 1 .. b - 1 : a \in 1 .. n /\ new[a] = done[a]
        BY <1>0, <2>2, <3>1
      <4>2. \A i \in DOMAIN l : i = 1 /\ l[i] = m
        BY <2>0
      <4>3. \A i \in DOMAIN l : \A j \in 1 .. i - 1 : FALSE
        BY <4>2
      <4> QED BY <1>2, <1>d, <2>0, <2>2, <3>1, <4>1, <4>2, <4>3
    <3>2. CASE b # n + 1
      <4>1. b \in 1 .. n /\ new[b] = done[b]
        BY <1>0, <2>2, <3>2
      <4>2. \A a \in 1 .. b - 1 : new[a] = done[a]
        BY <1>0, <2>2, <4>1
      <4> QED BY <1>c, <4>1, <4>2
    <3> QED BY <3>1, <3>2
  <2> QED BY <1>1, <2>3 DEF Cut, new, m
<1> QED BY <1>3, <1>4

LEMMA PiecesCut ==
  ASSUME NEW ms \in AppBatches, \A x \in 1 .. Len(ms) : \A y \in 1 .. x - 1 : Follows(ms[y], ms[x])
  PROVE  Cut(pieces(ms), ms, Len(ms)) /\ pieces(ms) # <<>>
<1> DEFINE A == Seq(AppBatches)
           n == Len(ms)
<1>1. ms \in Seq(AppMessages) /\ n \in Nat \ {0} /\ DOMAIN ms = 1 .. n
  BY DEF AppBatches
<1>2. <<>> \in A
  OBVIOUS
<1>3. \A a \in A, i \in 1 .. n : addPiece(a, ms[i]) \in A
  BY <1>1, AddsPiece
<1> HIDE DEF A, n
<1>4. PICK g : PieceSteps(g, ms, n) /\ pieces(ms) = g[n]
  BY <1>1, <1>2, <1>3, FoldPieces
<1> DEFINE S == {k \in Nat : k <= n => Cut(g[k], ms, k)}
<1>5. 0 \in S
  <2>1. g[0] = <<>>
    BY <1>4 DEF PieceSteps
  <2>2. DOMAIN <<>> = {} /\ <<>> \in Seq(AppBatches)
    OBVIOUS
  <2>3. Cut(<<>>, ms, 0)
    BY <2>2 DEF Cut
  <2> QED BY <2>1, <2>3
<1>6. \A k \in Nat : k \in S => k + 1 \in S
  <2> SUFFICES ASSUME NEW k \in Nat, Cut(g[k], ms, k), k + 1 <= n
               PROVE  Cut(g[k + 1], ms, k + 1)
    BY <1>1
  <2>1. k \in 0 .. n - 1 /\ k + 1 \in 1 .. Len(ms)
    BY <1>1 DEF n
  <2>2. g[k + 1] = addPiece(g[k], ms[k + 1])
    BY <1>4, <2>1 DEF PieceSteps
  <2> QED BY <2>1, <2>2, CutAdds
<1>7. n \in S
  <2> HIDE DEF S
  <2> QED BY <1>1, <1>5, <1>6, SetInduction
<1> QED BY <1>1, <1>4, <1>7, PiecesAre DEF n

-----------------------------------------------------------------------------
\* A piece is of the same session, in its place.
LEMMA PiecesFine ==
  ASSUME NEW ms \in AppBatches, NEW P, NEW N, Fine(ms, P, N), NEW cut, cut = pieces(ms)
  PROVE  /\ cut \in Seq(AppBatches) \ {<<>>}
         /\ \A b \in DOMAIN cut :
              /\ cut[b] \in AppBatches /\ ~Long(cut[b])
              /\ Session(cut[b]) = Session(ms)
              /\ Fine(cut[b], P, N)
              /\ \A a \in 1 .. b - 1 : Ahead(cut[a], cut[b])
              /\ \A ks : Ahead(ks, ms) => Ahead(ks, cut[b])
              /\ \A ks : Ahead(ms, ks) => Ahead(cut[b], ks)
<1> DEFINE n == Len(ms)
<1>1. n \in Nat /\ DOMAIN ms = 1 .. n /\ 1 \in 1 .. n
  BY AppBatchIs, BatchIs
<1>2. \A x \in 1 .. n : \A y \in 1 .. x - 1 : Follows(ms[y], ms[x])
  BY <1>1 DEF Fine, Follows
<1>3. Cut(cut, ms, n) /\ cut # <<>>
  BY <1>2, PiecesCut
<1> HIDE DEF n
<1>4. cut \in Seq(AppBatches)
  BY <1>3 DEF Cut
<1>5. Len(cut) \in Nat /\ DOMAIN cut = 1 .. Len(cut) /\ \A b \in DOMAIN cut : cut[b] \in AppBatches
  BY <1>4
<1> SUFFICES ASSUME NEW b \in DOMAIN cut
             PROVE  /\ Session(cut[b]) = Session(ms)
                    /\ Fine(cut[b], P, N)
                    /\ \A a \in 1 .. b - 1 : Ahead(cut[a], cut[b])
                    /\ \A ks : Ahead(ks, ms) => Ahead(ks, cut[b])
                    /\ \A ks : Ahead(ms, ks) => Ahead(cut[b], ks)
  BY <1>3, <1>4, <1>5 DEF Cut
<1>6. \A c \in DOMAIN cut :
        /\ 1 \in DOMAIN cut[c]
        /\ \A i \in DOMAIN cut[c] : \E x \in 1 .. n : cut[c][i] = ms[x]
  <2> SUFFICES ASSUME NEW c \in DOMAIN cut PROVE 1 \in DOMAIN cut[c]
    BY <1>3 DEF Cut
  <2> QED BY <1>5, AppBatchIs, BatchIs
<1>7. \A x \in 1 .. n : ms[x].clientId = Session(ms)
  BY <1>1 DEF Fine
<1>8. \A c \in DOMAIN cut :
        /\ Session(cut[c]) = Session(ms)
        /\ \A i \in DOMAIN cut[c] : cut[c][i].clientId = Session(ms)
  BY <1>6, <1>7 DEF Session
<1>9. Fine(cut[b], P, N)
  <2> SUFFICES ASSUME NEW j \in DOMAIN cut[b], Pub(cut[b][j])
               PROVE  /\ cut[b][j].n <= N
                      /\ \A i \in 1 .. j - 1 : Pub(cut[b][i]) => Before(cut[b][i], cut[b][j])
                      /\ \A p \in P : p[1] = Session(cut[b]) =>
                           p[2] < cut[b][j].n \/ cut[b][j].displaced
    BY <1>8 DEF Fine
  <2>1. PICK x \in 1 .. n : cut[b][j] = ms[x]
    BY <1>6
  <2>2. /\ ms[x].n <= N
        /\ \A p \in P : p[1] = Session(ms) => p[2] < ms[x].n \/ ms[x].displaced
    BY <1>1, <2>1 DEF Fine
  <2>3. \A i \in 1 .. j - 1 : Follows(cut[b][i], cut[b][j])
    BY <1>3 DEF Cut
  <2> QED BY <1>8, <2>1, <2>2, <2>3 DEF Follows
<1>10. \A a \in 1 .. b - 1 : Ahead(cut[a], cut[b])
  <2> SUFFICES ASSUME NEW a \in 1 .. b - 1 PROVE Ahead(cut[a], cut[b])
    OBVIOUS
  <2>1. \A i \in DOMAIN cut[b], j \in DOMAIN cut[a] : Follows(cut[a][j], cut[b][i])
    BY <1>3 DEF Cut
  <2> QED BY <2>1 DEF Ahead, Follows
<1>11. \A ks : Ahead(ks, ms) => Ahead(ks, cut[b])
  BY <1>1, <1>6, <1>8 DEF Ahead
<1>12. \A ks : Ahead(ms, ks) => Ahead(cut[b], ks)
  BY <1>1, <1>6, <1>8 DEF Ahead
<1> QED BY <1>8, <1>9, <1>10, <1>11, <1>12

\* What waits, waits behind a request.
LEMMA WaitedIf ==
  ASSUME NEW s, NEW P, NEW N, Ordered(s, P, N), s.transports[s.transport].requests # {}
  PROVE  Waited(s)
BY DEF Ordered, Place, Waited

\* A batch is refused; it fails later.
LEMMA BatchRefused ==
  ASSUME NEW s \in Clients, NEW r \in Clients, NEW P, NEW N, Ordered(s, P, N), Same(s, r),
         NEW type \in Types, NEW id, New(s, type, id), NEW ms,
         r.wire = s.wire, r.deferred = Append(s.deferred, [type |-> type, id |-> id, messages |-> ms]),
         \A t \in Types : Envs(r, t) = Envs(s, t),
         s.transports[type].requests = {}, r.transports[type].requests = {id},
         \A t \in Types \ {type} : r.transports[t].requests = s.transports[t].requests
  PROVE  Ordered(r, P, N)
<1>0. /\ Live(r) = Live(s) /\ Tokens(r) = Tokens(s)
      /\ \A v \in Live(s) : Known(r, v) <=> Known(s, v)
      /\ isDisconnected(r) <=> isDisconnected(s)
  <2>1. \A v \in s.wire : v.type \in Types
    BY DEF Clients, UnderWay, Requests
  <2>2. Live(r) = Live(s) /\ Tokens(r) = Tokens(s) /\ Live(s) \subseteq s.wire
    BY DEF Live, Tokens
  <2>3. ASSUME NEW v \in Live(s)
        PROVE  Known(r, v) <=> Known(s, v)
    <3>1. CASE v.type = type
      BY <2>2, <3>1 DEF Known, New
    <3>2. CASE v.type # type
      BY <2>1, <2>2, <3>2 DEF Known
    <3> QED BY <3>1, <3>2
  <2> QED BY <2>2, <2>3 DEF isDisconnected, Same
<1>1. Ids(r)
  <2> DEFINE e == [type |-> type, id |-> id, messages |-> ms]
  <2>1. s.deferred \in Seq(Failures)
    BY EnvelopesOf
  <2>2. \A i \in DOMAIN r.deferred :
          \/ i \in DOMAIN s.deferred /\ r.deferred[i] = s.deferred[i]
          \/ r.deferred[i].type = type /\ r.deferred[i].id = id
    <3>1. e.type = type /\ e.id = id
      OBVIOUS
    <3>2. r.deferred = Append(s.deferred, e)
      OBVIOUS
    <3> HIDE DEF e
    <3>3. /\ Len(s.deferred) \in Nat /\ DOMAIN s.deferred = 1 .. Len(s.deferred)
          /\ DOMAIN Append(s.deferred, e) = 1 .. Len(s.deferred) + 1
          /\ \A i \in 1 .. Len(s.deferred) : Append(s.deferred, e)[i] = s.deferred[i]
          /\ Append(s.deferred, e)[Len(s.deferred) + 1] = e
      BY <2>1
    <3>4. \A i \in 1 .. Len(s.deferred) + 1 : i \in 1 .. Len(s.deferred) \/ i = Len(s.deferred) + 1
      BY <3>3
    <3> QED BY <3>1, <3>2, <3>3, <3>4
  <2>3. \A v \in r.wire, i \in DOMAIN r.deferred :
          r.deferred[i].type = v.type => r.deferred[i].id # v.id
    <3>1. \A v \in s.wire, i \in DOMAIN s.deferred :
            s.deferred[i].type = v.type => s.deferred[i].id # v.id
      BY DEF Ids, Ordered
    <3>2. \A v \in s.wire : v.type = type => v.id # id
      BY DEF New
    <3> SUFFICES ASSUME NEW v \in s.wire, NEW i \in DOMAIN r.deferred, r.deferred[i].type = v.type
                 PROVE  r.deferred[i].id # v.id
      OBVIOUS
    <3> QED BY <2>2, <3>1, <3>2
  <2>4. \A v \in s.wire : v.type \in Types
    BY DEF Clients, UnderWay, Requests
  <2>5. \A v \in r.wire : \A i \in DOMAIN Envs(r, v.type) : Envs(r, v.type)[i].id # v.id
    <3>1. \A v \in s.wire : Envs(r, v.type) = Envs(s, v.type)
      BY <2>4
    <3>2. \A v \in s.wire : \A i \in DOMAIN Envs(s, v.type) : Envs(s, v.type)[i].id # v.id
      BY DEF Ids, Ordered
    <3> SUFFICES ASSUME NEW v \in s.wire, NEW i \in DOMAIN Envs(r, v.type)
                 PROVE  Envs(r, v.type)[i].id # v.id
      OBVIOUS
    <3> QED BY <3>1, <3>2
  <2>6. \A v, w \in r.wire : v.type = w.type /\ v.id = w.id => v = w
    BY DEF Ids, Ordered
  <2> QED BY <2>3, <2>5, <2>6 DEF Ids
<1>2. Slot(r)
  BY DEF Slot, Ordered
<1>3. Batched(r, P, N)
  BY <1>0 DEF Batched, Ordered, Same
<1>4. Turn(r)
  BY <1>0 DEF Turn, Ordered
<1>5. One(r)
  BY <1>0 DEF One, Ordered
<1>6. Strays(r)
  BY <1>0 DEF Strays, Ordered, Same, Over
<1>7. Place(r)
  BY <1>0 DEF Place, Ordered, Same
<1>8. Batch(r)
  BY <1>0 DEF Batch, Ordered, Same, NoApps
<1>9. LongOnes(r)
  BY <1>0 DEF LongOnes, Ordered
<1>10. Fresh(r, P)
  BY <1>0 DEF Fresh, Ordered, Untouched
<1>11. Ready(r)
  BY <1>0 DEF Ready, Ordered, Same
<1> QED BY <1>1, <1>2, <1>3, <1>4, <1>5, <1>6, <1>7, <1>8, <1>9, <1>10, <1>11 DEF Ordered

-----------------------------------------------------------------------------
\* What waits, with an envelope more.
LEMMA WaitAdds ==
  ASSUME NEW s \in Clients, NEW type \in Types, NEW id \in Nat, NEW ms \in Waiting,
         NEW r, r = wait(s, type, id, ms)
  PROVE  /\ r \in Clients /\ Same(s, r) /\ r.wire = s.wire /\ r.deferred = s.deferred
         /\ Envs(r, type) = Append(Envs(s, type), [id |-> id, messages |-> ms])
         /\ \A t \in Types : r.transports[t].requests = s.transports[t].requests
         /\ \A t \in Types \ {type} : Envs(r, t) = Envs(s, t)
<1> DEFINE e == [id |-> id, messages |-> ms]
<1>1. /\ Inside(s, r, type)
      /\ r.transports[type] = [s.transports[type] EXCEPT !.envelopes = Append(@, e)]
  BY JoinsQueue
<1>2. s.transports[type] \in Transports
  BY EnvelopesOf
<1> HIDE DEF e
<1>3. /\ r.transports[type].envelopes = Append(s.transports[type].envelopes, e)
      /\ r.transports[type].requests = s.transports[type].requests
  BY <1>1, <1>2 DEF Transports
<1>4. r \in Clients /\ Same(s, r) /\ r.wire = s.wire /\ r.deferred = s.deferred
  BY <1>1 DEF Inside, Sends
<1>5. \A t \in Types \ {type} : r.transports[t] = s.transports[t]
  BY <1>1 DEF Inside
<1>6. Envs(r, type) = Append(Envs(s, type), e)
  BY <1>3 DEF Envs
<1>7. \A t \in Types : r.transports[t].requests = s.transports[t].requests
  BY <1>3, <1>5
<1>8. \A t \in Types \ {type} : Envs(r, t) = Envs(s, t)
  BY <1>5 DEF Envs
<1> QED BY <1>4, <1>6, <1>7, <1>8 DEF e

\* Pieces that wait behind the request of the first.
Behind(s, cut, k) ==
  \A i \in DOMAIN Envs(s, "callback-polling") :
    LET ms == Envs(s, "callback-polling")[i].messages
    IN  /\ ~Long(ms)
        /\ IsApp(ms) => \A b \in DOMAIN cut : b > k => Ahead(ms, cut[b])

\* Where s was sent to, no more than envelopes were added.
Lines(s, t, P, N) ==
  /\ t \in Clients /\ Same(s, t) /\ Ordered(t, P, N)
  /\ t.wire = s.wire /\ t.deferred = s.deferred
  /\ \A type \in Types : t.transports[type].requests = s.transports[type].requests

LEMMA PieceWaits ==
  ASSUME MaxConnections = 2, NEW s \in Clients, s.transport = "callback-polling",
         s.transports["callback-polling"].requests # {}, HandshakeOver(s), NEW P, NEW N,
         NEW cut \in Seq(AppBatches),
         \A b \in DOMAIN cut :
           /\ ~Long(cut[b]) /\ Fine(cut[b], P, N) /\ Current(s, Session(cut[b]))
           /\ \A v \in Live(s) : ~v.served => Ahead(v.messages, cut[b])
           /\ \A a \in 1 .. b - 1 : Ahead(cut[a], cut[b]),
         NEW k \in Nat, k + 1 \in DOMAIN cut, NEW t, Lines(s, t, P, N), Behind(t, cut, k)
  PROVE  /\ Lines(s, sendPiece(t, cut[k + 1]), P, N)
         /\ Behind(sendPiece(t, cut[k + 1]), cut, k + 1)
<1> DEFINE type == "callback-polling"
           ms == cut[k + 1]
           id == nextId(t, type)
           r == wait(t, type, id, ms)
           q == Envs(t, type)
           e == [id |-> id, messages |-> ms]
<1>0. t \in Clients /\ Same(s, t) /\ Ordered(t, P, N) /\ type \in Types /\ ms \in AppBatches
  BY TypesAre DEF Lines
<1>1. New(t, type, id) /\ id \in Nat
  BY <1>0, NextIdNew
<1>2. t.transports[type].requests # {}
  BY <1>0 DEF Lines
<1>3. ~hasRoom(t, type)
  BY <1>0, <1>2, RoomIs DEF Ordered
<1>4. sendPiece(t, ms) = r
  BY <1>3 DEF sendPiece
<1> HIDE DEF id
<1>7. /\ r \in Clients /\ Same(t, r) /\ r.wire = t.wire /\ r.deferred = t.deferred
      /\ Envs(r, type) = Append(q, e)
      /\ \A x \in Types : r.transports[x].requests = t.transports[x].requests
      /\ \A x \in Types \ {type} : Envs(r, x) = Envs(t, x)
  <2>1. ms \in Waiting
    BY <1>0, AppBatchIs
  <2> HIDE DEF ms, type
  <2> QED BY <1>0, <1>1, <2>1, WaitAdds
<1> HIDE DEF r
<1>8. Live(t) = Live(s) /\ Tokens(t) = Tokens(s) /\ \A v \in Live(s) : Known(t, v) <=> Known(s, v)
  <2>1. \A v \in s.wire : v.type \in Types
    BY DEF Clients, UnderWay, Requests
  <2> QED BY <2>1 DEF Lines, Live, Tokens, Known
<1>9. t.transport = type /\ HandshakeOver(t) /\ Current(t, Session(ms))
  <2>1. t.transport = type
    BY <1>0 DEF Same
  <2>2. HandshakeOver(t)
    BY <1>8, <1>0 DEF HandshakeOver, Same
  <2>3. Current(s, Session(ms))
    OBVIOUS
  <2>4. Current(t, Session(ms))
    BY <1>8, <2>3 DEF Current
  <2> QED BY <2>1, <2>2, <2>4
<1>10. /\ NoLong(t, type)
       /\ \A i \in DOMAIN q : IsApp(q[i].messages) => Ahead(q[i].messages, ms)
       /\ \A i \in DOMAIN q : \A b \in DOMAIN cut :
            IsApp(q[i].messages) /\ b > k + 1 => Ahead(q[i].messages, cut[b])
  <2>1. k + 1 > k /\ \A b \in DOMAIN cut : b > k + 1 => b > k
    BY <1>0
  <2> QED BY <2>1 DEF Behind, NoLong
<1>11. Ordered(r, P, N)
  <2>1. /\ ~Long(ms) /\ Fine(ms, P, N)
        /\ \A v \in Live(t) : ~v.served => Ahead(v.messages, ms)
    BY <1>8
  <2> HIDE DEF type, ms, e
  <2>2. e = [id |-> id, messages |-> ms]
    BY DEF e
  <2> HIDE DEF q
  <2>3. q = Envs(t, type)
    BY DEF q
  <2> QED BY <1>0, <1>1, <1>2, <1>7, <1>9, <1>10, <2>1, <2>2, <2>3, BatchWaits
<1>12. Behind(r, cut, k + 1)
  <2>1. \A b \in DOMAIN cut : b > k + 1 => Ahead(ms, cut[b])
    <3>1. \A b \in DOMAIN cut : b > k + 1 => k + 1 \in 1 .. b - 1
      BY <1>0
    <3> QED BY <3>1
  <2>2. q \in Seq(Envelopes) /\ e \in Envelopes
    BY <1>0, <1>1, EnvelopesOf, AppBatchIs DEF Envs, Envelopes
  <2>a. e.messages = ms /\ ~Long(ms)
    OBVIOUS
  <2> HIDE DEF q, e, ms, type
  <2>3. Append(q, e) = Envs(r, type)
    BY <1>7
  <2>4. \A i \in DOMAIN Append(q, e) : (i \in DOMAIN q /\ Append(q, e)[i] = q[i]) \/ Append(q, e)[i] = e
    BY <2>2
  <2>5. type = "callback-polling"
    BY DEF type
  <2>6. \A i \in DOMAIN Append(q, e) :
          LET ls == Append(q, e)[i].messages
          IN  /\ ~Long(ls)
              /\ IsApp(ls) => \A b \in DOMAIN cut : b > k + 1 => Ahead(ls, cut[b])
    <3> SUFFICES ASSUME NEW i \in DOMAIN Append(q, e)
                 PROVE  /\ ~Long(Append(q, e)[i].messages)
                        /\ IsApp(Append(q, e)[i].messages) =>
                             \A b \in DOMAIN cut : b > k + 1 => Ahead(Append(q, e)[i].messages, cut[b])
      OBVIOUS
    <3>1. CASE Append(q, e)[i] = e
      BY <2>1, <2>a, <3>1
    <3>2. CASE i \in DOMAIN q /\ Append(q, e)[i] = q[i]
      <4>1. ~Long(q[i].messages)
        BY <1>10, <3>2 DEF NoLong, q
      <4>2. IsApp(q[i].messages) => \A b \in DOMAIN cut : b > k + 1 => Ahead(q[i].messages, cut[b])
        BY <1>10, <3>2
      <4> QED BY <3>2, <4>1, <4>2
    <3> QED BY <2>4, <3>1, <3>2
  <2> QED BY <2>3, <2>5, <2>6 DEF Behind
<1>13. Lines(s, r, P, N)
  <2>1. Same(s, r)
    BY <1>0, <1>7 DEF Same
  <2> QED BY <1>7, <1>11, <2>1 DEF Lines
<1> QED BY <1>4, <1>12, <1>13

LEMMA PiecesWait ==
  ASSUME MaxConnections = 2, NEW s \in Clients, s.transport = "callback-polling",
         s.transports["callback-polling"].requests # {}, HandshakeOver(s), NEW P, NEW N,
         NEW cut \in Seq(AppBatches),
         \A b \in DOMAIN cut :
           /\ ~Long(cut[b]) /\ Fine(cut[b], P, N) /\ Current(s, Session(cut[b]))
           /\ \A v \in Live(s) : ~v.served => Ahead(v.messages, cut[b])
           /\ \A a \in 1 .. b - 1 : Ahead(cut[a], cut[b]),
         Ordered(s, P, N), Behind(s, cut, 0)
  PROVE  Lines(s, sendPieces(s, cut), P, N)
<1> DEFINE n == Len(cut)
<1>1. n \in Nat /\ DOMAIN cut = 1 .. n
  OBVIOUS
<1>2. \A a \in Clients, i \in 1 .. n : sendPiece(a, cut[i]) \in Clients
  BY SendsPiece DEF Sends
<1> HIDE DEF n
<1>3. PICK g : SendSteps(g, s, cut, n) /\ sendPieces(s, cut) = g[n]
  BY <1>1, <1>2, FoldSend
<1> DEFINE S == {k \in Nat : k <= n => Lines(s, g[k], P, N) /\ Behind(g[k], cut, k)}
<1>4. 0 \in S
  <2>1. g[0] = s
    BY <1>3 DEF SendSteps
  <2>2. Lines(s, s, P, N)
    BY DEF Lines, Same
  <2> QED BY <2>1, <2>2
<1>5. \A k \in Nat : k \in S => k + 1 \in S
  <2> SUFFICES ASSUME NEW k \in Nat, Lines(s, g[k], P, N), Behind(g[k], cut, k), k + 1 <= n
               PROVE  Lines(s, g[k + 1], P, N) /\ Behind(g[k + 1], cut, k + 1)
    BY <1>1
  <2>1. k \in 0 .. n - 1 /\ k + 1 \in DOMAIN cut
    BY <1>1
  <2>2. g[k + 1] = sendPiece(g[k], cut[k + 1])
    BY <1>3, <2>1 DEF SendSteps
  <2> QED BY <2>1, <2>2, PieceWaits
<1>6. n \in S
  <2> HIDE DEF S
  <2> QED BY <1>1, <1>4, <1>5, SetInduction
<1> QED BY <1>1, <1>3, <1>6

-----------------------------------------------------------------------------
\* A request that a transport remembers, whether it has gone or was refused.
LEMMA RemembersOne ==
  ASSUME NEW s \in Clients, NEW type \in Types, NEW id \in Nat, s.transports[type].requests = {},
         NEW t, t = remember(s, type, id)
  PROVE  /\ t \in Clients /\ Same(s, t) /\ t.wire = s.wire /\ t.deferred = s.deferred
         /\ \A x \in Types : Envs(t, x) = Envs(s, x)
         /\ t.transports[type].requests = {id}
         /\ \A x \in Types \ {type} : t.transports[x].requests = s.transports[x].requests
<1>1. /\ Inside(s, t, type)
      /\ t.transports[type] = [s.transports[type] EXCEPT !.requests = @ \cup {id}]
  BY Remembers
<1>2. s.transports[type] \in Transports
  BY EnvelopesOf
<1>3. t.transports[type].requests = {id} /\ Envs(t, type) = Envs(s, type)
  <2>1. /\ t.transports[type].requests = s.transports[type].requests \cup {id}
        /\ t.transports[type].envelopes = s.transports[type].envelopes
    BY <1>1, <1>2 DEF Transports
  <2> QED BY <2>1 DEF Envs
<1>4. \A x \in Types \ {type} : t.transports[x] = s.transports[x]
  BY <1>1 DEF Inside
<1>5. t \in Clients /\ Same(s, t) /\ t.wire = s.wire /\ t.deferred = s.deferred
  BY <1>1 DEF Inside, Sends
<1>6. \A x \in Types : Envs(t, x) = Envs(s, x)
  BY <1>3, <1>4 DEF Envs
<1> QED BY <1>3, <1>4, <1>5, <1>6

LEMMA GoneIs ==
  ASSUME NEW t \in Clients, NEW r, NEW w, Gone(t, r, w)
  PROVE  /\ r \in Clients /\ Same(t, r) /\ r.wire = t.wire \cup {w} /\ r.deferred = t.deferred
         /\ \A x \in Types : Envs(r, x) = Envs(t, x)
         /\ \A x \in Types : r.transports[x].requests = t.transports[x].requests
BY DEF Gone, Steady, Envs

\* An envelope that no one transport need cut.
LEMMA AloneIsCut ==
  ASSUME NEW ms \in AppBatches, ~Long(ms), ~fits(ms)
  PROVE  \E i \in DOMAIN pieces(ms) : ~fits(pieces(ms)[i])
<1>1. ms \in Seq(AppMessages) /\ Len(ms) \in Nat \ {0} /\ DOMAIN ms = 1 .. Len(ms)
  BY AppBatchIs, BatchIs DEF AppBatches
<1>2. Len(ms) = 1
  BY <1>1 DEF Long
<1>3. ms[1] \in AppMessages
  BY <1>1, <1>2
<1>4. ms = <<ms[1]>>
  BY <1>1, <1>2, <1>3
<1>5. pieces(ms) = addPiece(<<>>, ms[1])
  <2>1. \A a \in Seq(AppBatches), i \in 1 .. 1 : addPiece(a, ms[i]) \in Seq(AppBatches)
    BY <1>3, AddsPiece
  <2>2. <<>> \in Seq(AppBatches)
    OBVIOUS
  <2>3. 1 \in Nat /\ DOMAIN ms = 1 .. 1
    BY <1>1, <1>2
  <2> HIDE <1>4
  <2> QED BY <2>1, <2>2, <2>3, FoldPieces
<1>6. pieces(ms) = <<ms>>
  <2>1. addPiece(<<>>, ms[1]) = <<<<ms[1]>>>>
    BY DEF addPiece
  <2> QED BY <1>4, <1>5, <2>1
<1> QED BY <1>6

LEMMA QueueApp ==
  ASSUME MaxConnections = 2, NEW s \in Clients, NEW P, NEW N, Ordered(s, P, N),
         NEW type, type = s.transport, NEW ms \in AppBatches, HandshakeOver(s), Fine(ms, P, N),
         Current(s, Session(ms)), NoLong(s, type),
         Long(ms) => /\ \A i \in DOMAIN Envs(s, type) : ~IsApp(Envs(s, type)[i].messages)
                     /\ s.transports[type].requests # {} => isDisconnected(s),
         s.transports[type].requests = {} =>
           \A i \in DOMAIN Envs(s, type) :
             IsApp(Envs(s, type)[i].messages) => Ahead(ms, Envs(s, type)[i].messages),
         s.transports[type].requests # {} =>
           /\ \A i \in DOMAIN Envs(s, type) :
                IsApp(Envs(s, type)[i].messages) => Ahead(Envs(s, type)[i].messages, ms)
           /\ \A v \in Live(s) : ~v.served => Ahead(v.messages, ms),
         NEW r, r = queueSend(s, type, ms)
  PROVE  Ordered(r, P, N) /\ Waited(r)
<1> DEFINE id == nextId(s, type)
           t == remember(s, type, id)
<1>0. type \in Types /\ ms \in Waiting /\ ms \in Batches /\ Kind(ms) \in App /\ Kind(ms) # "connect"
  BY AppBatchIs DEF Clients, App
<1>1. New(s, type, id) /\ id \in Nat
  BY <1>0, NextIdNew
<1>2. r = IF hasRoom(s, type) THEN transportSend(t, type, id, FALSE, ms) ELSE wait(s, type, id, ms)
  BY DEF queueSend
<1>r. r \in Clients /\ Same(s, r)
  BY <1>0, QueueSends DEF Sends
<1> HIDE DEF id, t
<1>3. Ordered(r, P, N) /\ r.transports[type].requests # {}
  <2>1. CASE ~hasRoom(s, type)
    <3>1. s.transports[type].requests # {}
      BY <1>0, <2>1, RoomIs DEF Ordered
    <3>2. r = wait(s, type, id, ms)
      BY <1>2, <2>1
    <3>3. /\ r \in Clients /\ Same(s, r) /\ r.wire = s.wire /\ r.deferred = s.deferred
          /\ Envs(r, type) = Append(Envs(s, type), [id |-> id, messages |-> ms])
          /\ \A x \in Types : r.transports[x].requests = s.transports[x].requests
          /\ \A x \in Types \ {type} : Envs(r, x) = Envs(s, x)
      BY <1>0, <1>1, <3>2, WaitAdds
    <3>4. Ordered(r, P, N)
      <4>1. /\ \A v \in Live(s) : ~v.served => Ahead(v.messages, ms)
            /\ \A i \in DOMAIN Envs(s, s.transport) :
                 /\ IsApp(Envs(s, s.transport)[i].messages) =>
                      Ahead(Envs(s, s.transport)[i].messages, ms)
                 /\ Long(ms) => ~IsApp(Envs(s, s.transport)[i].messages)
            /\ Long(ms) => isDisconnected(s)
        BY <3>1
      <4> QED BY <1>1, <3>1, <3>3, <4>1, BatchWaits
    <3> QED BY <1>0, <3>1, <3>3, <3>4
  <2>2. CASE hasRoom(s, type)
    <3>1. s.transports[type].requests = {}
      BY <1>0, <2>2, RoomIs DEF Ordered
    <3>2. r = transportSend(t, type, id, FALSE, ms)
      BY <1>2, <2>2
    <3>3. /\ t \in Clients /\ Same(s, t) /\ t.wire = s.wire /\ t.deferred = s.deferred
          /\ \A x \in Types : Envs(t, x) = Envs(s, x)
          /\ t.transports[type].requests = {id}
          /\ \A x \in Types \ {type} : t.transports[x].requests = s.transports[x].requests
      BY <1>0, <1>1, <3>1, RemembersOne DEF t
    \* a batch goes
    <3>4. ASSUME NEW u, NEW bs \in AppBatches, NEW xhr, Gone(t, u, Request(type, id, FALSE, bs, xhr)),
                 Fine(bs, P, N), Session(bs) = Session(ms),
                 \A ks : Ahead(ms, ks) => Ahead(bs, ks)
          PROVE  /\ Ordered(u, P, N) /\ u \in Clients /\ Same(s, u)
                 /\ u.transports[type].requests = {id}
                 /\ u.wire = s.wire \cup {Request(type, id, FALSE, bs, xhr)}
                 /\ \A x \in Types : Envs(u, x) = Envs(s, x)
      <4> DEFINE w == Request(type, id, FALSE, bs, xhr)
      <4>1. w.type = s.transport /\ w.id = id /\ w.messages = bs /\ ~w.served /\ ~w.expired
        BY DEF Request
      <4> HIDE DEF w
      <4>2. /\ u \in Clients /\ Same(t, u) /\ u.wire = t.wire \cup {w} /\ u.deferred = t.deferred
            /\ \A x \in Types : Envs(u, x) = Envs(t, x)
            /\ \A x \in Types : u.transports[x].requests = t.transports[x].requests
        <5>1. Gone(t, u, w)
          BY <3>4 DEF w
        <5> QED BY <3>3, <5>1, GoneIs
      <4>3. /\ Same(s, u) /\ u.wire = s.wire \cup {w} /\ u.deferred = s.deferred
            /\ \A x \in Types : Envs(u, x) = Envs(s, x)
            /\ u.transports[type].requests = {id}
            /\ \A x \in Types \ {type} : u.transports[x].requests = s.transports[x].requests
        <5>1. Same(s, u)
          BY <3>3, <4>2 DEF Same
        <5> QED BY <1>0, <3>3, <4>2, <5>1
      <4>4. \A i \in DOMAIN Envs(s, s.transport) :
              IsApp(Envs(s, s.transport)[i].messages) => Ahead(bs, Envs(s, s.transport)[i].messages)
        BY <3>1, <3>4
      <4>5. Current(s, Session(bs)) /\ Fine(bs, P, N)
        BY <3>4
      <4>6. Ordered(u, P, N)
        BY <1>1, <3>1, <4>1, <4>2, <4>3, <4>4, <4>5, BatchGoes
      <4> QED BY <4>2, <4>3, <4>6 DEF w
    <3>5. \A ks : Ahead(ms, ks) => Ahead(ms, ks)
      OBVIOUS
    <3>6. CASE type = "long-polling"
      <4>1. r = xhrSend(t, id, FALSE, ms)
        BY <3>2, <3>6 DEF transportSend
      <4>2. Gone(t, r, Request(type, id, FALSE, ms, TRUE))
        BY <1>0, <1>1, <3>3, <3>6, <4>1, XhrSends
      <4> QED BY <3>4, <3>5, <4>2
    <3>7. CASE type # "long-polling"
      <4>0. type = "callback-polling"
        BY <1>0, <3>7, TypesAre
      <4>1. r = callbackSend(t, id, FALSE, ms)
        BY <3>2, <3>7 DEF transportSend
      <4>2. CASE fits(ms)
        <5>1. r = jsonpSend(t, id, FALSE, ms)
          BY <4>1, <4>2 DEF callbackSend
        <5>2. Gone(t, r, Request(type, id, FALSE, ms, FALSE))
          BY <1>0, <1>1, <3>3, <4>0, <5>1, JsonpSends
        <5> QED BY <3>4, <3>5, <5>2
      <4>3. CASE ~fits(ms) /\ \E i \in DOMAIN pieces(ms) : ~fits(pieces(ms)[i])
        <5>1. r = failLater(t, type, id, ms)
          BY <4>0, <4>1, <4>3 DEF callbackSend
        <5>2. /\ r.wire = t.wire /\ r.transports = t.transports
              /\ r.deferred = Append(t.deferred, [type |-> type, id |-> id, messages |-> ms])
          BY <1>0, <1>1, <3>3, <5>1, FailsLater
        <5>3. \A x \in Types : Envs(r, x) = Envs(s, x)
          BY <3>3, <5>2 DEF Envs
        <5>4. r.wire = s.wire /\ r.deferred = Append(s.deferred, [type |-> type, id |-> id, messages |-> ms])
          BY <3>3, <5>2
        <5>5. /\ r.transports[type].requests = {id}
              /\ \A x \in Types \ {type} : r.transports[x].requests = s.transports[x].requests
          BY <3>3, <5>2
        <5>6. Ordered(r, P, N)
          BY <1>0, <1>1, <1>r, <3>1, <5>3, <5>4, <5>5, BatchRefused
        <5> QED BY <5>5, <5>6
      <4>4. CASE ~fits(ms) /\ ~ \E i \in DOMAIN pieces(ms) : ~fits(pieces(ms)[i])
        <5> DEFINE cut == pieces(ms)
                   u == jsonpSend(t, id, FALSE, cut[1])
                   rest == Tail(cut)
        <5>1. r = sendPieces(u, rest)
          BY <4>1, <4>4 DEF callbackSend
        <5>2. Long(ms)
          BY <4>4, AloneIsCut
        <5>3. /\ cut \in Seq(AppBatches) \ {<<>>}
              /\ \A b \in DOMAIN cut :
                   /\ cut[b] \in AppBatches /\ ~Long(cut[b])
                   /\ Session(cut[b]) = Session(ms)
                   /\ Fine(cut[b], P, N)
                   /\ \A a \in 1 .. b - 1 : Ahead(cut[a], cut[b])
                   /\ \A ks : Ahead(ks, ms) => Ahead(ks, cut[b])
                   /\ \A ks : Ahead(ms, ks) => Ahead(cut[b], ks)
          BY PiecesFine
        <5> HIDE DEF cut
        <5>4. /\ Len(cut) \in Nat \ {0} /\ DOMAIN cut = 1 .. Len(cut) /\ 1 \in DOMAIN cut
              /\ rest \in Seq(AppBatches) /\ DOMAIN rest = 1 .. Len(cut) - 1
              /\ \A b \in DOMAIN rest : b + 1 \in DOMAIN cut /\ rest[b] = cut[b + 1]
          <6>1. Len(cut) \in Nat \ {0} /\ DOMAIN cut = 1 .. Len(cut)
            BY <5>3, EmptySeq
          <6>2. rest \in Seq(AppBatches) /\ Len(rest) = Len(cut) - 1
                /\ \A b \in 1 .. Len(cut) - 1 : rest[b] = cut[b + 1]
            BY <5>3, <6>1
          <6>3. DOMAIN rest = 1 .. Len(cut) - 1
            BY <6>1, <6>2
          <6> HIDE DEF rest
          <6> QED BY <6>1, <6>2, <6>3
        <5> DEFINE w == Request(type, id, FALSE, cut[1], FALSE)
        <5>5. cut[1] \in AppBatches /\ Kind(cut[1]) # "connect" /\ cut[1] \in Batches
          BY <5>3, <5>4, AppBatchIs DEF App
        <5>6. Gone(t, u, w)
          BY <1>1, <3>3, <4>0, <5>5, JsonpSends
        <5> HIDE DEF u, rest
        <5>7. /\ Ordered(u, P, N) /\ u \in Clients /\ Same(s, u)
              /\ u.transports[type].requests = {id}
              /\ u.wire = s.wire \cup {w}
              /\ \A x \in Types : Envs(u, x) = Envs(s, x)
          BY <3>4, <5>3, <5>4, <5>5, <5>6
        <5>8. w.messages = cut[1] /\ w.type = type /\ w.id = id
          BY DEF Request
        <5> HIDE DEF w
        <5>9. u.transport = type /\ HandshakeOver(u)
          <6>1. Kind(w.messages) # "handshake"
            BY <5>5, <5>8, AppBatchIs DEF App
          <6> QED BY <5>7, <6>1 DEF Same, HandshakeOver, Tokens
        <5>10. ASSUME NEW v \in Live(u)
               PROVE  v = w \/ (v \in Live(s) /\ Session(v.messages) # Session(ms))
          <6>1. v = w \/ v \in Live(s)
            BY <5>7 DEF Live
          <6>2. ASSUME v \in Live(s), Known(s, v)
                PROVE  FALSE
            <7>1. v.type = type
              BY <6>2 DEF Ordered, Place
            <7> QED BY <3>1, <6>2, <7>1 DEF Known
          <6> QED BY <6>1, <6>2 DEF Current
        <5>11. Known(u, w)
          BY <5>7, <5>8 DEF Known
        <5>12. ASSUME NEW b \in DOMAIN rest
               PROVE  /\ ~Long(rest[b]) /\ Fine(rest[b], P, N) /\ Current(u, Session(rest[b]))
                      /\ \A v \in Live(u) : ~v.served => Ahead(v.messages, rest[b])
                      /\ \A a \in 1 .. b - 1 : Ahead(rest[a], rest[b])
          <6>1. /\ b + 1 \in DOMAIN cut /\ rest[b] = cut[b + 1] /\ 1 \in 1 .. (b + 1) - 1
                /\ \A a \in 1 .. b - 1 : a + 1 \in 1 .. (b + 1) - 1 /\ rest[a] = cut[a + 1]
            BY <5>4
          <6>2. ~Long(rest[b]) /\ Fine(rest[b], P, N) /\ Session(rest[b]) = Session(ms)
            BY <5>3, <6>1
          <6>3. \A a \in 1 .. b - 1 : Ahead(rest[a], rest[b])
            BY <5>3, <6>1
          <6>4. Ahead(cut[1], rest[b])
            BY <5>3, <6>1
          <6>5. \A v \in Live(u) : ~v.served => Ahead(v.messages, rest[b])
            BY <5>8, <5>10, <6>2, <6>4 DEF Ahead
          <6>6. Current(u, Session(rest[b]))
            BY <5>10, <5>11, <6>2 DEF Current
          <6> QED BY <6>2, <6>3, <6>5, <6>6
        <5>13. Behind(u, rest, 0)
          <6>1. \A i \in DOMAIN Envs(s, type) :
                  ~Long(Envs(s, type)[i].messages) /\ ~IsApp(Envs(s, type)[i].messages)
            BY <5>2 DEF NoLong
          <6> QED BY <4>0, <5>7, <1>0, <6>1 DEF Behind
        <5>14. Lines(u, r, P, N)
          <6>1. u.transport = "callback-polling" /\ u.transports["callback-polling"].requests # {}
            BY <4>0, <5>7, <5>9
          <6>2. \A b \in DOMAIN rest :
                  /\ ~Long(rest[b]) /\ Fine(rest[b], P, N) /\ Current(u, Session(rest[b]))
                  /\ \A v \in Live(u) : ~v.served => Ahead(v.messages, rest[b])
                  /\ \A a \in 1 .. b - 1 : Ahead(rest[a], rest[b])
            BY <5>12
          <6>3. rest \in Seq(AppBatches) /\ u \in Clients /\ Ordered(u, P, N)
            BY <5>4, <5>7
          <6>4. Lines(u, sendPieces(u, rest), P, N)
            BY <5>9, <5>13, <6>1, <6>2, <6>3, PiecesWait
          <6> QED BY <5>1, <6>4
        <5> QED BY <1>0, <5>7, <5>14 DEF Lines
      <4> QED BY <4>2, <4>3, <4>4
    <3> QED BY <3>6, <3>7
  <2> QED BY <2>1, <2>2
<1>4. r.transport = type
  BY <1>r DEF Same
<1> QED BY <1>3, <1>4, WaitedIf

-----------------------------------------------------------------------------
\* The end of a request: nothing waits, or the first that waits is sent, or fails later.
Left(s, t, type, id, q) ==
  /\ t \in Clients /\ Same(s, t) /\ t.wire = s.wire
  /\ \A x \in Types \ {type} : t.transports[x] = s.transports[x]
  /\ Envs(t, type) = q /\ t.transports[type].requests = s.transports[type].requests \ {id}
First(t, type, ms) == IF hasRoom(t, type) THEN ms ELSE Displaced(ms)

Ending(s, r, type, id, success) ==
  \/ Envs(s, type) = <<>> /\ Left(s, r, type, id, <<>>) /\ r.deferred = s.deferred
  \/ /\ Envs(s, type) # <<>> /\ success
     /\ \E t : /\ Left(s, t, type, id, Tail(Envs(s, type))) /\ t.deferred = s.deferred
               /\ r = queueSend(t, type, First(t, type, Head(Envs(s, type)).messages))
  \/ /\ Envs(s, type) # <<>> /\ ~success
     /\ Left(s, r, type, id, AllDisplaced(Tail(Envs(s, type))))
     /\ r.deferred = Append(s.deferred, [type |-> type, id |-> Head(Envs(s, type)).id,
                                         messages |-> Head(Envs(s, type)).messages])

LEMMA WaitsFields ==
  ASSUME NEW s \in Clients, NEW type \in Types, NEW q \in Seq(Envelopes),
         NEW r, r = Waits(s, type, q)
  PROVE  /\ Inside(s, r, type) /\ r.transports[type].envelopes = q
         /\ r.transports[type].requests = s.transports[type].requests
<1>1. /\ Inside(s, Waits(s, type, q), type)
      /\ Waits(s, type, q).transports[type] = [s.transports[type] EXCEPT !.envelopes = q]
  BY WaitsAre
<1>2. s.transports[type] \in Transports
  BY EnvelopesOf
<1> QED BY <1>1, <1>2 DEF Transports

LEMMA EndingIs ==
  ASSUME NEW s \in Clients, NEW type \in Types, NEW id, NEW success \in BOOLEAN
  PROVE  Ending(s, completeRequest(s, type, id, success), type, id, success)
<1> DEFINE done == forget(s, type, id)
           waiting == done.transports[type].envelopes
           next == Head(waiting)
           shifted == [done EXCEPT !.transports[type].envelopes = Tail(@)]
<1>1. /\ Inside(s, done, type)
      /\ done.transports[type] = [s.transports[type] EXCEPT !.requests = @ \ {id}]
  BY Forgets
<1>2. waiting = Envs(s, type) /\ waiting \in Seq(Envelopes)
  BY <1>1, EnvelopesOf DEF Transports, Envs
<1>3. done \in Clients /\ Sends(s, done)
  BY <1>1 DEF Inside, Sends
<1>4. done.transports[type].requests = s.transports[type].requests \ {id}
  BY <1>1, EnvelopesOf DEF Transports
<1>5. Left(s, done, type, id, waiting) /\ done.deferred = s.deferred
  <2> HIDE DEF done
  <2> QED BY <1>1, <1>2, <1>3, <1>4 DEF Left, Inside, Sends, Envs
<1>6. CASE waiting = <<>>
  <2>1. completeRequest(s, type, id, success) = done
    BY <1>6 DEF completeRequest
  <2> HIDE DEF done, waiting
  <2> QED BY <1>2, <1>5, <1>6, <2>1 DEF Ending
<1>7. CASE waiting # <<>>
  <2>1. next \in Envelopes /\ Tail(waiting) \in Seq(Envelopes)
    <3> HIDE DEF waiting
    <3> QED BY <1>2, <1>7, TailIn
  <2>2. next.id \in Nat /\ next.messages \in Waiting
    BY <2>1 DEF Envelopes
  <2>3. shifted = Waits(done, type, Tail(waiting))
    BY <1>3 DEF Waits, Clients, Transports
  <2>0. next = Head(Envs(s, type)) /\ Tail(waiting) = Tail(Envs(s, type)) /\ Envs(s, type) # <<>>
    BY <1>2, <1>7
  <2> HIDE DEF done, waiting, next
  <2>4. Left(s, shifted, type, id, Tail(waiting)) /\ shifted.deferred = s.deferred
    <3> HIDE DEF shifted
    <3>1. /\ Inside(done, shifted, type)
          /\ shifted.transports[type].envelopes = Tail(waiting)
          /\ shifted.transports[type].requests = done.transports[type].requests
      <4> DEFINE q == Tail(waiting)
      <4> HIDE DEF q
      <4>1. done \in Clients /\ q \in Seq(Envelopes) /\ shifted = Waits(done, type, q)
        BY <1>3, <2>1, <2>3 DEF q
      <4>2. /\ Inside(done, shifted, type) /\ shifted.transports[type].envelopes = q
            /\ shifted.transports[type].requests = done.transports[type].requests
        BY <4>1, WaitsFields
      <4> QED BY <4>2 DEF q
    <3>4. /\ shifted \in Clients /\ Same(s, shifted) /\ shifted.wire = s.wire
          /\ shifted.deferred = s.deferred
      BY <1>5, <3>1 DEF Left, Inside, Sends, Same
    <3>5. \A x \in Types \ {type} : shifted.transports[x] = s.transports[x]
      BY <1>5, <3>1 DEF Left, Inside
    <3> QED BY <1>4, <3>1, <3>4, <3>5 DEF Left, Envs
  <2> DEFINE late == failLater(shifted, type, next.id, next.messages)
  <2>7. CASE success
    <3>2. completeRequest(s, type, id, success) =
            After(shifted, LAMBDA t : queueSend(t, type, IF hasRoom(t, type) THEN next.messages
                                                          ELSE Displaced(next.messages)))
      BY <1>7, <2>7, Zenon DEF completeRequest, done, waiting, next
    <3>3. After(shifted, LAMBDA t : queueSend(t, type, IF hasRoom(t, type) THEN next.messages
                                                          ELSE Displaced(next.messages)))
            = queueSend(shifted, type, First(shifted, type, next.messages))
      <4> HIDE DEF shifted
      <4> QED BY DEF After, First
    <3> HIDE DEF shifted
    <3>4. completeRequest(s, type, id, success) =
            queueSend(shifted, type, First(shifted, type, Head(Envs(s, type)).messages))
      BY <2>0, <3>2, <3>3
    <3>5. Left(s, shifted, type, id, Tail(Envs(s, type)))
      BY <2>0, <2>4
    <3> QED BY <2>0, <2>4, <2>7, <3>4, <3>5 DEF Ending
  <2>8. CASE ~success
    <3>0. shifted \in Clients
      BY <2>4 DEF Left
    <3>1. /\ late \in Clients /\ Same(shifted, late) /\ late.wire = shifted.wire
          /\ late.transports = shifted.transports
          /\ late.deferred = Append(shifted.deferred, [type |-> type, id |-> next.id,
                                                       messages |-> next.messages])
      <4> HIDE DEF shifted
      <4> QED BY <2>2, <3>0, FailsLater DEF Sends
    <3> DEFINE after == [late EXCEPT !.transports[type].envelopes = AllDisplaced(@)]
               q == late.transports[type].envelopes
    <3>a. q = Tail(waiting)
      <4> HIDE DEF late, shifted
      <4> QED BY <2>4, <3>1 DEF Left, Envs
    <3>2. AllDisplaced(q) \in Seq(Envelopes)
      BY <2>1, <3>a, AllDisplacedAre
    <3>3. after = Waits(late, type, AllDisplaced(q))
      <4> HIDE DEF late
      <4> QED BY <3>1 DEF Waits, Clients, Transports
    <3>5. completeRequest(s, type, id, success) = after
      BY <1>7, <2>8 DEF completeRequest, done, waiting, next
    <3> HIDE DEF shifted, late, after
    <3> HIDE DEF q
    <3>4. Inside(late, after, type)
      BY <3>1, <3>2, <3>3, WaitsFields
    <3>7. /\ after.transports[type].envelopes = AllDisplaced(q)
          /\ after.transports[type].requests = late.transports[type].requests
      BY <3>1, <3>2, <3>3, WaitsFields
    <3>8. /\ after \in Clients /\ Same(s, after) /\ after.wire = s.wire
          /\ after.deferred = late.deferred
      <4>1. Same(shifted, late) /\ Same(late, after)
        BY <3>1, <3>4 DEF Inside, Sends
      <4>2. Same(s, after)
        BY <2>4, <4>1 DEF Left, Same
      <4> QED BY <2>4, <3>1, <3>4, <4>2 DEF Left, Inside, Sends
    <3>9. \A x \in Types \ {type} : after.transports[x] = s.transports[x]
      BY <2>4, <3>1, <3>4 DEF Left, Inside
    <3>10. /\ Envs(after, type) = AllDisplaced(Tail(Envs(s, type)))
           /\ after.transports[type].requests = s.transports[type].requests \ {id}
      BY <2>0, <2>4, <3>1, <3>7, <3>a DEF Left, Envs
    <3>11. Left(s, after, type, id, AllDisplaced(Tail(Envs(s, type))))
      BY <3>8, <3>9, <3>10 DEF Left
    <3>12. after.deferred = Append(s.deferred, [type |-> type, id |-> Head(Envs(s, type)).id,
                                                messages |-> Head(Envs(s, type)).messages])
      BY <2>0, <2>4, <3>1, <3>8
    <3> QED BY <2>0, <2>8, <3>5, <3>11, <3>12 DEF Ending
  <2> QED BY <2>7, <2>8
<1> QED BY <1>6, <1>7

-----------------------------------------------------------------------------
LEMMA QueueMeta ==
  ASSUME MaxConnections = 2, NEW s \in Clients, NEW P, NEW N, Ordered(s, P, N),
         NEW type \in Types, NEW ms \in MetaBatches, Kind(ms) # "connect",
         s.transports[type].requests # {} => ms \in Waiting, NEW r, r = queueSend(s, type, ms)
  PROVE  /\ Ordered(r, P, N) /\ r \in Clients /\ Same(s, r)
         /\ r.transports[type].requests # {} /\ Live(r) = Live(s)
         /\ \A x \in Types \ {type} :
              Envs(r, x) = Envs(s, x) /\ r.transports[x].requests = s.transports[x].requests
<1> DEFINE id == nextId(s, type)
<1>1. New(s, type, id) /\ id \in Nat
  BY NextIdNew
<1>2. CASE s.transports[type].requests = {}
  <2> DEFINE w == Request(type, id, FALSE, ms, type = "long-polling")
  <2>0. /\ queueSend(s, type, ms) \in Clients /\ Same(s, queueSend(s, type, ms)) /\ id \in Nat
        /\ queueSend(s, type, ms).wire = s.wire \cup {w}
        /\ queueSend(s, type, ms).transports[type] = [s.transports[type] EXCEPT !.requests = {id}]
        /\ \A t \in Types \ {type} : queueSend(s, type, ms).transports[t] = s.transports[t]
        /\ queueSend(s, type, ms).deferred = s.deferred
    BY <1>2, QueueSendsMeta, ZenonT(60)
  <2>1. /\ r \in Clients /\ Same(s, r) /\ r.wire = s.wire \cup {w}
        /\ \A t \in Types \ {type} : r.transports[t] = s.transports[t]
        /\ r.deferred = s.deferred
    BY <2>0
  <2>2. w.type = type /\ w.id = id /\ w.messages = ms /\ ~w.served
    BY DEF Request
  <2>3. s.transports[type] \in Transports
    BY EnvelopesOf
  <2> HIDE DEF w, id
  <2>4. /\ r.transports[type].requests = {id}
        /\ r.transports[type].envelopes = s.transports[type].envelopes
    BY <2>0, <2>3 DEF Transports
  <2>5. \A t \in Types : Envs(r, t) = Envs(s, t)
    BY <2>1, <2>4 DEF Envs
  <2>6. \A t \in Types :
          \/ r.transports[t].requests = s.transports[t].requests
          \/ t = type /\ s.transports[t].requests = {} /\ r.transports[t].requests = {id}
    BY <1>2, <2>1, <2>4
  <2>7. Ordered(r, P, N)
    BY <1>1, <2>1, <2>2, <2>5, <2>6, MetaGoes
  <2>8. Live(r) = Live(s)
    <3>1. ~IsApp(ms)
      BY DEF IsApp, MetaBatches, Kind
    <3> QED BY <2>1, <2>2, <3>1 DEF Live
  <2> QED BY <2>1, <2>4, <2>5, <2>7, <2>8
<1>3. CASE s.transports[type].requests # {}
  <2>1. ~hasRoom(s, type)
    BY <1>3, RoomIs DEF Ordered
  <2>2. r = wait(s, type, id, ms)
    BY <2>1 DEF queueSend
  <2> HIDE DEF id
  <2>3. /\ r \in Clients /\ Same(s, r) /\ r.wire = s.wire /\ r.deferred = s.deferred
        /\ Envs(r, type) = Append(Envs(s, type), [id |-> id, messages |-> ms])
        /\ \A x \in Types : r.transports[x].requests = s.transports[x].requests
        /\ \A x \in Types \ {type} : Envs(r, x) = Envs(s, x)
    BY <1>1, <1>3, <2>2, WaitAdds
  <2>4. Ordered(r, P, N)
    BY <1>1, <1>3, <2>3, MetaWaits
  <2> QED BY <1>3, <2>3, <2>4 DEF Live
<1> QED BY <1>2, <1>3

LEMMA WaitedAt ==
  ASSUME NEW s, NEW r, NEW type, Waited(s), r.transports[type].requests # {},
         \A x \in Types \ {type} :
           Envs(r, x) = Envs(s, x) /\ r.transports[x].requests = s.transports[x].requests
  PROVE  Waited(r)
BY DEF Waited

-----------------------------------------------------------------------------
\* The client handshakes only while its messages wait.
Shaking(s) == \A v \in Tokens(s) : Kind(v.messages) = "handshake" => s.internalBatch

LEMMA LostIs ==
  ASSUME NEW ms, Lost(ms)
  PROVE  \A ks : Ahead(ks, ms)
BY DEF Lost, Ahead, Before

LEMMA LeftShifts ==
  ASSUME NEW s \in Clients, NEW r, NEW type \in Types, NEW id, NEW q, Left(s, r, type, id, q),
         \A v \in Live(s) : ~(v.type = type /\ v.id = id),
         NEW d \in {0, 1}, DOMAIN q = 1 .. Len(Envs(s, type)) - d,
         \A i \in DOMAIN q : /\ q[i].id = Envs(s, type)[i + d].id
                             /\ Alike(q[i].messages, Envs(s, type)[i + d].messages),
         \A i \in DOMAIN r.deferred :
           \/ \E k \in DOMAIN s.deferred : r.deferred[i] = s.deferred[k]
           \/ /\ r.deferred[i].type = type
              /\ \E k \in DOMAIN Envs(s, type) : r.deferred[i].id = Envs(s, type)[k].id
  PROVE  Shifts(s, r, type, d)
<1>1. \A v \in Live(s) : Known(s, v) => Known(r, v)
  <2>1. \A v \in Live(s) : v.type \in Types
    BY DEF Live, Clients, UnderWay, Requests
  <2> SUFFICES ASSUME NEW v \in Live(s), Known(s, v) PROVE Known(r, v)
    OBVIOUS
  <2>2. CASE v.type = type
    BY <2>2 DEF Known, Left
  <2>3. CASE v.type # type
    BY <2>1, <2>3 DEF Known, Left
  <2> QED BY <2>2, <2>3
<1>2. /\ r.transports[type].requests \subseteq s.transports[type].requests
      /\ \A t \in Types \ {type} :
           Envs(r, t) = Envs(s, t) /\ r.transports[t].requests = s.transports[t].requests
  BY DEF Left, Envs
<1> QED BY <1>1, <1>2 DEF Shifts, Left

\* What waits without its first.
LEMMA TailIs ==
  ASSUME NEW s \in Clients, NEW type \in Types, Envs(s, type) # <<>>
  PROVE  LET q == Envs(s, type)
         IN  /\ Len(q) \in Nat \ {0} /\ 1 \in DOMAIN q /\ DOMAIN q = 1 .. Len(q)
             /\ Head(q) = q[1] /\ q[1].id \in Nat /\ q[1].messages \in Waiting /\ q[1].messages \in Batches
             /\ Tail(q) \in Seq(Envelopes)
             /\ DOMAIN Tail(q) = 1 .. Len(q) - 1
             /\ \A i \in DOMAIN Tail(q) :
                  /\ i + 1 \in DOMAIN q /\ 1 \in 1 .. (i + 1) - 1 /\ Tail(q)[i] = q[i + 1]
                  /\ q[i + 1].messages \in Waiting /\ q[i + 1].messages \in Batches
<1> DEFINE q == Envs(s, type)
<1>1. q \in Seq(Envelopes) /\ q # <<>>
  BY EnvelopesOf DEF Envs
<1>2. \A e \in Envelopes : e.id \in Nat /\ e.messages \in Waiting /\ e.messages \in Batches
  BY DEF Envelopes, Waiting
<1> HIDE DEF q
<1>3. Len(q) \in Nat \ {0} /\ DOMAIN q = 1 .. Len(q) /\ 1 \in DOMAIN q
  BY <1>1, EmptySeq
<1>4. Head(q) = q[1] /\ \A i \in DOMAIN q : q[i] \in Envelopes
  BY <1>1, <1>3
<1>5. Tail(q) \in Seq(Envelopes) /\ Len(Tail(q)) = Len(q) - 1
      /\ \A i \in 1 .. Len(q) - 1 : Tail(q)[i] = q[i + 1]
  BY <1>1, <1>3
<1>6. DOMAIN Tail(q) = 1 .. Len(q) - 1
  BY <1>3, <1>5
<1>7. \A i \in 1 .. Len(q) - 1 : i + 1 \in DOMAIN q /\ 1 \in 1 .. (i + 1) - 1
  BY <1>3
<1> QED BY <1>2, <1>3, <1>4, <1>5, <1>6, <1>7 DEF q

LEMMA CompletesOrdered ==
  ASSUME MaxConnections = 2, NEW s \in Clients, NEW P, NEW N, Ordered(s, P, N), Waited(s), Shaking(s),
         NEW type \in Types, NEW id, \A v \in Live(s) : ~(v.type = type /\ v.id = id),
         NEW success \in BOOLEAN, NEW r, r = completeRequest(s, type, id, success)
  PROVE  Ordered(r, P, N) /\ Waited(r) /\ (NoApps(s) => Live(r) = Live(s))
<1> DEFINE q == Envs(s, type)
           next == q[1].messages
<1>0. Ending(s, r, type, id, success)
  BY EndingIs
<1>1. CASE q = <<>>
  <2>1. Left(s, r, type, id, <<>>) /\ r.deferred = s.deferred
    BY <1>0, <1>1 DEF Ending
  <2>2. Shifts(s, r, type, 0)
    <3>1. DOMAIN <<>> = 1 .. Len(q) - 0
      BY <1>1
    <3> HIDE DEF q
    <3>2. \A i \in DOMAIN r.deferred : \E k \in DOMAIN s.deferred : r.deferred[i] = s.deferred[k]
      BY <2>1
    <3>3. \A i \in DOMAIN <<>> : FALSE
      OBVIOUS
    <3>4. 0 \in {0, 1}
      OBVIOUS
    <3> QED BY <2>1, <3>1, <3>2, <3>3, <3>4, LeftShifts DEF q
  <2>3. Ordered(r, P, N)
    <3>1. r \in Clients /\ Same(s, r) /\ 0 \in {0, 1}
      BY <2>1 DEF Left
    <3> QED BY <2>2, <3>1, ShiftsOrdered
  <2>4. Waited(r)
    <3>1. DOMAIN <<>> = {}
      OBVIOUS
    <3>2. \A i \in DOMAIN Envs(r, type) : FALSE
      BY <2>1, <3>1 DEF Left
    <3>3. \A t \in Types \ {type} : r.transports[t] = s.transports[t]
      BY <2>1 DEF Left
    <3>4. \A t \in Types \ {type} : Envs(r, t) = Envs(s, t)
      BY <3>3 DEF Envs
    <3> QED BY <3>2, <3>3, <3>4 DEF Waited
  <2>5. Live(r) = Live(s)
    BY <2>1 DEF Left, Live
  <2> QED BY <2>3, <2>4, <2>5
<1>2. CASE q # <<>>
  <2>1. /\ Len(q) \in Nat \ {0} /\ 1 \in DOMAIN q /\ DOMAIN q = 1 .. Len(q)
        /\ Head(q) = q[1] /\ q[1].id \in Nat /\ next \in Waiting /\ next \in Batches
        /\ Tail(q) \in Seq(Envelopes)
        /\ DOMAIN Tail(q) = 1 .. Len(q) - 1
        /\ \A i \in DOMAIN Tail(q) :
             /\ i + 1 \in DOMAIN q /\ 1 \in 1 .. (i + 1) - 1 /\ Tail(q)[i] = q[i + 1]
             /\ q[i + 1].messages \in Waiting /\ q[i + 1].messages \in Batches
    BY <1>2, TailIs
  <2>2. CASE ~success
    <3>1. /\ Left(s, r, type, id, AllDisplaced(Tail(q)))
          /\ r.deferred = Append(s.deferred, [type |-> type, id |-> Head(q).id,
                                              messages |-> Head(q).messages])
      BY <1>0, <1>2, <2>2 DEF Ending
    <3> DEFINE p == AllDisplaced(Tail(q))
    <3>2. DOMAIN p = 1 .. Len(q) - 1
      BY <2>1 DEF AllDisplaced
    <3>3. \A i \in DOMAIN p : p[i].id = q[i + 1].id /\ p[i].messages = Displaced(q[i + 1].messages)
      <4> HIDE DEF q
      <4>1. \A e \in Envelopes : /\ [e EXCEPT !.messages = Displaced(@)].id = e.id
                                 /\ [e EXCEPT !.messages = Displaced(@)].messages = Displaced(e.messages)
        BY DEF Envelopes
      <4>2. \A i \in DOMAIN p : i \in DOMAIN Tail(q)
        BY <2>1, <3>2
      <4>3. \A i \in DOMAIN Tail(q) : Tail(q)[i] \in Envelopes
        BY <2>1
      <4> QED BY <2>1, <4>1, <4>2, <4>3 DEF AllDisplaced
    <3>4. \A i \in DOMAIN p :
            Alike(p[i].messages, q[i + 1].messages) /\ Lost(p[i].messages)
      <4>1. \A i \in DOMAIN p : q[i + 1].messages \in Batches
        BY <2>1, <3>2
      <4> HIDE DEF p, q
      <4> QED BY <3>3, <4>1, AlikeIs
    <3>5. \A i \in DOMAIN r.deferred :
            \/ \E k \in DOMAIN s.deferred : r.deferred[i] = s.deferred[k]
            \/ r.deferred[i].type = type /\ \E k \in DOMAIN q : r.deferred[i].id = q[k].id
      <4> DEFINE e == [type |-> type, id |-> Head(q).id, messages |-> Head(q).messages]
      <4>1. e.type = type /\ e.id = q[1].id
        BY <2>1
      <4>2. r.deferred = Append(s.deferred, e)
        BY <3>1
      <4> HIDE DEF e, q
      <4>3. s.deferred \in Seq(Failures)
        BY EnvelopesOf
      <4>4. /\ Len(s.deferred) \in Nat /\ DOMAIN s.deferred = 1 .. Len(s.deferred)
            /\ DOMAIN Append(s.deferred, e) = 1 .. Len(s.deferred) + 1
            /\ \A i \in 1 .. Len(s.deferred) : Append(s.deferred, e)[i] = s.deferred[i]
            /\ Append(s.deferred, e)[Len(s.deferred) + 1] = e
        BY <4>3
      <4>5. \A i \in 1 .. Len(s.deferred) + 1 : i \in 1 .. Len(s.deferred) \/ i = Len(s.deferred) + 1
        BY <4>4
      <4> QED BY <2>1, <4>1, <4>2, <4>4, <4>5
    <3>6. Shifts(s, r, type, 1)
      <4> HIDE DEF p, q
      <4>1. \A i \in DOMAIN p : p[i].id = q[i + 1].id /\ Alike(p[i].messages, q[i + 1].messages)
        BY <3>3, <3>4
      <4>2. Left(s, r, type, id, p) /\ 1 \in {0, 1}
        BY <3>1 DEF p
      <4> QED BY <3>2, <3>5, <4>1, <4>2, LeftShifts DEF q
    <3>7. Ordered(r, P, N)
      <4>1. r \in Clients /\ Same(s, r) /\ 1 \in {0, 1}
        BY <3>1 DEF Left
      <4> QED BY <3>6, <4>1, ShiftsOrdered
    <3>8. Waited(r)
      <4>1. Envs(r, type) = p /\ \A t \in Types \ {type} : r.transports[t] = s.transports[t]
        BY <3>1 DEF Left
      <4>2. \A t \in Types \ {type} : Envs(r, t) = Envs(s, t)
        BY <4>1 DEF Envs
      <4> HIDE DEF p
      <4> QED BY <3>4, <4>1, <4>2 DEF Waited
    <3>9. Live(r) = Live(s)
      BY <3>1 DEF Left, Live
    <3> QED BY <3>7, <3>8, <3>9
  <2>3. CASE success
    <3>1. PICK t : /\ Left(s, t, type, id, Tail(q)) /\ t.deferred = s.deferred
                   /\ r = queueSend(t, type, First(t, type, next))
      BY <1>0, <1>2, <2>1, <2>3 DEF Ending
    <3>0. t \in Clients /\ Same(s, t) /\ t.wire = s.wire /\ Envs(t, type) = Tail(q)
      BY <3>1 DEF Left
    <3>a. \A x \in Types \ {type} :
            Envs(t, x) = Envs(s, x) /\ t.transports[x].requests = s.transports[x].requests
      BY <3>1 DEF Left, Envs
    <3>2. Shifts(s, t, type, 1)
      <4>1. \A i \in DOMAIN Tail(q) :
              /\ Tail(q)[i].id = q[i + 1].id
              /\ Alike(Tail(q)[i].messages, q[i + 1].messages)
        BY <2>1, AlikeIs
      <4>2. \A i \in DOMAIN t.deferred : \E k \in DOMAIN s.deferred : t.deferred[i] = s.deferred[k]
        BY <3>1
      <4>3. 1 \in {0, 1} /\ DOMAIN Tail(q) = 1 .. Len(q) - 1
        BY <2>1
      <4> HIDE DEF q
      <4> QED BY <3>1, <4>1, <4>2, <4>3, LeftShifts DEF q
    <3>3. Ordered(t, P, N)
      <4>1. 1 \in {0, 1}
        OBVIOUS
      <4> QED BY <3>0, <3>2, <4>1, ShiftsOrdered
    <3>4. hasRoom(t, type) <=> t.transports[type].requests = {}
      BY <3>0, <3>3, RoomIs DEF Ordered
    <3> DEFINE ms == First(t, type, next)
    <3>5. /\ ms \in Waiting /\ Alike(ms, next)
          /\ t.transports[type].requests = {} => ms = next
          /\ t.transports[type].requests # {} => Lost(ms)
      <4>1. Displaced(next) \in Waiting /\ Alike(next, next) /\ Alike(Displaced(next), next)
            /\ Lost(Displaced(next))
        BY <2>1, AlikeIs, DisplacedAre
      <4> HIDE DEF next
      <4> QED BY <2>1, <3>4, <4>1 DEF First
    <3>6. r = queueSend(t, type, ms)
      BY <3>1
    <3> HIDE DEF ms
    <3>7. /\ Session(ms) = Session(next) /\ (IsApp(ms) <=> IsApp(next))
          /\ (Fine(next, P, N) => Fine(ms, P, N)) /\ (Long(ms) => Long(next))
      <4>1. next \in Batches /\ Alike(ms, next)
        BY <2>1, <3>5
      <4> HIDE DEF next
      <4> QED BY <4>1, AlikeKeeps DEF Alike
    <3>8. ms \in Batches /\ Kind(ms) \notin {"connect", "handshake"}
      BY <3>5, WaitingIs
    <3>9. CASE ~IsApp(next)
      <4>1. ms \in MetaBatches /\ Kind(ms) # "connect"
        BY <3>7, <3>8, <3>9, BatchIs DEF IsApp
      <4> HIDE DEF next, q
      <4>2. /\ Ordered(r, P, N) /\ r \in Clients /\ Same(t, r)
            /\ r.transports[type].requests # {} /\ Live(r) = Live(t)
            /\ \A x \in Types \ {type} :
                 Envs(r, x) = Envs(t, x) /\ r.transports[x].requests = t.transports[x].requests
        BY <3>0, <3>3, <3>5, <3>6, <4>1, QueueMeta
      <4>3. Waited(r)
        <5>1. \A x \in Types \ {type} :
                Envs(r, x) = Envs(s, x) /\ r.transports[x].requests = s.transports[x].requests
          BY <3>a, <4>2
        <5>2. Waited(s) /\ r.transports[type].requests # {}
          BY <4>2
        <5> QED BY <5>1, <5>2, WaitedAt
      <4>4. Live(t) = Live(s)
        BY <3>0 DEF Live
      <4> QED BY <4>2, <4>3, <4>4
    <3>10. CASE IsApp(next)
      <4>1. ms \in AppBatches
        BY <3>7, <3>8, <3>10, BatchIs DEF IsApp
      <4>2. type = s.transport /\ type = t.transport
        BY <2>1, <3>0, <3>10 DEF Ordered, Place, Same
      <4>3. Live(t) = Live(s) /\ Tokens(t) = Tokens(s) /\ (isDisconnected(t) <=> isDisconnected(s))
        BY <3>0 DEF Live, Tokens, isDisconnected, Same
      <4>4. HandshakeOver(t)
        <5>1. ~s.internalBatch
          BY <2>1, <3>10 DEF Ordered, Batch, NoApps
        <5> QED BY <3>0, <4>3, <5>1 DEF HandshakeOver, Same, Shaking
      <4>5. Current(t, Session(ms))
        <5> SUFFICES ASSUME NEW v \in Live(t), ~Known(t, v)
                     PROVE  Session(v.messages) # Session(ms)
          BY DEF Current
        <5>1. v \in Live(s) /\ ~Known(s, v)
          BY <3>2, <4>3 DEF Shifts
        <5>2. Session(next) # Session(v.messages)
          BY <2>1, <3>10, <5>1 DEF Ordered, Strays
        <5> QED BY <3>7, <5>2
      <4>6. ASSUME NEW i \in DOMAIN Tail(q), Long(Tail(q)[i].messages)
            PROVE  FALSE
        <5>1. Long(q[i + 1].messages) /\ i + 1 \in DOMAIN q /\ 1 \in DOMAIN q \ {i + 1}
          BY <2>1, <4>6
        <5> QED BY <3>10, <5>1 DEF Ordered, LongOnes
      <4>7. NoLong(t, type)
        BY <3>0, <4>6 DEF NoLong
      <4>8. Long(ms) => /\ \A i \in DOMAIN Tail(q) : ~IsApp(Tail(q)[i].messages)
                        /\ isDisconnected(t)
        <5> SUFFICES ASSUME Long(ms)
                     PROVE  /\ \A i \in DOMAIN Tail(q) : ~IsApp(Tail(q)[i].messages)
                            /\ isDisconnected(t)
          OBVIOUS
        <5>1. /\ isDisconnected(s)
              /\ \A j \in DOMAIN q \ {1} : ~IsApp(q[j].messages)
          BY <2>1, <3>7 DEF Ordered, LongOnes
        <5>2. \A i \in DOMAIN Tail(q) : i + 1 \in DOMAIN q \ {1}
          BY <2>1
        <5> QED BY <2>1, <4>3, <5>1, <5>2
      <4>9. t.transports[type].requests = {} =>
              \A i \in DOMAIN Tail(q) : IsApp(Tail(q)[i].messages) => Ahead(ms, Tail(q)[i].messages)
        <5> SUFFICES ASSUME t.transports[type].requests = {}, NEW i \in DOMAIN Tail(q),
                            IsApp(Tail(q)[i].messages)
                     PROVE  Ahead(ms, Tail(q)[i].messages)
          OBVIOUS
        <5>1. ms = next
          BY <3>5
        <5>2. i + 1 \in DOMAIN q /\ 1 \in 1 .. (i + 1) - 1 /\ Tail(q)[i] = q[i + 1]
          BY <2>1
        <5>3. Ahead(next, q[i + 1].messages)
          BY <3>10, <5>2 DEF Ordered, Turn
        <5> QED BY <5>1, <5>2, <5>3
      <4>10. t.transports[type].requests # {} => \A ks : Ahead(ks, ms)
        BY <3>5, LostIs
      <4>11. Fine(ms, P, N)
        BY <2>1, <3>7, <3>10 DEF Ordered, Batched
      <4>12. Ordered(r, P, N) /\ Waited(r)
        BY <3>0, <3>3, <3>6, <4>1, <4>2, <4>4, <4>5, <4>7, <4>8, <4>9, <4>10, <4>11, QueueApp
      <4>13. ~NoApps(s)
        BY <2>1, <3>10 DEF NoApps
      <4> QED BY <4>12, <4>13
    <3> QED BY <3>9, <3>10
  <2> QED BY <2>2, <2>3
<1> QED BY <1>1, <1>2

-----------------------------------------------------------------------------
\* What holds of the client between the parts of a turn.
Orderly(s, P, N) == s \in Clients /\ Ordered(s, P, N) /\ Waited(s) /\ Shaking(s)

LEMMA LessOrderly ==
  ASSUME NEW s, NEW P, NEW N, Orderly(s, P, N), NEW r \in Clients, Shrinks(s, r), Ready(r),
         Shaking(r), \A w \in Live(r) : ~Known(r, w) => Over(r, Session(w.messages))
  PROVE  Orderly(r, P, N)
BY ShrinksOrdered DEF Orderly

\* Nothing is sent; the session may end with the client.
Tamer(s, r) ==
  /\ r \in Clients
  /\ r.wire \subseteq s.wire /\ r.queue \in {s.queue, <<>>}
  /\ \A i \in DOMAIN r.deferred : \E k \in DOMAIN s.deferred : r.deferred[i] = s.deferred[k]
  /\ \A t \in Types :
       Envs(r, t) = Envs(s, t) /\ r.transports[t].requests = s.transports[t].requests
  /\ r.transport = s.transport /\ r.internalBatch = s.internalBatch
  /\ isDisconnected(s) => isDisconnected(r)
  /\ r.clientId = s.clientId \/ (r.clientId = 0 /\ isDisconnected(r))

LEMMA TamerOrderly ==
  ASSUME NEW s, NEW P, NEW N, Orderly(s, P, N), NEW r, Tamer(s, r)
  PROVE  Orderly(r, P, N)
<1>1. s \in Clients /\ r \in Clients
  BY DEF Orderly, Tamer
<1>2. Shrinks(s, r)
  BY DEF Shrinks, Tamer
<1>3. Ready(r)
  BY DEF Ready, Orderly, Ordered, Tamer
<1>4. Shaking(r)
  BY DEF Shaking, Orderly, Tamer, Tokens
<1>5. \A w \in Live(r) : ~Known(r, w) => Over(r, Session(w.messages))
  <2>1. Live(r) \subseteq Live(s)
    BY DEF Live, Tamer
  <2>2. \A w \in Live(s) : w.type \in Types
    BY <1>1 DEF Live, Clients, UnderWay, Requests
  <2>3. \A w \in Live(r) : Known(r, w) <=> Known(s, w)
    BY <2>1, <2>2 DEF Known, Tamer
  <2>4. \A w \in Live(r) : ~Known(r, w) => Over(s, Session(w.messages))
    BY <2>1, <2>3 DEF Orderly, Ordered, Strays
  <2> QED BY <2>4 DEF Over, Tamer
<1> QED BY <1>1, <1>2, <1>3, <1>4, <1>5, LessOrderly

\* Only what the page and the server are told of has changed.
LEMMA SteadyTamer ==
  ASSUME NEW s, NEW r \in Clients,
         r.wire = s.wire, r.deferred = s.deferred, r.transports = s.transports,
         r.queue \in {s.queue, <<>>}, r.transport = s.transport, r.internalBatch = s.internalBatch,
         isDisconnected(s) => isDisconnected(r),
         r.clientId = s.clientId \/ (r.clientId = 0 /\ isDisconnected(r))
  PROVE  Tamer(s, r)
BY DEF Tamer, Envs

-----------------------------------------------------------------------------
\* The end of a request of any kind.
LEMMA CompleteOrderly ==
  ASSUME MaxConnections = 2, NEW s, NEW P, NEW N, Orderly(s, P, N), NEW w \in UnderWay,
         \A v \in Live(s) : v.type = w.type /\ v.id = w.id => v = w,
         NEW success \in BOOLEAN
  PROVE  /\ Orderly(complete(s, w, success), P, N)
         /\ NoApps(s) => Live(complete(s, w, success)) \subseteq Live(s)
<1> DEFINE answered == [s EXCEPT !.wire = @ \ {w}]
           r == complete(s, w, success)
<1>0. s \in Clients /\ w.type \in Types /\ w.metaConnect \in BOOLEAN
  BY DEF Orderly, UnderWay, Requests
<1>1. /\ answered \in Clients /\ Same(s, answered) /\ Steady(s, answered)
      /\ answered.wire = s.wire \ {w} /\ Tokens(answered) = Tokens(s) \ {w}
  BY <1>0, WithoutRequest
<1>r. r = IF w.metaConnect
          THEN IF mismatch(s, w) THEN answered
               ELSE [answered EXCEPT !.transports[w.type].metaConnect = 0]
          ELSE completeRequest(answered, w.type, w.id, success)
  BY DEF complete
<1>c. r \in Clients /\ Same(s, r) /\ Tokens(r) = Tokens(s) \ {w}
  BY <1>0, Completes
<1> HIDE DEF answered, r
<1>2. Tamer(s, answered)
  BY <1>1 DEF Tamer, Same, Steady, Envs, isDisconnected
<1>3. Orderly(answered, P, N)
  BY <1>2, TamerOrderly
<1>l. Live(answered) \subseteq Live(s) /\ (NoApps(s) => NoApps(answered))
  <2>1. Live(answered) \subseteq Live(s)
    BY <1>1 DEF Live
  <2> QED BY <1>1, <2>1 DEF NoApps, Known, Steady, Envs
<1>4. CASE ~w.metaConnect
  <2>1. r = completeRequest(answered, w.type, w.id, success)
    BY <1>r, <1>4
  <2>2. \A v \in Live(answered) : ~(v.type = w.type /\ v.id = w.id)
    BY <1>1 DEF Live
  <2>3. Ordered(r, P, N) /\ Waited(r) /\ (NoApps(answered) => Live(r) = Live(answered))
    BY <1>0, <1>1, <1>3, <2>1, <2>2, CompletesOrdered DEF Orderly
  <2>4. Shaking(r)
    BY <1>c DEF Shaking, Orderly, Same
  <2>5. Orderly(r, P, N)
    BY <1>c, <2>3, <2>4 DEF Orderly
  <2> QED BY <1>l, <2>3, <2>5 DEF r
<1>5. CASE w.metaConnect /\ mismatch(s, w)
  <2>1. r = answered
    BY <1>5, <1>r
  <2> QED BY <1>3, <1>l, <2>1 DEF r
<1>6. CASE w.metaConnect /\ ~mismatch(s, w)
  <2> DEFINE type == w.type
  <2> HIDE DEF type
  <2>1. r = [answered EXCEPT !.transports[type].metaConnect = 0]
    BY <1>6, <1>r DEF type
  <2>2. type \in Types
    BY <1>0 DEF type
  <2>3. /\ r.wire = answered.wire /\ r.deferred = answered.deferred /\ Same(answered, r)
    BY <1>1, <2>1, <2>2, CompletesPoll
  <2>4. \A t \in Types :
          Envs(r, t) = Envs(answered, t) /\ r.transports[t].requests = answered.transports[t].requests
    <3> TAKE t \in Types
    <3>1. answered \in Clients /\ answered.transports[t] \in Transports
      BY <1>1 DEF Clients
    <3>2. r.transports[t] = IF t = type THEN [answered.transports[t] EXCEPT !.metaConnect = 0]
                            ELSE answered.transports[t]
      BY <2>1, <2>2, <3>1 DEF Clients
    <3> QED BY <3>1, <3>2 DEF Transports, Envs
  <2>5. Tamer(answered, r)
    BY <1>c, <2>3, <2>4 DEF Tamer, Same, isDisconnected
  <2>6. Orderly(r, P, N)
    BY <1>3, <2>5, TamerOrderly
  <2>7. Live(r) \subseteq Live(s)
    BY <1>l, <2>3 DEF Live
  <2> QED BY <2>6, <2>7 DEF r
<1> QED BY <1>0, <1>4, <1>5, <1>6

LEMMA CrossDomainOrderly ==
  ASSUME NEW s, NEW P, NEW N, Orderly(s, P, N), NEW w
  PROVE  Orderly(crossDomainFails(s, w), P, N)
<1>1. /\ Sends(s, crossDomainFails(s, w)) /\ crossDomainFails(s, w).wire = s.wire
      /\ crossDomainFails(s, w).transports = s.transports
      /\ crossDomainFails(s, w).deferred = s.deferred
  BY CrossDomainFails DEF Orderly
<1>2. Tamer(s, crossDomainFails(s, w))
  <2> DEFINE r == crossDomainFails(s, w)
  <2> HIDE DEF r
  <2>1. r \in Clients /\ r.wire = s.wire /\ r.transports = s.transports /\ r.deferred = s.deferred
        /\ Same(s, r)
    BY <1>1 DEF Sends, r
  <2>2. Tamer(s, r)
    BY <2>1, SteadyTamer DEF Same, isDisconnected
  <2> QED BY <2>2 DEF r
<1> QED BY <1>2, TamerOrderly

-----------------------------------------------------------------------------
\* The page disconnects.
LEMMA DisconnectCallOrderly ==
  ASSUME MaxConnections = 2, NEW s, NEW P, NEW N, Orderly(s, P, N)
  PROVE  Orderly(disconnectCall(s), P, N)
<1> DEFINE t == [s EXCEPT !.status = "disconnecting"]
           m == <<Message("disconnect", 0, 0)>>
           r == disconnectCall(s)
<1>0. s \in Clients
  BY DEF Orderly
<1>1. CASE isDisconnected(s)
  BY <1>1 DEF disconnectCall
<1>2. CASE ~isDisconnected(s)
  <2>1. /\ t \in Clients /\ t.status = "disconnecting" /\ Tokens(t) = Tokens(s)
        /\ t.clientId = s.clientId /\ t.internalBatch = s.internalBatch /\ t.queue = s.queue
        /\ t.transport = s.transport /\ t.wire = s.wire /\ t.transports = s.transports
        /\ t.deferred = s.deferred
    BY <1>0, StatusIs
  <2>2. r = send(t, m)
    BY <1>2 DEF disconnectCall
  <2>3. m \in MetaBatches /\ Kind(m) = "disconnect"
    BY MessageIs DEF Channels, App
  <2>4. r \in Clients /\ Tokens(r) = Tokens(s) /\ r.internalBatch = s.internalBatch
    BY <1>0, Disconnects
  <2> HIDE DEF t, m, r
  <2>5. Tamer(s, t)
    <3>1. isDisconnected(t)
      BY <2>1 DEF isDisconnected
    <3> QED BY <2>1, <3>1, SteadyTamer
  <2>6. Orderly(t, P, N)
    BY <2>5, TamerOrderly
  <2> DEFINE type == t.transport
             ms == stamp(m, t.clientId)
  <2>7. type \in Types /\ t.clientId \in Nat
    BY <2>1 DEF Clients
  <2>8. ms \in MetaBatches /\ Kind(ms) = "disconnect"
    BY <2>3, <2>7, StampIs DEF Batches
  <2>9. ms \in Waiting
    BY <2>8 DEF Waiting, Batches
  <2>10. r = queueSend(t, type, ms)
    BY <2>2, SendIs
  <2> HIDE DEF type, ms
  <2>11. /\ Ordered(r, P, N) /\ r.transports[type].requests # {}
         /\ \A x \in Types \ {type} :
              Envs(r, x) = Envs(t, x) /\ r.transports[x].requests = t.transports[x].requests
    BY <2>1, <2>6, <2>7, <2>8, <2>9, <2>10, QueueMeta DEF Orderly
  <2>12. Waited(r)
    BY <2>6, <2>11, WaitedAt DEF Orderly
  <2>13. Shaking(r)
    BY <2>4 DEF Shaking, Orderly
  <2> QED BY <2>4, <2>11, <2>12, <2>13 DEF Orderly, r
<1> QED BY <1>1, <1>2

LEMMA NotifyOrderly ==
  ASSUME MaxConnections = 2, NEW s, NEW P, NEW N, Orderly(s, P, N), NEW quit \in BOOLEAN
  PROVE  Orderly(notify(s, quit), P, N)
BY DisconnectCallOrderly DEF notify

-----------------------------------------------------------------------------
\* The parts of a turn that send nothing.
Calm(s, r) ==
  r.wire \subseteq s.wire /\ r.transport = s.transport /\ (s.internalBatch => r.internalBatch)

LEMMA TamerCalm ==
  ASSUME NEW s, NEW r, Tamer(s, r)
  PROVE  Calm(s, r)
BY DEF Tamer, Calm

LEMMA CalmOn ==
  ASSUME NEW s, NEW t, NEW r, Calm(s, t), Calm(t, r)
  PROVE  Calm(s, r)
BY DEF Calm

LEMMA DisconnectTamer ==
  ASSUME NEW s \in Clients
  PROVE  Tamer(s, disconnect(s)) /\ disconnect(s).status = "disconnected"
<1> DEFINE r == disconnect(s)
<1>1. /\ r \in Clients /\ r.wire = s.wire /\ r.deferred = s.deferred /\ r.transports = s.transports
      /\ r.queue = <<>> /\ r.transport = s.transport /\ r.internalBatch = s.internalBatch
      /\ r.status = "disconnected" /\ r.clientId = 0
  <2> DEFINE t == [s EXCEPT !.scheduled = ""]
  <2>1. /\ t \in Clients /\ t.wire = s.wire /\ t.deferred = s.deferred /\ t.transports = s.transports
        /\ t.transport = s.transport /\ t.internalBatch = s.internalBatch
    BY DEF Clients
  <2>2. r = [t EXCEPT !.clientId = 0, !.status = "disconnected", !.queue = <<>>]
    BY DEF disconnect, cancelDelayedSend, delayedSend
  <2> HIDE DEF t, r
  <2>3. /\ r \in Clients /\ r.clientId = 0 /\ r.status = "disconnected" /\ r.queue = <<>>
        /\ r.internalBatch = t.internalBatch /\ r.transports = t.transports
        /\ r.transport = t.transport /\ r.wire = t.wire /\ r.deferred = t.deferred
    BY <2>1, <2>2, ClosedIs, ZenonT(60)
  <2> QED BY <2>1, <2>3
<1>2. isDisconnected(r)
  BY <1>1 DEF isDisconnected
<1> HIDE DEF r
<1>3. Tamer(s, r)
  BY <1>1, <1>2, SteadyTamer
<1> QED BY <1>1, <1>3 DEF r

LEMMA AdviceTamer ==
  ASSUME NEW s \in Clients, NEW advice \in Advices
  PROVE  Tamer(s, updateAdvice(s, advice))
BY Advises, SteadyTamer

LEMMA ConnectTamer ==
  ASSUME NEW s \in Clients, ~isDisconnected(s)
  PROVE  Tamer(s, delayedConnect(s))
<1> DEFINE r == delayedConnect(s)
<1>1. /\ r \in Clients /\ r.wire = s.wire /\ r.deferred = s.deferred /\ r.transports = s.transports
      /\ r.queue = s.queue /\ r.transport = s.transport /\ r.internalBatch = s.internalBatch
      /\ r.clientId = s.clientId
  BY DEF delayedConnect, delayedSend, Clients
<1> HIDE DEF r
<1>2. Tamer(s, r)
  BY <1>1, SteadyTamer
<1> QED BY <1>2 DEF r

LEMMA DelaysHandshakeIs ==
  ASSUME NEW s \in Clients, NEW r, r = delayedHandshake(s)
  PROVE  /\ r \in Clients /\ r.wire = s.wire /\ r.deferred = s.deferred /\ r.transports = s.transports
         /\ r.queue = s.queue /\ r.transport = s.transport /\ r.internalBatch
         /\ r.clientId = s.clientId /\ Tokens(r) = Tokens(s)
<1> DEFINE d == delayedHandshake(s)
<1>1. /\ d \in Clients /\ d.wire = s.wire /\ d.deferred = s.deferred /\ d.transports = s.transports
      /\ d.queue = s.queue /\ d.transport = s.transport /\ d.internalBatch = TRUE
      /\ d.clientId = s.clientId
  BY DEF delayedHandshake, delayedSend, Clients
<1> HIDE DEF d
<1>2. r = d
  BY DEF d
<1> QED BY <1>1, <1>2 DEF Tokens

\* The client handshakes because its handshake failed.
LEMMA FailHandshakeTamer ==
  ASSUME NEW s \in Clients, s.internalBatch \/ isDisconnected(s)
  PROVE  Tamer(s, failHandshake(s))
<1>1. CASE ~isDisconnected(s) /\ s.reconnect # "none"
  <2> DEFINE r == delayedHandshake(s)
  <2>1. failHandshake(s) = r
    BY <1>1 DEF failHandshake
  <2> HIDE DEF r
  <2>2. /\ r \in Clients /\ r.wire = s.wire /\ r.deferred = s.deferred /\ r.transports = s.transports
        /\ r.queue = s.queue /\ r.transport = s.transport /\ r.internalBatch
        /\ r.clientId = s.clientId
    BY DelaysHandshakeIs DEF r
  <2>3. r.internalBatch \in BOOLEAN /\ s.internalBatch \in BOOLEAN
    BY <2>2 DEF Clients
  <2>4. r.internalBatch = s.internalBatch
    BY <1>1, <2>2, <2>3
  <2>5. Tamer(s, r)
    BY <1>1, <2>2, <2>4, SteadyTamer
  <2> QED BY <2>1, <2>5
<1>2. CASE ~(~isDisconnected(s) /\ s.reconnect # "none")
  BY <1>2, DisconnectTamer DEF failHandshake
<1> QED BY <1>1, <1>2

\* It handshakes because its session is gone: what was under way is forgotten.
LEMMA ResetOrderly ==
  ASSUME NEW s, NEW P, NEW N, Orderly(s, P, N)
  PROVE  Orderly(delayedHandshake(reset(s)), P, N) /\ Calm(s, delayedHandshake(reset(s)))
<1> DEFINE t == reset(s)
           r == delayedHandshake(t)
<1>1. s \in Clients /\ s.internalBatch \in BOOLEAN
  BY DEF Orderly, Clients
<1>2. /\ t \in Clients /\ Same(s, t) /\ Bare(t) /\ t.wire = s.wire /\ t.deferred = s.deferred
      /\ Tokens(t) = Tokens(s)
  BY <1>1, Resets
<1> HIDE DEF t
<1>3. /\ r \in Clients /\ r.wire = t.wire /\ r.deferred = t.deferred /\ r.transports = t.transports
      /\ r.queue = t.queue /\ r.transport = t.transport /\ r.internalBatch
      /\ r.clientId = t.clientId /\ Tokens(r) = Tokens(t)
  BY <1>2, DelaysHandshakeIs
<1> HIDE DEF r
<1>4. \A x \in Types : Empty(r, x)
  BY <1>2, <1>3 DEF Bare, Empty, Envs
<1>5. Shrinks(s, r)
  <2>1. r.wire = s.wire /\ r.queue = s.queue /\ r.deferred = s.deferred /\ r.transport = s.transport
    BY <1>2, <1>3 DEF Same
  <2> QED BY <1>4, <2>1 DEF Shrinks
<1>6. Ready(r) /\ Shaking(r) /\ \A w \in Live(r) : ~Known(r, w) => Over(r, Session(w.messages))
  BY <1>3 DEF Ready, Shaking, Over
<1>7. Orderly(r, P, N)
  BY <1>3, <1>5, <1>6, LessOrderly
<1>8. Calm(s, r)
  BY <1>2, <1>3 DEF Calm, Same
<1> QED BY <1>7, <1>8 DEF r, t

LEMMA FailConnectOrderly ==
  ASSUME MaxConnections = 2, NEW s, NEW P, NEW N, Orderly(s, P, N), NEW quit \in BOOLEAN
  PROVE  Orderly(failConnect(s, quit), P, N) /\ (~quit => Calm(s, failConnect(s, quit)))
<1> DEFINE told == notify(s, quit)
           action == IF isDisconnected(told) THEN "none" ELSE told.reconnect
           r == failConnect(s, quit)
<1>1. Orderly(told, P, N) /\ told \in Clients
  BY NotifyOrderly DEF Orderly
<1>2. ~quit => told = s
  BY DEF notify
<1>3. /\ action = "retry" => r = delayedConnect(told)
      /\ action = "handshake" => r = delayedHandshake(reset(told))
      /\ action \notin {"retry", "handshake"} => r = disconnect(told)
      /\ action # "none" => ~isDisconnected(told)
  BY DEF failConnect
<1> HIDE DEF told, action, r
<1>4. Orderly(r, P, N) /\ Calm(told, r)
  <2>1. CASE action = "retry"
    <3>1. Tamer(told, r)
      BY <1>1, <1>3, <2>1, ConnectTamer
    <3> QED BY <1>1, <3>1, TamerOrderly, TamerCalm
  <2>2. CASE action = "handshake"
    BY <1>1, <1>3, <2>2, ResetOrderly
  <2>3. CASE action \notin {"retry", "handshake"}
    <3>1. Tamer(told, r)
      BY <1>1, <1>3, <2>3, DisconnectTamer
    <3> QED BY <1>1, <3>1, TamerOrderly, TamerCalm
  <2> QED BY <2>1, <2>2, <2>3
<1> QED BY <1>2, <1>4 DEF r

LEMMA ConnectFailureOrderly ==
  ASSUME MaxConnections = 2, NEW s, NEW P, NEW N, Orderly(s, P, N), NEW quit \in BOOLEAN
  PROVE  Orderly(connectFailure(s, quit), P, N) /\ (~quit => Calm(s, connectFailure(s, quit)))
<1> DEFINE t == [s EXCEPT !.connected = FALSE]
<1>1. /\ t \in Clients /\ t.wire = s.wire /\ t.deferred = s.deferred /\ t.transports = s.transports
      /\ t.queue = s.queue /\ t.transport = s.transport /\ t.internalBatch = s.internalBatch
      /\ t.clientId = s.clientId /\ t.status = s.status
  BY DEF Orderly, Clients
<1>2. connectFailure(s, quit) = failConnect(t, quit)
  BY DEF connectFailure
<1> HIDE DEF t
<1>3. Tamer(s, t)
  BY <1>1, SteadyTamer DEF isDisconnected
<1>4. Orderly(t, P, N) /\ Calm(s, t)
  BY <1>3, TamerOrderly, TamerCalm
<1>5. Orderly(failConnect(t, quit), P, N) /\ (~quit => Calm(t, failConnect(t, quit)))
  BY <1>4, FailConnectOrderly
<1> QED BY <1>2, <1>4, <1>5, CalmOn

LEMMA ConnectResponseOrderly ==
  ASSUME MaxConnections = 2, NEW s, NEW P, NEW N, Orderly(s, P, N), NEW reply, NEW quit \in BOOLEAN
  PROVE  Orderly(connectResponse(s, reply, quit), P, N)
<1> DEFINE t == [s EXCEPT !.connected = TRUE]
           f == [s EXCEPT !.connected = FALSE]
           told == notify(t, quit)
           action == IF isDisconnected(told) THEN "none" ELSE told.reconnect
           r == connectResponse(s, reply, quit)
<1>1. /\ t \in Clients /\ t.wire = s.wire /\ t.deferred = s.deferred /\ t.transports = s.transports
      /\ t.queue = s.queue /\ t.transport = s.transport /\ t.internalBatch = s.internalBatch
      /\ t.clientId = s.clientId /\ t.status = s.status
  BY DEF Orderly, Clients
<1>2. /\ f \in Clients /\ f.wire = s.wire /\ f.deferred = s.deferred /\ f.transports = s.transports
      /\ f.queue = s.queue /\ f.transport = s.transport /\ f.internalBatch = s.internalBatch
      /\ f.clientId = s.clientId /\ f.status = s.status
  BY DEF Orderly, Clients
<1>3. /\ ~reply.ok => r = failConnect(f, quit)
      /\ reply.ok /\ action = "retry" => r = delayedConnect(told)
      /\ reply.ok /\ action = "none" => r = disconnect(told)
      /\ reply.ok /\ action \notin {"retry", "none"} => r = told
      /\ action # "none" => ~isDisconnected(told)
  BY DEF connectResponse
<1> HIDE DEF t, f
<1>4. Tamer(s, t) /\ Tamer(s, f)
  BY <1>1, <1>2, SteadyTamer DEF isDisconnected
<1>5. Orderly(t, P, N) /\ Orderly(f, P, N)
  BY <1>4, TamerOrderly
<1>6. Orderly(told, P, N) /\ told \in Clients
  BY <1>5, NotifyOrderly DEF Orderly
<1> HIDE DEF told, action, r
<1>7. CASE ~reply.ok
  BY <1>3, <1>5, <1>7, FailConnectOrderly DEF r
<1>8. CASE reply.ok /\ action = "retry"
  <2>1. Tamer(told, r)
    BY <1>3, <1>6, <1>8, ConnectTamer
  <2>2. Orderly(r, P, N)
    BY <1>6, <2>1, TamerOrderly
  <2> QED BY <2>2 DEF r
<1>9. CASE reply.ok /\ action = "none"
  <2>1. Tamer(told, r)
    BY <1>3, <1>6, <1>9, DisconnectTamer
  <2>2. Orderly(r, P, N)
    BY <1>6, <2>1, TamerOrderly
  <2> QED BY <2>2 DEF r
<1>10. CASE reply.ok /\ action \notin {"retry", "none"}
  BY <1>3, <1>6, <1>10 DEF r
<1> QED BY <1>7, <1>8, <1>9, <1>10

-----------------------------------------------------------------------------
\* The requests that abort ends, one after the other.
LEMMA CompleteFails ==
  ASSUME NEW s \in Clients, NEW w \in UnderWay
  PROVE  complete(s, w, FALSE).wire \subseteq s.wire
<1> DEFINE answered == [s EXCEPT !.wire = @ \ {w}]
           r == complete(s, w, FALSE)
<1>0. w.type \in Types /\ FALSE \in BOOLEAN
  BY DEF UnderWay, Requests
<1>1. answered \in Clients /\ answered.wire = s.wire \ {w}
  BY WithoutRequest
<1>r. r = IF w.metaConnect
          THEN IF mismatch(s, w) THEN answered
               ELSE [answered EXCEPT !.transports[w.type].metaConnect = 0]
          ELSE completeRequest(answered, w.type, w.id, FALSE)
  BY DEF complete
<1> HIDE DEF answered, r
<1>2. r.wire = answered.wire
  <2>1. CASE w.metaConnect
    <3>1. [answered EXCEPT !.transports[w.type].metaConnect = 0].wire = answered.wire
      BY <1>0, <1>1, CompletesPoll
    <3> QED BY <1>r, <2>1, <3>1
  <2>2. CASE ~w.metaConnect
    <3>1. Ending(answered, r, w.type, w.id, FALSE)
      BY <1>0, <1>1, <1>r, <2>2, EndingIs
    <3> QED BY <3>1 DEF Ending, Left
  <2> QED BY <2>1, <2>2
<1> QED BY <1>1, <1>2 DEF r

LEMMA AbortOneOrderly ==
  ASSUME MaxConnections = 2, NEW s, NEW P, NEW N, Orderly(s, P, N), NEW w \in s.wire, ~w.expired,
         NEW a, Orderly(a, P, N), Calm(s, a)
  PROVE  Orderly(abortRequest(a, w), P, N) /\ Calm(s, abortRequest(a, w))
<1> DEFINE c == complete(a, w, FALSE)
           ended == crossDomainFails(c, w)
           r == abortRequest(a, w)
<1>0. w \in UnderWay /\ a \in Clients /\ s \in Clients /\ FALSE \in BOOLEAN
  BY DEF Orderly, Clients
<1>1. \A v \in Live(a) : v.type = w.type /\ v.id = w.id => v = w
  BY DEF Orderly, Ordered, Ids, Live, Calm
<1>2. Orderly(c, P, N)
  BY <1>0, <1>1, CompleteOrderly
<1>3. c.wire \subseteq a.wire /\ Same(a, c) /\ c \in Clients
  BY <1>0, Completes, CompleteFails
<1>r. /\ Kind(w.messages) = "connect" => r = connectFailure(ended, FALSE)
      /\ Kind(w.messages) = "handshake" => r = failHandshake(ended)
      /\ Kind(w.messages) \notin {"connect", "handshake"} => r = ended
  BY DEF abortRequest, Kind
<1> HIDE DEF c
<1>4. Orderly(ended, P, N)
  BY <1>2, CrossDomainOrderly
<1>5. ended.wire = c.wire /\ Same(c, ended) /\ ended \in Clients
  BY <1>3, CrossDomainFails DEF Sends
<1> HIDE DEF ended, r
<1>6. Calm(s, ended)
  <2>1. Calm(a, ended)
    BY <1>3, <1>5 DEF Calm, Same
  <2> QED BY <2>1, CalmOn
<1>7. CASE Kind(w.messages) = "connect"
  <2>1. Orderly(connectFailure(ended, FALSE), P, N) /\ Calm(ended, connectFailure(ended, FALSE))
    BY <1>0, <1>4, ConnectFailureOrderly
  <2>2. Orderly(r, P, N) /\ Calm(ended, r)
    BY <1>7, <1>r, <2>1
  <2>3. Calm(s, r)
    BY <1>6, <2>2, CalmOn
  <2> QED BY <2>2, <2>3 DEF r
<1>8. CASE Kind(w.messages) = "handshake"
  <2>1. s.internalBatch
    BY <1>8 DEF Orderly, Shaking, Tokens, Token
  <2>2. ended.internalBatch
    BY <1>6, <2>1 DEF Calm
  <2>3. Tamer(ended, r)
    BY <1>5, <1>8, <1>r, <2>2, FailHandshakeTamer
  <2>4. Orderly(r, P, N) /\ Calm(ended, r)
    BY <1>4, <2>3, TamerOrderly, TamerCalm
  <2>5. Calm(s, r)
    BY <1>6, <2>4, CalmOn
  <2> QED BY <2>4, <2>5 DEF r
<1>9. CASE Kind(w.messages) \notin {"connect", "handshake"}
  BY <1>4, <1>6, <1>9, <1>r DEF r
<1> QED BY <1>7, <1>8, <1>9

LEMMA AbortOrderly ==
  ASSUME MaxConnections = 2, NEW s, NEW P, NEW N, Orderly(s, P, N)
  PROVE  \E a : Orderly(a, P, N) /\ Calm(s, a) /\ abort(s) = resetTransport(a, s.transport)
<1> DEFINE under == aborted(s, s.transport)
           requests == {w \in under : ~w.metaConnect}
           polls == {w \in under : w.metaConnect}
           q == SetToSeq(requests) \o SetToSeq(polls)
           A == {a \in Clients : Orderly(a, P, N) /\ Calm(s, a)}
           n == Len(q)
<1>0. s \in Clients
  BY DEF Orderly
<1>1. /\ under \subseteq s.wire /\ \A w \in under : ~w.expired
      /\ IsFiniteSet(s.wire)
  BY <1>0 DEF aborted, Clients, UnderWay
<1> HIDE DEF under
<1>2. SetToSeq(requests) \in Seq(under) /\ SetToSeq(polls) \in Seq(under)
  <2>1. IsFiniteSet(requests) /\ IsFiniteSet(polls)
    BY <1>1, FS_Subset
  <2>2. SetToSeq(requests) \in Seq(requests) /\ SetToSeq(polls) \in Seq(polls)
    <3> HIDE DEF requests, polls
    <3> QED BY <2>1, SetToSeqIs
  <2>3. requests \subseteq under /\ polls \subseteq under
    OBVIOUS
  <2> HIDE DEF requests, polls
  <2> QED BY <2>2, <2>3
<1> HIDE DEF requests, polls
<1>3. q \in Seq(under)
  BY <1>2
<1> HIDE DEF q
<1>4. n \in Nat /\ DOMAIN q = 1 .. n /\ \A i \in 1 .. n : q[i] \in s.wire /\ ~q[i].expired
  BY <1>1, <1>3
<1>5. s \in A
  BY <1>0 DEF Calm
<1>6. \A a \in A, i \in 1 .. n : abortRequest(a, q[i]) \in A
  <2> TAKE a \in A, i \in 1 .. n
  <2>1. Orderly(abortRequest(a, q[i]), P, N) /\ Calm(s, abortRequest(a, q[i]))
    BY <1>4, AbortOneOrderly
  <2> QED BY <2>1 DEF Orderly
<1> HIDE DEF A, n
<1>7. FoldLeft(abortRequest, s, q) \in A
  BY <1>4, <1>5, <1>6, FoldAbort
<1>8. abort(s) = resetTransport(FoldLeft(abortRequest, s, q), s.transport)
  BY DEF abort, q, requests, polls, under
<1> QED BY <1>7, <1>8 DEF A

LEMMA AbortAndDisconnectOrderly ==
  ASSUME MaxConnections = 2, NEW s, NEW P, NEW N, Orderly(s, P, N)
  PROVE  Orderly(abortAndDisconnect(s), P, N)
<1> DEFINE c == cancelDelayedSend(s)
           b == abort(c)
           r == abortAndDisconnect(s)
<1>0. s \in Clients
  BY DEF Orderly
<1>1. /\ c \in Clients /\ c.wire = s.wire /\ c.deferred = s.deferred /\ c.transports = s.transports
      /\ c.queue = s.queue /\ c.transport = s.transport /\ c.internalBatch = s.internalBatch
      /\ c.clientId = s.clientId /\ c.status = s.status
  BY <1>0 DEF cancelDelayedSend, Clients
<1>r. r = [b EXCEPT !.clientId = 0, !.status = "disconnected", !.queue = <<>>]
  BY DEF abortAndDisconnect
<1> HIDE DEF c, r
<1>2. Tamer(s, c)
  BY <1>1, SteadyTamer DEF isDisconnected
<1>3. Orderly(c, P, N)
  BY <1>2, TamerOrderly
<1>4. PICK a : Orderly(a, P, N) /\ Calm(c, a) /\ b = resetTransport(a, c.transport)
  BY <1>3, AbortOrderly
<1> DEFINE type == c.transport
<1>5. a \in Clients /\ type \in Types /\ a.transport = type
  BY <1>1, <1>4 DEF Clients, Orderly, Calm
<1> HIDE DEF b, type
<1>6. /\ b \in Clients /\ Same(a, b) /\ b.wire = a.wire /\ b.deferred = a.deferred
      /\ b.transports[type] = Unused
      /\ \A t \in Types \ {type} : b.transports[t] = a.transports[t]
  <2> DEFINE d == resetTransport(a, type)
  <2>1. Unused \in Transports
    BY DEF Unused, Transports
  <2>2. d \in Clients /\ Same(a, d)
    BY <1>5, ResetsTransport DEF Sends
  <2>3. d.wire = a.wire /\ d.deferred = a.deferred
    BY <1>5, <2>1 DEF resetTransport, Clients
  <2>4. /\ d.transports[type] = Unused
        /\ \A t \in Types \ {type} : d.transports[t] = a.transports[t]
    BY <1>5 DEF resetTransport, Clients
  <2>5. b = d
    BY <1>4 DEF type
  <2> HIDE DEF d
  <2> QED BY <2>2, <2>3, <2>4, <2>5
<1>7. /\ r \in Clients /\ r.clientId = 0 /\ r.status = "disconnected" /\ r.queue = <<>>
      /\ r.internalBatch = b.internalBatch /\ r.transports = b.transports
      /\ r.transport = b.transport /\ r.wire = b.wire /\ r.deferred = b.deferred
      /\ Tokens(r) = Tokens(b)
  BY <1>6, <1>r, ClosedIs
<1>8. Empty(r, type) /\ isDisconnected(r)
  BY <1>6, <1>7 DEF Empty, Envs, Unused, isDisconnected
<1>9. Shrinks(a, r)
  <2>1. \A t \in Types :
          \/ r.transports[t].requests = a.transports[t].requests /\ Envs(r, t) = Envs(a, t)
          \/ Empty(r, t)
    BY <1>6, <1>7, <1>8 DEF Envs
  <2>2. r.wire = a.wire /\ r.deferred = a.deferred /\ r.transport = a.transport
        /\ r.internalBatch = a.internalBatch
    BY <1>6, <1>7 DEF Same
  <2> QED BY <1>7, <1>8, <2>1, <2>2 DEF Shrinks
<1>10. Ready(r) /\ \A w \in Live(r) : ~Known(r, w) => Over(r, Session(w.messages))
  BY <1>7, <1>8 DEF Ready, Over
<1>11. Shaking(r)
  BY <1>4, <1>6, <1>7 DEF Shaking, Orderly, Same, Tokens
<1>12. Orderly(r, P, N)
  BY <1>4, <1>7, <1>9, <1>10, <1>11, LessOrderly
<1> QED BY <1>12 DEF r

-----------------------------------------------------------------------------
\* The client connects.

LEMMA PollOrderly ==
  ASSUME NEW s, NEW P, NEW N, Orderly(s, P, N), NEW type \in Types, NEW ms \in MetaBatches,
         Kind(ms) = "connect"
  PROVE  Orderly(metaConnectSend(s, type, ms), P, N) /\ Same(s, metaConnectSend(s, type, ms))
<1> DEFINE id == nextId(s, type)
           v == [s.transports[type] EXCEPT !.metaConnect = id]
           held == [s EXCEPT !.transports[type] = v]
           t == transportSend(held, type, id, TRUE, ms)
           w == Request(type, id, TRUE, ms, type = "long-polling")
<1>0. s \in Clients /\ Ordered(s, P, N) /\ Waited(s) /\ Shaking(s)
  BY DEF Orderly
<1>1. New(s, type, id) /\ id \in Nat
  BY <1>0, NextIdNew
<1>2. /\ v \in Transports /\ v.requests = s.transports[type].requests
      /\ v.envelopes = s.transports[type].envelopes
  <2>1. s.transports[type] \in Transports
    BY <1>0, EnvelopesOf
  <2> QED BY <1>1, <2>1 DEF Transports
<1>3. metaConnectSend(s, type, ms) = t
  BY <1>0 DEF Clients, Transports, metaConnectSend
<1> HIDE DEF id, v
<1>4. /\ held \in Clients /\ Same(s, held) /\ Tokens(held) = Tokens(s)
      /\ held.wire = s.wire /\ held.deferred = s.deferred
  <2>1. Inside(s, held, type)
    BY <1>0, <1>2, InTransport
  <2> HIDE DEF held
  <2> QED BY <2>1 DEF Inside, Sends
<1>5. held.transports = [s.transports EXCEPT ![type] = v]
  BY <1>0 DEF Clients
<1>6. \A x \in Types :
        Envs(held, x) = Envs(s, x) /\ held.transports[x].requests = s.transports[x].requests
  BY <1>0, <1>2, <1>5 DEF Clients, Envs
<1> HIDE DEF held
<1>7. Gone(held, t, w)
  BY <1>1, <1>4, SendsMeta
<1> HIDE DEF t
<1>8. w.messages = ms /\ w.type = type /\ w.id = id /\ ~w.served
  BY DEF Request
<1> HIDE DEF w
<1>9. /\ t \in Clients /\ Same(s, t) /\ t.wire = s.wire \cup {w} /\ t.deferred = s.deferred
      /\ \A x \in Types :
           Envs(t, x) = Envs(s, x) /\ t.transports[x].requests = s.transports[x].requests
  <2>1. /\ t \in Clients /\ Same(held, t) /\ t.wire = held.wire \cup {w}
        /\ t.deferred = held.deferred
        /\ \A x \in Types :
             Envs(t, x) = Envs(held, x) /\ t.transports[x].requests = held.transports[x].requests
    BY <1>4, <1>7, GoneIs
  <2> QED BY <1>4, <1>6, <2>1 DEF Same
<1>10. Ordered(t, P, N)
  BY <1>0, <1>1, <1>8, <1>9, MetaGoes
<1>11. Waited(t)
  BY <1>0, <1>9 DEF Waited
<1>12. Shaking(t)
  BY <1>0, <1>8, <1>9 DEF Shaking, Tokens, Same
<1> QED BY <1>3, <1>9, <1>10, <1>11, <1>12 DEF Orderly

LEMMA StatusTamer ==
  ASSUME NEW s \in Clients, ~isDisconnected(s),
         NEW status \in {"disconnected", "disconnecting", "handshaking", "connecting", "connected"}
  PROVE  Tamer(s, [s EXCEPT !.status = status])
<1> DEFINE r == [s EXCEPT !.status = status]
<1>1. /\ r \in Clients /\ r.clientId = s.clientId /\ r.internalBatch = s.internalBatch
      /\ r.queue = s.queue /\ r.transport = s.transport /\ r.wire = s.wire
      /\ r.transports = s.transports /\ r.deferred = s.deferred
  BY DEF Clients
<1> HIDE DEF r
<1>2. Tamer(s, r)
  BY <1>1, SteadyTamer
<1> QED BY <1>2 DEF r

LEMMA ConnectOrderly ==
  ASSUME NEW s, NEW P, NEW N, Orderly(s, P, N)
  PROVE  Orderly(connect(s), P, N)
<1>0. s \in Clients
  BY DEF Orderly
<1>1. CASE isDisconnected(s)
  BY <1>1 DEF connect
<1>2. CASE ~isDisconnected(s) /\ ~metaConnectAllowed(s, s.transport)
  <2> DEFINE r == [s EXCEPT !.status = "connecting"]
  <2>1. connect(s) = r
    BY <1>2 DEF connect
  <2>2. Tamer(s, r)
    BY <1>0, <1>2, StatusTamer
  <2> HIDE DEF r
  <2> QED BY <2>1, <2>2, TamerOrderly
<1>3. CASE ~isDisconnected(s) /\ metaConnectAllowed(s, s.transport)
  <2> DEFINE ms == <<Message("connect", 0, s.clientId)>>
             t == metaConnectSend(s, s.transport, ms)
             r == [t EXCEPT !.status = "connected"]
  <2>1. connect(s) = r
    BY <1>3 DEF connect
  <2>2. s.clientId \in Nat /\ s.transport \in Types
    BY <1>0 DEF Clients
  <2>3. ms \in MetaBatches /\ Kind(ms) = "connect"
    BY <2>2, MessageIs DEF Channels, App
  <2> HIDE DEF ms
  <2>4. Orderly(t, P, N) /\ Same(s, t)
    BY <2>2, <2>3, PollOrderly
  <2> HIDE DEF t
  <2>5. t \in Clients /\ ~isDisconnected(t)
    BY <1>3, <2>4 DEF Orderly, Same, isDisconnected
  <2>6. Tamer(t, r)
    BY <2>5, StatusTamer
  <2> HIDE DEF r
  <2> QED BY <2>1, <2>4, <2>6, TamerOrderly
<1> QED BY <1>1, <1>2, <1>3

-----------------------------------------------------------------------------
\* It handshakes, with nothing under way that it knows of.
LEMMA HandshakeOrderly ==
  ASSUME MaxConnections = 2, NEW s, NEW P, NEW N, Orderly(s, P, N),
         isDisconnected(s) \/ (s.internalBatch /\ Bare(s))
  PROVE  Orderly(handshake(s), P, N)
<1> DEFINE cleared == [s EXCEPT !.clientId = 0, !.subs = 0]
           blank == IF isDisconnected(s) THEN reset(cleared) ELSE cleared
           ready == updateAdvice(blank, "retry")
           fresh == [ready EXCEPT !.internalBatch = TRUE, !.status = "handshaking",
                                  !.transport = negotiateTransport(ready)]
           m == <<Message("handshake", 0, 0)>>
           r == send(fresh, m)
<1>0. s \in Clients
  BY DEF Orderly
<1>1. handshake(s) = r
  BY DEF handshake
<1>2. /\ cleared \in Clients /\ cleared.transports = s.transports
      /\ cleared.wire = s.wire /\ cleared.queue = s.queue /\ cleared.deferred = s.deferred
  BY <1>0 DEF Clients
<1> HIDE DEF cleared
<1>3. /\ blank \in Clients /\ Bare(blank)
      /\ blank.wire = s.wire /\ blank.queue = s.queue /\ blank.deferred = s.deferred
  <2>1. CASE isDisconnected(s)
    BY <1>2, <2>1, Resets DEF Same
  <2>2. CASE ~isDisconnected(s)
    BY <1>2, <2>2 DEF Bare
  <2>3. QED BY <2>1, <2>2
<1> HIDE DEF blank
<1>4. /\ ready \in Clients /\ ready.transports = blank.transports
      /\ ready.wire = s.wire /\ ready.queue = s.queue /\ ready.deferred = s.deferred
  <2>1. "retry" \in Advices
    BY DEF Advices
  <2>2. QED BY <1>3, <2>1, Advises
<1> HIDE DEF ready
<1>6. /\ fresh \in Clients /\ fresh.internalBatch /\ fresh.transports = ready.transports
      /\ fresh.wire = s.wire /\ fresh.queue = s.queue /\ fresh.deferred = s.deferred
  BY <1>4, Negotiated DEF Clients
<1> HIDE DEF fresh
<1>7. \A x \in Types : Empty(fresh, x)
  BY <1>3, <1>4, <1>6 DEF Bare, Empty, Envs
<1>8. NoApps(fresh)
  <2>1. \A v \in fresh.wire : v.type \in Types
    BY <1>6 DEF Clients, UnderWay, Requests
  <2> QED BY <1>7, <2>1 DEF NoApps, Empty, Known, Live
<1>9. Orderly(fresh, P, N)
  <2>1. Shrinks(s, fresh)
    BY <1>6, <1>7, <1>8 DEF Shrinks
  <2>2. /\ Ready(fresh) /\ Shaking(fresh)
        /\ \A w \in Live(fresh) : ~Known(fresh, w) => Over(fresh, Session(w.messages))
    BY <1>6 DEF Ready, Shaking, Over
  <2> QED BY <1>6, <2>1, <2>2, LessOrderly
<1>10. m \in MetaBatches /\ Kind(m) = "handshake"
  BY MessageIs DEF Channels, App
<1> HIDE DEF m
<1> DEFINE ms == stamp(m, fresh.clientId)
           type == fresh.transport
<1>11. fresh.clientId \in Nat /\ type \in Types
  BY <1>6 DEF Clients
<1>12. ms \in MetaBatches /\ Kind(ms) = "handshake"
  BY <1>10, <1>11, StampIs DEF Batches
<1>13. r = queueSend(fresh, type, ms)
  BY SendIs
<1> HIDE DEF r, type, ms
<1>14. fresh.transports[type].requests = {}
  BY <1>7, <1>11 DEF Empty
<1>15. Kind(ms) # "connect"
  BY <1>12
<1>16. /\ Ordered(r, P, N) /\ r \in Clients /\ Same(fresh, r) /\ r.transports[type].requests # {}
       /\ \A x \in Types \ {type} :
            Envs(r, x) = Envs(fresh, x) /\ r.transports[x].requests = fresh.transports[x].requests
  BY <1>6, <1>9, <1>11, <1>12, <1>13, <1>14, <1>15, QueueMeta DEF Orderly
<1>17. Waited(r)
  BY <1>9, <1>16, WaitedAt DEF Orderly
<1>18. Shaking(r)
  BY <1>6, <1>16 DEF Shaking, Same
<1> QED BY <1>1, <1>16, <1>17, <1>18 DEF Orderly

-----------------------------------------------------------------------------
\* Publishes and subscriptions are sent.

LEMMA StampFields ==
  ASSUME NEW ms \in AppBatches, NEW k \in Nat, NEW p, p = stamp(ms, k)
  PROVE  /\ DOMAIN p = DOMAIN ms /\ Session(p) = k /\ Len(p) = Len(ms) /\ p \in AppBatches
         /\ \A i \in DOMAIN ms : /\ p[i].clientId = k /\ p[i].channel = ms[i].channel
                                 /\ p[i].n = ms[i].n /\ p[i].displaced = ms[i].displaced
<1>1. /\ ms \in Seq(Messages) /\ ms \in Batches /\ Len(ms) \in Nat \ {0} /\ 1 \in DOMAIN ms
      /\ DOMAIN ms = 1 .. Len(ms)
  BY BatchIs DEF Batches
<1>2. \A i \in DOMAIN ms : ms[i] \in Messages
  BY <1>1
<1>4. /\ DOMAIN p = DOMAIN ms
      /\ \A i \in DOMAIN ms : p[i] = [ms[i] EXCEPT !.clientId = k]
  BY DEF stamp
<1>5. \A i \in DOMAIN ms : /\ p[i].clientId = k /\ p[i].channel = ms[i].channel
                           /\ p[i].n = ms[i].n /\ p[i].displaced = ms[i].displaced
  <2> TAKE i \in DOMAIN ms
  <2> DEFINE m == ms[i]
  <2>1. m \in Messages /\ p[i] = [m EXCEPT !.clientId = k]
    BY <1>2, <1>4
  <2> HIDE DEF m
  <2>2. /\ p[i].clientId = k /\ p[i].channel = m.channel
        /\ p[i].n = m.n /\ p[i].displaced = m.displaced
    BY <2>1 DEF Messages
  <2> QED BY <2>2 DEF m
<1>6. p \in AppBatches
  <2>1. stamp(ms, k) \in AppBatches
    BY <1>1, StampIs
  <2> QED BY <2>1
<1>7. Len(p) = Len(ms)
  <2>1. p \in Seq(Messages) /\ DOMAIN p = 1 .. Len(p) /\ Len(p) \in Nat
    BY <1>6, BatchIs DEF Batches
  <2> QED BY <1>1, <1>4, <2>1
<1> QED BY <1>1, <1>4, <1>5, <1>6, <1>7 DEF Session

LEMMA SendOrderly ==
  ASSUME MaxConnections = 2, NEW s, NEW P, NEW N, Orderly(s, P, N), ~s.internalBatch,
         NEW ms \in AppBatches, NEW p, p = stamp(ms, s.clientId), Fine(p, P, N),
         Current(s, s.clientId), NoLong(s, s.transport),
         Long(p) => /\ \A i \in DOMAIN Envs(s, s.transport) : ~IsApp(Envs(s, s.transport)[i].messages)
                    /\ s.transports[s.transport].requests # {} => isDisconnected(s),
         s.transports[s.transport].requests = {} =>
           \A i \in DOMAIN Envs(s, s.transport) :
             IsApp(Envs(s, s.transport)[i].messages) => Ahead(p, Envs(s, s.transport)[i].messages),
         s.transports[s.transport].requests # {} =>
           /\ \A i \in DOMAIN Envs(s, s.transport) :
                IsApp(Envs(s, s.transport)[i].messages) => Ahead(Envs(s, s.transport)[i].messages, p)
           /\ \A v \in Live(s) : ~v.served => Ahead(v.messages, p)
  PROVE  Orderly(send(s, ms), P, N)
<1> DEFINE r == send(s, ms)
           type == s.transport
<1>0. s \in Clients /\ Ordered(s, P, N) /\ type \in Types /\ s.clientId \in Nat
  BY DEF Orderly, Clients
<1>1. r = queueSend(s, type, p)
  BY SendIs
<1>2. r \in Clients /\ Same(s, r) /\ Tokens(r) = Tokens(s)
  BY <1>0, SendsApp DEF Sends
<1> HIDE DEF r
<1>3. HandshakeOver(s)
  BY DEF HandshakeOver, Orderly, Shaking
<1>4. p \in AppBatches /\ Session(p) = s.clientId
  BY <1>0, StampFields
<1>5. Current(s, Session(p))
  BY <1>4
<1> DEFINE envs == Envs(s, type)
           requests == s.transports[type].requests
<1>6. /\ NoLong(s, type)
      /\ Long(p) => /\ \A i \in DOMAIN envs : ~IsApp(envs[i].messages)
                    /\ requests # {} => isDisconnected(s)
      /\ requests = {} =>
           \A i \in DOMAIN envs : IsApp(envs[i].messages) => Ahead(p, envs[i].messages)
      /\ requests # {} =>
           /\ \A i \in DOMAIN envs : IsApp(envs[i].messages) => Ahead(envs[i].messages, p)
           /\ \A v \in Live(s) : ~v.served => Ahead(v.messages, p)
  OBVIOUS
<1>7. type = s.transport
  OBVIOUS
<1> HIDE DEF type
<1>8. Ordered(r, P, N) /\ Waited(r)
  BY <1>0, <1>1, <1>3, <1>4, <1>5, <1>6, <1>7, QueueApp
<1>9. Shaking(r)
  BY <1>2 DEF Shaking, Orderly, Same
<1> QED BY <1>2, <1>8, <1>9 DEF Orderly, r

\* What waited for the handshake.
LEMMA FlushOrderly ==
  ASSUME MaxConnections = 2, NEW s, NEW P, NEW N, Orderly(s, P, N), ~s.internalBatch, NoApps(s),
         isDisconnected(s) \/ Bare(s), Untouched(s, P, s.clientId)
  PROVE  Orderly(flushBatch(s), P, N)
<1>0. s \in Clients /\ s.queue \in Seq(AppMessages) /\ s.clientId \in Nat /\ s.transport \in Types
  BY DEF Orderly, Clients
<1>1. CASE s.queue = <<>>
  BY <1>1 DEF flushBatch
<1>2. CASE s.queue # <<>>
  <2> DEFINE q == s.queue
             t == [s EXCEPT !.queue = <<>>]
             r == send(t, q)
             p == stamp(q, s.clientId)
  <2>1. q \in AppBatches
    BY <1>0, <1>2 DEF AppBatches
  <2>2. flushBatch(s) = r
    BY <1>2 DEF flushBatch
  <2>3. /\ t \in Clients /\ t.queue = <<>> /\ t.wire = s.wire /\ t.deferred = s.deferred
        /\ t.transports = s.transports /\ t.transport = s.transport /\ t.status = s.status
        /\ t.internalBatch = s.internalBatch /\ t.clientId = s.clientId
    <3>1. <<>> \in Seq(AppMessages)
      OBVIOUS
    <3> QED BY <1>0, <3>1 DEF Clients
  <2> HIDE DEF t
  <2>4. isDisconnected(t) <=> isDisconnected(s)
    BY <2>3 DEF isDisconnected
  <2>5. Orderly(t, P, N)
    BY <2>3, <2>4, SteadyTamer, TamerOrderly
  <2>6. /\ DOMAIN p = DOMAIN q /\ Session(p) = s.clientId /\ p \in AppBatches
        /\ \A i \in DOMAIN q : /\ p[i].clientId = s.clientId /\ p[i].channel = q[i].channel
                               /\ p[i].n = q[i].n /\ p[i].displaced = q[i].displaced
    BY <1>0, <2>1, StampFields
  <2>7. Sorted(q, N)
    BY DEF Orderly, Ordered, Batched
  <2> HIDE DEF p
  <2>8. Fine(p, P, N)
    <3>1. \A j \in DOMAIN q : \A i \in 1 .. j - 1 : i \in DOMAIN q
      <4>1. Len(q) \in Nat /\ DOMAIN q = 1 .. Len(q)
        BY <1>0
      <4> QED BY <4>1
    <3>2. \A x \in P : x[1] # s.clientId
      BY DEF Untouched
    <3> QED BY <2>6, <2>7, <3>1, <3>2 DEF Fine, Sorted, Pub, Before
  <2> DEFINE type == s.transport
             envs == Envs(s, type)
  <2>9. \A i \in DOMAIN envs : ~IsApp(envs[i].messages) /\ ~Long(envs[i].messages)
    <3> TAKE i \in DOMAIN envs
    <3>1. ~IsApp(envs[i].messages)
      BY <1>0 DEF NoApps
    <3>2. envs[i].messages \in Batches
      <4>1. envs \in Seq(Envelopes)
        BY <1>0, EnvelopesOf DEF Envs
      <4> HIDE DEF envs
      <4>2. envs[i] \in Envelopes
        BY <4>1
      <4> QED BY <4>2 DEF Envelopes, Waiting
    <3>3. Len(envs[i].messages) = 1
      BY <3>1, <3>2, BatchIs DEF IsApp, MetaBatches
    <3> QED BY <3>1, <3>3 DEF Long
  <2>10. Envs(t, t.transport) = envs /\ t.transports[t.transport].requests = s.transports[type].requests
    BY <2>3 DEF Envs
  <2>11. Live(t) = Live(s) /\ \A v \in Live(s) : Session(v.messages) # s.clientId
    BY <2>3 DEF Untouched, Live
  <2>12. s.transports[type].requests # {} => isDisconnected(t)
    BY <1>0, <2>4 DEF Bare
  <2>13. Current(t, t.clientId) /\ NoLong(t, t.transport)
    BY <2>3, <2>9, <2>10, <2>11 DEF Current, NoLong
  <2>14. \A v \in Live(t) : Ahead(v.messages, p)
    BY <2>6, <2>11 DEF Ahead
  <2> HIDE DEF envs, type
  <2>15. p = stamp(q, t.clientId) /\ ~t.internalBatch
    BY <2>3 DEF p
  <2>16. /\ \A i \in DOMAIN Envs(t, t.transport) : ~IsApp(Envs(t, t.transport)[i].messages)
         /\ t.transports[t.transport].requests # {} => isDisconnected(t)
    BY <2>9, <2>10, <2>12
  <2> HIDE DEF q, r
  <2>17. Orderly(send(t, q), P, N)
    BY <2>1, <2>5, <2>8, <2>13, <2>14, <2>15, <2>16, SendOrderly
  <2> QED BY <2>2, <2>17 DEF r
<1> QED BY <1>1, <1>2

-----------------------------------------------------------------------------
\* The handshake is answered.

\* The client of a session that nothing is of.
LEMMA SessionOrderly ==
  ASSUME NEW s, NEW P, NEW N, Orderly(s, P, N), Tokens(s) = {}, s.internalBatch,
         NEW r \in Clients, r.clientId # 0, Untouched(s, P, r.clientId),
         r.status = s.status, r.wire = s.wire, r.deferred = s.deferred,
         r.transports = s.transports, r.queue = s.queue
  PROVE  Orderly(r, P, N) /\ NoApps(r) /\ Untouched(r, P, r.clientId)
<1>0. /\ s \in Clients /\ Ordered(s, P, N) /\ NoApps(s)
      /\ Live(r) = Live(s) /\ Tokens(r) = {} /\ (isDisconnected(r) <=> isDisconnected(s))
      /\ \A t \in Types : Envs(r, t) = Envs(s, t)
      /\ \A v \in Live(s) : Known(r, v) <=> Known(s, v)
  BY DEF Orderly, Ordered, Batch, Live, Tokens, isDisconnected, Envs, Known
<1>1. NoApps(r) /\ Untouched(r, P, r.clientId)
  BY <1>0 DEF NoApps, Untouched
<1>2. Ids(r)
  <2>1. Ids(s)
    BY <1>0 DEF Ordered
  <2> QED BY <2>1 DEF Ids, Envs
<1>3. Slot(r)
  BY <1>0 DEF Ordered, Slot
<1>4. Batched(r, P, N)
  BY <1>0 DEF Ordered, Batched
<1>5. Turn(r)
  BY <1>1 DEF NoApps, Turn
<1>6. One(r)
  BY <1>0 DEF Ordered, One
<1>7. Strays(r)
  BY <1>0, <1>1 DEF Strays, NoApps, Over, Untouched
<1>8. Place(r)
  BY <1>1 DEF Place, NoApps
<1>9. Batch(r)
  BY <1>1 DEF Batch
<1>10. LongOnes(r)
  BY <1>0 DEF Ordered, LongOnes
<1>11. Ready(r) /\ Fresh(r, P) /\ Shaking(r)
  BY <1>0 DEF Ready, Fresh, Shaking
<1>12. Waited(r)
  BY <1>1 DEF Waited, NoApps
<1> QED BY <1>1, <1>2, <1>3, <1>4, <1>5, <1>6, <1>7, <1>8, <1>9, <1>10, <1>11, <1>12
        DEF Orderly, Ordered

LEMMA HandshakeResponseOrderly ==
  ASSUME MaxConnections = 2, NEW s, NEW P, NEW N, Orderly(s, P, N), Tokens(s) = {},
         s.internalBatch, isDisconnected(s) \/ Bare(s),
         NEW reply \in Replies, reply.clientId # 0, Untouched(s, P, reply.clientId)
  PROVE  Orderly(handshakeResponse(s, reply), P, N)
<1> DEFINE known == [s EXCEPT !.clientId = reply.clientId]
           there == [known EXCEPT !.transport = negotiateTransport(known), !.internalBatch = FALSE]
           told == flushBatch(there)
           r == handshakeResponse(s, reply)
<1>1. /\ there \in Clients /\ there.status = s.status /\ there.clientId = reply.clientId
      /\ there.wire = s.wire /\ there.deferred = s.deferred /\ there.transports = s.transports
      /\ there.queue = s.queue /\ ~there.internalBatch
  <2>1. reply.clientId \in Nat /\ s \in Clients
    BY DEF Replies, Orderly
  <2>2. /\ known \in Clients /\ known.status = s.status /\ known.clientId = reply.clientId
        /\ known.wire = s.wire /\ known.deferred = s.deferred /\ known.transports = s.transports
        /\ known.queue = s.queue
    BY <2>1 DEF Clients
  <2> HIDE DEF known
  <2>3. QED BY <2>2, Negotiated DEF Clients
<1>2. \/ r = disconnect(told)
      \/ ~isDisconnected(told) /\ r = delayedConnect(told)
      \/ r = told
  <2>1. r = After(told, LAMBDA u :
              CASE isDisconnected(u) \/ u.reconnect = "none" -> disconnect(u)
                [] ~isDisconnected(u) /\ u.reconnect = "retry" -> delayedConnect(u)
                [] OTHER -> u)
    BY Zenon DEF handshakeResponse
  <2> HIDE DEF told, r
  <2>2. r = CASE isDisconnected(told) \/ told.reconnect = "none" -> disconnect(told)
              [] ~isDisconnected(told) /\ told.reconnect = "retry" -> delayedConnect(told)
              [] OTHER -> told
    BY <2>1 DEF After
  <2>3. QED BY <2>2
<1> HIDE DEF there
<1>3. Orderly(there, P, N) /\ NoApps(there) /\ Untouched(there, P, there.clientId)
  BY <1>1, SessionOrderly
<1>4. isDisconnected(there) \/ Bare(there)
  BY <1>1 DEF isDisconnected, Bare
<1>5. Orderly(told, P, N)
  BY <1>1, <1>3, <1>4, FlushOrderly
<1> HIDE DEF told, r
<1>6. told \in Clients
  BY <1>5 DEF Orderly
<1>7. Orderly(r, P, N)
  BY <1>2, <1>5, <1>6, DisconnectTamer, ConnectTamer, TamerOrderly
<1> QED BY <1>7 DEF r

-----------------------------------------------------------------------------
\* The messages of a request fail, or its replies are handled.

LEMMA AppFails ==
  ASSUME NEW s, NEW ms \in AppBatches, NEW quit \in BOOLEAN
  PROVE  handleFailure(s, ms, quit) = s
<1> DEFINE n == Len(ms)
<1>1. n \in Nat /\ DOMAIN ms = 1 .. n
  BY DEF AppBatches
<1>2. \A a \in {s}, i \in 1 .. n : failMessage(a, ms[i], quit) \in {s}
  <2> TAKE a \in {s}, i \in 1 .. n
  <2>1. ms \in Seq(AppMessages) /\ i \in DOMAIN ms
    BY <1>1 DEF AppBatches
  <2>2. ms[i] \in AppMessages
    BY <2>1
  <2> QED BY <2>2 DEF AppMessages, App, failMessage
<1> HIDE DEF n
<1>3. handleFailure(s, ms, quit) \in {s}
  BY <1>1, <1>2, FoldFail
<1> QED BY <1>3

LEMMA FailureOrderly ==
  ASSUME MaxConnections = 2, NEW s, NEW P, NEW N, Orderly(s, P, N), NEW ms \in Batches,
         Kind(ms) = "handshake" => s.internalBatch \/ isDisconnected(s), NEW quit \in BOOLEAN
  PROVE  Orderly(handleFailure(s, ms, quit), P, N)
<1> DEFINE r == handleFailure(s, ms, quit)
<1>0. s \in Clients
  BY DEF Orderly
<1>1. CASE ms \in AppBatches
  BY <1>1, AppFails
<1>2. CASE ms \in MetaBatches
  <2>1. DOMAIN ms = {1} /\ Kind(ms) = ms[1].channel
        /\ Kind(ms) \in {"handshake", "connect", "disconnect"}
    BY <1>2, OfOne
  <2>2. r = failMessage(s, ms[1], quit)
    BY <2>1, FailOne
  <2> HIDE DEF r
  <2>3. CASE Kind(ms) = "handshake"
    <3>1. r = failHandshake(s)
      BY <2>1, <2>2, <2>3 DEF failMessage
    <3>2. Tamer(s, r)
      BY <1>0, <2>3, <3>1, FailHandshakeTamer
    <3>3. Orderly(r, P, N)
      BY <3>2, TamerOrderly
    <3> QED BY <3>3 DEF r
  <2>4. CASE Kind(ms) = "connect"
    <3>1. r = connectFailure(s, quit)
      BY <2>1, <2>2, <2>4 DEF failMessage
    <3> QED BY <3>1, ConnectFailureOrderly DEF r
  <2>5. CASE Kind(ms) = "disconnect"
    <3>1. r = abortAndDisconnect(s)
      BY <2>1, <2>2, <2>5 DEF failMessage
    <3> QED BY <3>1, AbortAndDisconnectOrderly DEF r
  <2> QED BY <2>1, <2>3, <2>4, <2>5
<1> QED BY <1>1, <1>2 DEF Batches

LEMMA AdviceOrderly ==
  ASSUME NEW s, NEW P, NEW N, Orderly(s, P, N), NEW advice \in Advices
  PROVE  Orderly(updateAdvice(s, advice), P, N)
BY AdviceTamer, TamerOrderly DEF Orderly

LEMMA AppReplies ==
  ASSUME NEW s, NEW P, NEW N, Orderly(s, P, N), NEW q \in Seq(Replies),
         \A i \in DOMAIN q : q[i].channel \in App, NEW quit \in BOOLEAN
  PROVE  Orderly(handleMessages(s, q, quit), P, N)
<1> DEFINE A == {a \in Clients : Orderly(a, P, N)}
           n == Len(q)
<1>1. n \in Nat /\ DOMAIN q = 1 .. n
  OBVIOUS
<1>2. \A i \in 1 .. n : q[i] \in Replies
  BY <1>1
<1>3. \A x \in Replies : x.advice \in Advices
  BY DEF Replies, Advices
<1>4. \A a \in A, i \in 1 .. n : receive(a, q[i], quit) \in A
  <2> TAKE a \in A, i \in 1 .. n
  <2> DEFINE v == updateAdvice(a, q[i].advice)
  <2>1. q[i].advice \in Advices
    BY <1>2, <1>3
  <2>2. receive(a, q[i], quit) = v
    BY <1>1 DEF receive, App
  <2>3. Orderly(v, P, N)
    BY <2>1, AdviceOrderly
  <2> HIDE DEF v
  <2> QED BY <2>2, <2>3 DEF Orderly
<1>5. s \in A
  BY DEF Orderly
<1> HIDE DEF A, n
<1>6. handleMessages(s, q, quit) \in A
  BY <1>1, <1>4, <1>5, FoldReceive
<1> QED BY <1>6 DEF A

LEMMA RepliesOrderly ==
  ASSUME MaxConnections = 2, NEW s, Good(s), NEW P, NEW N, Orderly(s, P, N), NEW w \in s.wire,
         w.served, ~w.expired, NEW quit \in BOOLEAN
  PROVE  /\ Orderly(complete(s, w, TRUE), P, N)
         /\ Orderly(handleMessages(complete(s, w, TRUE), w.replies, quit), P, N)
<1> DEFINE t == complete(s, w, TRUE)
           r == handleMessages(t, w.replies, quit)
           reply == w.replies[1]
           u == updateAdvice(t, reply.advice)
<1>0. s \in Clients /\ w \in UnderWay /\ w.messages \in Batches /\ w.replies \in Seq(Replies)
      /\ Answered(w) /\ (w.metaConnect <=> Kind(w.messages) = "connect") /\ TRUE \in BOOLEAN
  BY DEF Good, Clients, UnderWay, Requests
<1>1. /\ t \in Clients /\ Same(s, t) /\ Tokens(t) = Tokens(s) \ {w}
      /\ (~w.metaConnect /\ Only(s, w) => Bare(t))
  BY <1>0, Completes
<1>2. Orderly(t, P, N) /\ (NoApps(s) => Live(t) \subseteq Live(s))
  <2>1. \A v \in Live(s) : v.type = w.type /\ v.id = w.id => v = w
    BY DEF Orderly, Ordered, Ids, Live
  <2> QED BY <1>0, <2>1, CompleteOrderly
<1> HIDE DEF t
<1>3. \A i \in DOMAIN w.replies : w.replies[i] \in Replies /\ w.replies[i].advice \in Advices
  <2> DEFINE q == w.replies
  <2>1. q \in Seq(Replies)
    BY <1>0
  <2> HIDE DEF q
  <2>2. \A i \in DOMAIN q : q[i] \in Replies
    BY <2>1
  <2>3. \A x \in Replies : x.advice \in Advices
    BY DEF Replies, Advices
  <2>4. QED BY <2>2, <2>3 DEF q
<1>4. CASE w.messages \in MetaBatches
  <2>1. DOMAIN w.replies = {1} /\ reply \in Replies /\ reply.advice \in Advices
        /\ reply.channel = Kind(w.messages)
        /\ (reply.channel = "handshake" => reply.ok /\ reply.clientId # 0)
    BY <1>0, <1>3, <1>4, OfOne DEF Answered
  <2>2. r = receive(t, reply, quit)
    BY <2>1, ReceiveOne
  <2>3. /\ u \in Clients /\ Tokens(u) = Tokens(t) /\ u.internalBatch = t.internalBatch
        /\ u.transports = t.transports /\ u.wire = t.wire
        /\ (isDisconnected(u) <=> isDisconnected(t))
    BY <1>1, <2>1, Advises
  <2>4. Orderly(u, P, N)
    BY <1>2, <2>1, AdviceOrderly
  <2> HIDE DEF r
  <2>5. CASE Kind(w.messages) = "handshake"
    <3>1. w \in Tokens(s)
      BY <2>5 DEF Tokens, Token
    <3>2. /\ s.internalBatch /\ (isDisconnected(s) \/ Only(s, w))
          /\ \A v \in Tokens(s) : v = w
      BY <2>5, <3>1 DEF Good, Phase, OneTurn
    <3>3. Untouched(s, P, reply.clientId)
      BY <2>5, <3>1 DEF Orderly, Ordered, Fresh
    <3>4. NoApps(s)
      BY <3>2 DEF Orderly, Ordered, Batch
    <3> DEFINE k == reply.clientId
    <3> HIDE DEF u, reply
    <3>5. Untouched(u, P, k)
      <4>1. Live(u) \subseteq Live(s)
        BY <1>2, <2>3, <3>4 DEF Live
      <4> QED BY <3>3, <4>1 DEF Untouched, k
    <3>6. Tokens(u) = {} /\ u.internalBatch
      BY <1>1, <2>3, <3>2 DEF Same
    <3>7. isDisconnected(u) \/ Bare(u)
      <4>1. CASE isDisconnected(s)
        BY <1>1, <2>3, <4>1 DEF Same, isDisconnected
      <4>2. CASE Only(s, w)
        <5>1. Bare(t)
          BY <1>0, <1>1, <2>5, <4>2
        <5> QED BY <2>3, <5>1 DEF Bare
      <4> QED BY <3>2, <4>1, <4>2
    <3>8. r = handshakeResponse(u, reply)
      BY <2>1, <2>2, <2>5 DEF receive, u
    <3>9. Orderly(r, P, N)
      BY <2>1, <2>4, <2>5, <3>5, <3>6, <3>7, <3>8, HandshakeResponseOrderly DEF k
    <3> QED BY <1>2, <3>9 DEF r, t
  <2>6. CASE Kind(w.messages) = "connect"
    <3> HIDE DEF u, reply
    <3>1. r = connectResponse(u, reply, quit)
      BY <2>1, <2>2, <2>6 DEF receive, u
    <3>2. Orderly(r, P, N)
      BY <2>4, <3>1, ConnectResponseOrderly
    <3> QED BY <1>2, <3>2 DEF r, t
  <2>7. CASE Kind(w.messages) = "disconnect"
    <3> HIDE DEF u, reply
    <3>1. r \in {disconnect(u), abortAndDisconnect(u)}
      BY <2>1, <2>2, <2>7 DEF receive, u
    <3>2. Orderly(disconnect(u), P, N)
      BY <2>3, <2>4, DisconnectTamer, TamerOrderly
    <3>3. Orderly(abortAndDisconnect(u), P, N)
      BY <2>4, AbortAndDisconnectOrderly
    <3>4. Orderly(r, P, N)
      BY <3>1, <3>2, <3>3
    <3> QED BY <1>2, <3>4 DEF r, t
  <2> QED BY <1>4, <2>5, <2>6, <2>7, OfOne
<1>5. CASE w.messages \in AppBatches
  <2>1. \A i \in DOMAIN w.replies : w.replies[i].channel \in App
    <3> TAKE i \in DOMAIN w.replies
    <3>1. w.messages \in Seq(AppMessages) /\ i \in DOMAIN w.messages
      BY <1>0, <1>5 DEF Answered, AppBatches
    <3>2. w.messages[i] \in AppMessages
      BY <3>1
    <3> QED BY <1>0, <3>2 DEF Answered, AppMessages
  <2> DEFINE q == w.replies
  <2> HIDE DEF q
  <2>2. Orderly(handleMessages(t, q, quit), P, N)
    BY <1>0, <1>2, <2>1, AppReplies DEF q
  <2> QED BY <1>2, <2>2 DEF q, t
<1> QED BY <1>0, <1>4, <1>5 DEF Batches

-----------------------------------------------------------------------------
\* The actions of the client that leave P and N alone.

LEMMA TimerOrderly ==
  ASSUME MaxConnections = 2, Good(client), NEW P, NEW N, Orderly(client, P, N), Timer
  PROVE  Orderly(client', P, N)
<1> DEFINE fired == [client EXCEPT !.scheduled = ""]
<1>0. client \in Clients
  BY DEF Good
<1>1. /\ fired \in Clients /\ fired.wire = client.wire /\ fired.deferred = client.deferred
      /\ fired.transports = client.transports /\ fired.queue = client.queue
      /\ fired.transport = client.transport /\ fired.internalBatch = client.internalBatch
      /\ fired.status = client.status /\ fired.clientId = client.clientId
  BY <1>0 DEF Clients
<1>2. \/ client.scheduled = "connect" /\ client' = connect(fired)
      \/ client.scheduled = "handshake" /\ client' = handshake(fired)
  BY <1>0 DEF Timer, Clients
<1> HIDE DEF fired
<1>3. isDisconnected(fired) <=> isDisconnected(client)
  BY <1>1 DEF isDisconnected
<1>4. Orderly(fired, P, N)
  BY <1>1, <1>3, SteadyTamer, TamerOrderly
<1>5. client.scheduled = "handshake" => isDisconnected(fired) \/ (fired.internalBatch /\ Bare(fired))
  BY <1>1, <1>3 DEF Good, Phase, Bare
<1> QED BY <1>2, <1>4, <1>5, ConnectOrderly, HandshakeOrderly

LEMMA DeferredOrderly ==
  ASSUME MaxConnections = 2, Good(client), NEW P, NEW N, Orderly(client, P, N), Deferred
  PROVE  Orderly(client', P, N)
<1> DEFINE next == Head(client.deferred)
           rest == [client EXCEPT !.deferred = Tail(@)]
           t == completeRequest(rest, next.type, next.id, FALSE)
<1>0. client \in Clients /\ client.deferred \in Seq(Failures) /\ client.deferred # <<>>
  BY DEF Good, Clients, Deferred
<1>1. next \in Failures /\ Tail(client.deferred) \in Seq(Failures)
  BY <1>0, TailIn
<1>2. client' = handleFailure(t, next.messages, FALSE)
  BY DEF Deferred
<1>3. next.type \in Types /\ next.messages \in Waiting
  BY <1>1 DEF Failures
<1>4. /\ 1 \in DOMAIN client.deferred /\ next = client.deferred[1]
      /\ \A i \in DOMAIN Tail(client.deferred) :
           /\ i + 1 \in DOMAIN client.deferred
           /\ Tail(client.deferred)[i] = client.deferred[i + 1]
  <2> DEFINE q == client.deferred
  <2>1. q \in Seq(Failures) /\ q # <<>>
    BY <1>0
  <2> HIDE DEF q
  <2>2. /\ 1 \in DOMAIN q /\ Head(q) = q[1]
        /\ \A i \in DOMAIN Tail(q) : i + 1 \in DOMAIN q /\ Tail(q)[i] = q[i + 1]
    BY <2>1
  <2> QED BY <2>2 DEF q
<1>5. /\ rest \in Clients /\ rest.wire = client.wire /\ rest.deferred = Tail(client.deferred)
      /\ rest.transports = client.transports /\ rest.queue = client.queue
      /\ rest.transport = client.transport /\ rest.internalBatch = client.internalBatch
      /\ rest.status = client.status /\ rest.clientId = client.clientId
  BY <1>0, <1>1 DEF Clients
<1> HIDE DEF rest, next
<1>6. Orderly(rest, P, N)
  <2>1. \A i \in DOMAIN rest.deferred : \E k \in DOMAIN client.deferred :
          rest.deferred[i] = client.deferred[k]
    BY <1>4, <1>5
  <2>2. isDisconnected(rest) <=> isDisconnected(client)
    BY <1>5 DEF isDisconnected
  <2>3. Tamer(client, rest)
    BY <1>5, <2>1, <2>2 DEF Tamer, Envs
  <2> QED BY <2>3, TamerOrderly
<1>7. \A v \in Live(rest) : ~(v.type = next.type /\ v.id = next.id)
  BY <1>4, <1>5 DEF Orderly, Ordered, Ids, Live
<1>8. Sends(rest, t) /\ FALSE \in BOOLEAN
  BY <1>3, <1>5, CompletesRequest
<1>9. t = completeRequest(rest, next.type, next.id, FALSE)
  OBVIOUS
<1> HIDE DEF t
<1> DEFINE type == next.type
           id == next.id
<1>10. Ordered(t, P, N) /\ Waited(t)
  <2>1. type \in Types /\ t = completeRequest(rest, type, id, FALSE)
        /\ \A v \in Live(rest) : ~(v.type = type /\ v.id = id)
    BY <1>3, <1>7, <1>9
  <2> HIDE DEF type, id
  <2> QED BY <1>6, <1>8, <2>1, CompletesOrdered DEF Orderly
<1>11. Orderly(t, P, N)
  BY <1>6, <1>8, <1>10 DEF Orderly, Sends, Same, Shaking
<1>12. next.messages \in Batches /\ Kind(next.messages) # "handshake"
  BY <1>3 DEF Waiting
<1> QED BY <1>2, <1>8, <1>11, <1>12, FailureOrderly

LEMMA RespondOrderly ==
  ASSUME MaxConnections = 2, Good(client), NEW P, NEW N, Orderly(client, P, N),
         NEW w \in client.wire, NEW quit \in BOOLEAN, Respond(w, quit)
  PROVE  Orderly(client', P, N)
<1>1. w.served /\ ~w.expired
  BY DEF Respond
<1>2. /\ Orderly(complete(client, w, TRUE), P, N)
      /\ Orderly(handleMessages(complete(client, w, TRUE), w.replies, quit), P, N)
  BY <1>1, RepliesOrderly
<1> QED BY <1>2 DEF Respond

\* The messages of w fail, from any state that differs only in it.
LEMMA EndOrderly ==
  ASSUME MaxConnections = 2, Good(client), NEW P, NEW N, NEW w \in client.wire, ~w.expired,
         NEW quit \in BOOLEAN, NEW left, Orderly(left, P, N), Same(client, left),
         \A v \in Live(left) : v.type = w.type /\ v.id = w.id => v = w,
         NEW ended, ended = complete(left, w, FALSE), Failed(ended, w, quit)
  PROVE  Orderly(client', P, N)
<1>0. w \in UnderWay /\ w.messages \in Batches /\ left \in Clients /\ FALSE \in BOOLEAN
  BY DEF Good, Clients, UnderWay, Requests, Orderly
<1>1. Orderly(ended, P, N) /\ Same(left, ended)
  BY <1>0, CompleteOrderly, Completes
<1>2. Kind(w.messages) = "handshake" => ended.internalBatch \/ isDisconnected(ended)
  <2>1. Kind(w.messages) = "handshake" => w \in Tokens(client)
    BY DEF Tokens, Token
  <2> QED BY <1>1, <2>1 DEF Good, Phase, Same
<1> DEFINE ms == w.messages
<1>3. Orderly(handleFailure(ended, ms, quit), P, N)
  <2>1. ms \in Batches /\ (Kind(ms) = "handshake" => ended.internalBatch \/ isDisconnected(ended))
    BY <1>0, <1>2
  <2> HIDE DEF ms
  <2> QED BY <1>1, <2>1, FailureOrderly
<1> QED BY <1>1, <1>3 DEF Failed

LEMMA FailOrderly ==
  ASSUME MaxConnections = 2, Good(client), NEW P, NEW N, Orderly(client, P, N),
         NEW w \in client.wire, NEW quit \in BOOLEAN, Fail(w, quit)
  PROVE  Orderly(client', P, N)
<1> DEFINE left == crossDomainFails(client, w)
<1>0. client \in Clients /\ ~w.expired /\ Failed(complete(left, w, FALSE), w, quit)
  BY DEF Good, Fail
<1>1. Orderly(left, P, N)
  BY CrossDomainOrderly
<1>2. Same(client, left) /\ left.wire = client.wire
  BY <1>0, CrossDomainFails DEF Sends
<1> HIDE DEF left
<1>3. \A v \in Live(left) : v.type = w.type /\ v.id = w.id => v = w
  BY <1>1, <1>2 DEF Orderly, Ordered, Ids, Live
<1> QED BY <1>0, <1>1, <1>2, <1>3, EndOrderly

LEMMA LateOrderly ==
  ASSUME Good(client), NEW P, NEW N, Orderly(client, P, N), NEW w \in client.wire, Late(w)
  PROVE  Orderly(client', P, N)
<1>1. /\ client' \in Clients /\ Same(client, client') /\ Steady(client, client')
      /\ client'.wire = client.wire \ {w}
  BY WithoutRequest DEF Late, Good
<1>2. Tamer(client, client')
  BY <1>1 DEF Tamer, Same, Steady, Envs, isDisconnected
<1> QED BY <1>2, TamerOrderly

LEMMA FirstHandshakeOrderly ==
  ASSUME MaxConnections = 2, Good(client), NEW P, NEW N, Orderly(client, P, N),
         isDisconnected(client), Handshake
  PROVE  Orderly(client', P, N)
<1> DEFINE s == [client EXCEPT !.status = "disconnected"]
<1>1. /\ s \in Clients /\ s.status = "disconnected" /\ s.wire = client.wire
      /\ s.deferred = client.deferred /\ s.transports = client.transports
      /\ s.queue = client.queue /\ s.transport = client.transport
      /\ s.internalBatch = client.internalBatch /\ s.clientId = client.clientId
  BY DEF Good, Clients
<1>2. client' = handshake(s)
  BY DEF Handshake
<1> HIDE DEF s
<1>3. isDisconnected(s)
  BY <1>1 DEF isDisconnected
<1>4. Orderly(s, P, N)
  BY <1>1, <1>3, SteadyTamer, TamerOrderly
<1> QED BY <1>2, <1>3, <1>4, HandshakeOrderly

LEMMA DisconnectOrderly ==
  ASSUME MaxConnections = 2, NEW P, NEW N, Orderly(client, P, N), Disconnect
  PROVE  Orderly(client', P, N)
BY DisconnectCallOrderly DEF Disconnect

-----------------------------------------------------------------------------
\* The page publishes and subscribes.

\* The batches of the client.
LEMMA BatchesOf ==
  ASSUME NEW s \in Clients
  PROVE  /\ \A t \in Types : \A i \in DOMAIN Envs(s, t) : Envs(s, t)[i].messages \in Batches
         /\ \A w \in s.wire : w.messages \in Batches
         /\ s.queue \in Seq(AppMessages)
<1>1. ASSUME NEW t \in Types, NEW i \in DOMAIN Envs(s, t)
      PROVE  Envs(s, t)[i].messages \in Batches
  <2> DEFINE q == Envs(s, t)
  <2>1. q \in Seq(Envelopes) /\ i \in DOMAIN q
    BY EnvelopesOf DEF Envs
  <2> HIDE DEF q
  <2>2. q[i] \in Envelopes
    BY <2>1
  <2> QED BY <2>2 DEF Envelopes, Waiting, q
<1> QED BY <1>1 DEF Clients, UnderWay, Requests

LEMMA PubsAre ==
  ASSUME NEW ms \in Batches, NEW i \in DOMAIN ms
  PROVE  ms[i] \in Messages /\ ms[i].n \in Nat
<1>1. ms \in Seq(Messages)
  BY BatchIs
<1>2. ms[i] \in Messages
  BY <1>1
<1> QED BY <1>2 DEF Messages

LEMMA LaterOrderly ==
  ASSUME NEW s, NEW P \in SUBSET (Nat \X Nat), NEW N \in Nat, Orderly(s, P, N),
         NEW M \in Nat, N <= M
  PROVE  Orderly(s, P, M)
<1>0. s \in Clients /\ Batched(s, P, N)
  BY DEF Orderly, Ordered
<1>1. \A ms \in Batches : Fine(ms, P, N) => Fine(ms, P, M)
  <2> SUFFICES ASSUME NEW ms \in Batches, Fine(ms, P, N) PROVE Fine(ms, P, M)
    OBVIOUS
  <2>1. \A j \in DOMAIN ms : ms[j].n \in Nat
    BY PubsAre
  <2>2. \A j \in DOMAIN ms : Pub(ms[j]) => ms[j].n <= M
    BY <2>1 DEF Fine
  <2> QED BY <2>2 DEF Fine
<1>2. \A p \in P : p[2] <= M
  <2>1. \A p \in P : p[2] \in Nat /\ p[2] <= N
    BY <1>0 DEF Batched
  <2> QED BY <2>1
<1>3. Sorted(s.queue, M)
  <2> DEFINE q == s.queue
  <2>1. q \in Seq(AppMessages) /\ Sorted(q, N)
    BY <1>0, BatchesOf DEF Batched
  <2> HIDE DEF q
  <2>2. \A j \in DOMAIN q : q[j].n \in Nat
    <3>1. \A j \in DOMAIN q : q[j] \in AppMessages
      BY <2>1
    <3> QED BY <3>1 DEF AppMessages, Messages
  <2>3. Sorted(q, M)
    BY <2>1, <2>2 DEF Sorted
  <2> QED BY <2>3 DEF q
<1>4. Batched(s, P, M)
  BY <1>0, <1>1, <1>2, <1>3, BatchesOf DEF Batched, Live
<1> QED BY <1>4 DEF Orderly, Ordered

\* More waits for the handshake.
LEMMA QueuedOrderly ==
  ASSUME NEW s, NEW P, NEW N, Orderly(s, P, N), NEW r \in Clients, Sorted(r.queue, N),
         r.wire = s.wire, r.deferred = s.deferred, r.transports = s.transports,
         r.transport = s.transport, r.internalBatch = s.internalBatch,
         r.status = s.status, r.clientId = s.clientId
  PROVE  Orderly(r, P, N)
<1>0. /\ s \in Clients /\ Live(r) = Live(s) /\ Tokens(r) = Tokens(s)
      /\ (isDisconnected(r) <=> isDisconnected(s))
      /\ \A t \in Types : Envs(r, t) = Envs(s, t)
      /\ \A v \in Live(s) : Known(r, v) <=> Known(s, v)
      /\ \A k : Over(r, k) <=> Over(s, k)
  BY DEF Orderly, Live, Tokens, isDisconnected, Envs, Known, Over
<1>1. Ids(s) /\ Slot(s) /\ Batched(s, P, N) /\ Turn(s) /\ One(s) /\ Strays(s) /\ Place(s)
      /\ Batch(s) /\ LongOnes(s) /\ Ready(s) /\ Fresh(s, P) /\ Waited(s) /\ Shaking(s)
  BY DEF Orderly, Ordered
<1>2. Ids(r) /\ Slot(r)
  BY <1>1 DEF Ids, Slot, Envs
<1>3. Batched(r, P, N)
  BY <1>0, <1>1 DEF Batched
<1>4. Turn(r) /\ One(r)
  BY <1>0, <1>1 DEF Turn, One
<1>5. Strays(r) /\ Place(r)
  BY <1>0, <1>1 DEF Strays, Place
<1>6. Batch(r) /\ LongOnes(r)
  BY <1>0, <1>1 DEF Batch, NoApps, LongOnes
<1>7. Ready(r) /\ Fresh(r, P) /\ Waited(r) /\ Shaking(r)
  BY <1>0, <1>1 DEF Ready, Fresh, Untouched, Waited, Shaking
<1> QED BY <1>2, <1>3, <1>4, <1>5, <1>6, <1>7 DEF Orderly, Ordered

LEMMA QueueMessageOrderly ==
  ASSUME MaxConnections = 2, NEW s, NEW P \in SUBSET (Nat \X Nat), NEW N \in Nat,
         Orderly(s, P, N), ~isDisconnected(s), NEW M \in Nat, N <= M,
         NEW m \in AppMessages, Pub(m) => N < m.n /\ m.n <= M
  PROVE  Orderly(queueMessage(s, m), P, M)
<1> DEFINE r == queueMessage(s, m)
<1>0. s \in Clients /\ Batched(s, P, N) /\ s.clientId \in Nat /\ s.transport \in Types
      /\ s.internalBatch \in BOOLEAN
  BY DEF Orderly, Ordered, Clients
<1>1. Orderly(s, P, M)
  BY LaterOrderly
<1>2. CASE s.internalBatch
  <2> DEFINE q == s.queue
             q2 == Append(q, m)
             t == [s EXCEPT !.queue = q2]
  <2>1. q \in Seq(AppMessages) /\ Sorted(q, N) /\ Sorted(q, M)
    BY <1>0, <1>1, BatchesOf DEF Batched, Orderly, Ordered
  <2>2. r = t
    BY <1>0, <1>2 DEF queueMessage, Clients
  <2> HIDE DEF q
  <2>3. /\ Len(q) \in Nat /\ DOMAIN q = 1 .. Len(q) /\ DOMAIN q2 = 1 .. Len(q) + 1
        /\ \A i \in 1 .. Len(q) : q2[i] = q[i] /\ q[i] \in AppMessages
        /\ q2[Len(q) + 1] = m
    BY <2>1
  <2>4. q2 \in Seq(AppMessages)
    BY <2>1, AppendIn
  <2> HIDE DEF q2
  <2>5. Sorted(q2, M)
    <3> SUFFICES ASSUME NEW j \in 1 .. Len(q) + 1, Pub(q2[j])
                 PROVE  q2[j].n <= M /\ \A i \in 1 .. j - 1 : Pub(q2[i]) => q2[i].n < q2[j].n
      BY <2>3 DEF Sorted
    <3>1. CASE j \in 1 .. Len(q)
      <4>1. \A i \in 1 .. j - 1 : i \in 1 .. Len(q)
        BY <2>3, <3>1
      <4> QED BY <2>1, <2>3, <3>1, <4>1 DEF Sorted
    <3>2. CASE j = Len(q) + 1
      <4>1. \A i \in 1 .. j - 1 : i \in 1 .. Len(q)
        BY <2>3, <3>2
      <4>2. \A i \in 1 .. Len(q) : q[i].n \in Nat
        BY <2>3 DEF AppMessages, Messages
      <4>3. m.n \in Nat
        BY DEF AppMessages, Messages
      <4>4. N < m.n /\ m.n <= M
        BY <2>3, <3>2
      <4>5. \A i \in 1 .. Len(q) : Pub(q[i]) => q[i].n <= N
        BY <2>1, <2>3 DEF Sorted
      <4>6. \A i \in 1 .. Len(q) : Pub(q[i]) => q[i].n < m.n
        BY <4>2, <4>3, <4>4, <4>5
      <4> QED BY <2>3, <3>2, <4>1, <4>4, <4>6
    <3> QED BY <2>3, <3>1, <3>2
  <2>6. /\ t \in Clients /\ t.queue = q2 /\ t.wire = s.wire /\ t.deferred = s.deferred
        /\ t.transports = s.transports /\ t.transport = s.transport /\ t.status = s.status
        /\ t.internalBatch = s.internalBatch /\ t.clientId = s.clientId
    BY <1>0, <2>4 DEF Clients
  <2> HIDE DEF t
  <2>7. Orderly(t, P, M)
    BY <1>1, <2>5, <2>6, QueuedOrderly
  <2> QED BY <2>2, <2>7
<1>3. CASE ~s.internalBatch
  <2> DEFINE ms == <<m>>
             p == stamp(ms, s.clientId)
             envs == Envs(s, s.transport)
  <2>1. ms \in AppBatches /\ Len(ms) = 1 /\ DOMAIN ms = {1} /\ ms[1] = m
    BY DEF AppBatches
  <2>2. r = send(s, ms)
    BY <1>3 DEF queueMessage
  <2> HIDE DEF ms
  <2>3. /\ DOMAIN p = {1} /\ Session(p) = s.clientId /\ Len(p) = 1 /\ p \in AppBatches
        /\ p[1].clientId = s.clientId /\ (Pub(p[1]) <=> Pub(m)) /\ p[1].n = m.n
    BY <1>0, <2>1, StampFields DEF Pub
  <2>e. p = stamp(ms, s.clientId)
    OBVIOUS
  <2> HIDE DEF p, r
  <2>4. m.n \in Nat
    BY DEF AppMessages, Messages
  <2>5. Fine(p, P, M)
    <3>1. \A j \in DOMAIN p : j = 1 /\ 1 .. j - 1 = {}
      BY <2>3
    <3>2. Pub(m) => \A x \in P : x[2] < m.n
      <4>1. \A x \in P : x[2] \in Nat /\ x[2] <= N
        BY <1>0 DEF Batched
      <4> QED BY <2>4, <4>1
    <3> QED BY <2>3, <3>1, <3>2 DEF Fine
  <2>6. Current(s, s.clientId)
    <3>1. s.clientId # 0
      BY <1>3 DEF Orderly, Ordered, Ready
    <3> QED BY <1>3, <3>1 DEF Orderly, Ordered, Strays, Over, Current
  <2>7. NoLong(s, s.transport) /\ ~Long(p)
    BY <1>0, <2>3 DEF Orderly, Ordered, LongOnes, NoLong, Long
  <2>8. s.transports[s.transport].requests = {} =>
          \A i \in DOMAIN envs : IsApp(envs[i].messages) => Ahead(p, envs[i].messages)
    BY <1>0, LostIs DEF Orderly, Waited
  <2>9. \A ks \in Batches : Fine(ks, P, N) => Ahead(ks, p)
    <3> SUFFICES ASSUME NEW ks \in Batches, Fine(ks, P, N), NEW i \in DOMAIN ks, NEW j \in DOMAIN p,
                        Pub(ks[i]), Pub(p[j])
                 PROVE  Before(ks[i], p[j])
      BY DEF Ahead
    <3>1. j = 1 /\ Pub(m) /\ p[j].n = m.n
      BY <2>3
    <3>2. ks[i].n \in Nat /\ ks[i].n <= N
      BY PubsAre DEF Fine
    <3>3. ks[i].n < m.n
      BY <2>4, <3>1, <3>2
    <3> QED BY <3>1, <3>3 DEF Before
  <2>10. \A i \in DOMAIN envs : IsApp(envs[i].messages) => Ahead(envs[i].messages, p)
    <3> TAKE i \in DOMAIN envs
    <3>1. envs[i].messages \in Batches
      BY <1>0, BatchesOf
    <3>2. IsApp(envs[i].messages) => Fine(envs[i].messages, P, N)
      BY <1>0 DEF Batched
    <3> QED BY <2>9, <3>1, <3>2
  <2>11. \A v \in Live(s) : ~v.served => Ahead(v.messages, p)
    <3> TAKE v \in Live(s)
    <3>1. v.messages \in Batches
      BY <1>0, BatchesOf DEF Live
    <3> QED BY <1>0, <2>9, <3>1 DEF Batched
  <2>12. Orderly(send(s, ms), P, M)
    BY <1>1, <1>3, <2>1, <2>5, <2>6, <2>7, <2>8, <2>10, <2>11, <2>e, SendOrderly
  <2> QED BY <2>2, <2>12 DEF r
<1> QED BY <1>0, <1>2, <1>3

LEMMA PublishOrderly ==
  ASSUME MaxConnections = 2, NEW P \in SUBSET (Nat \X Nat), calls \in Calls, limits \in Limits,
         Orderly(client, P, calls.publish), Publish
  PROVE  Orderly(client', P, calls'.publish) /\ calls'.publish \in Nat
<1> DEFINE n == calls.publish + 1
           length == IF n \in limits.tooLong THEN MaxLength + 1 ELSE 1
           m == [Message("publish", n, 0) EXCEPT !.length = length]
<1>1. client' = queueMessage(client, m) /\ ~isDisconnected(client)
  BY DEF Publish
<1>2. m \in AppMessages /\ m.n = n
  <2>1. n \in Nat /\ length \in Nat \ {0}
    BY MaxLengthAssumption DEF Calls
  <2> HIDE DEF n, length
  <2>2. QED BY <2>1 DEF Message, AppMessages, Messages, Channels, App
<1> HIDE DEF m
<1>3. calls'.publish = n /\ calls.publish \in Nat
  BY DEF Publish, Count, Calls
<1>4. n \in Nat /\ calls.publish <= n /\ calls.publish < n /\ n <= n
  BY <1>3
<1>5. Orderly(client', P, n)
  <2> HIDE DEF n
  <2> QED BY <1>1, <1>2, <1>3, <1>4, QueueMessageOrderly
<1> QED BY <1>3, <1>4, <1>5

LEMMA SubscribeOrderly ==
  ASSUME MaxConnections = 2, NEW P \in SUBSET (Nat \X Nat), NEW N \in Nat,
         Orderly(client, P, N), Subscribe
  PROVE  Orderly(client', P, N)
<1> DEFINE added == [client EXCEPT !.subs = @ + 1]
           m == Message("subscribe", 0, 0)
<1>0. client \in Clients
  BY DEF Orderly
<1>1. /\ added \in Clients /\ added.wire = client.wire /\ added.deferred = client.deferred
      /\ added.transports = client.transports /\ added.queue = client.queue
      /\ added.transport = client.transport /\ added.internalBatch = client.internalBatch
      /\ added.status = client.status /\ added.clientId = client.clientId
  <2> DEFINE k == client.subs + 1
  <2>1. k \in Nat
    <3>1. client.subs \in Nat
      BY <1>0 DEF Clients
    <3>2. QED BY <3>1
  <2>2. added = [client EXCEPT !.subs = k]
    BY <1>0 DEF Clients
  <2> HIDE DEF k, added
  <2> QED BY <1>0, <2>1, <2>2 DEF Clients
<1>2. m \in AppMessages /\ ~Pub(m)
  BY DEF Message, AppMessages, Messages, Channels, App, Pub
<1>3. client' \in {added, queueMessage(added, m)} /\ ~isDisconnected(client)
  BY DEF Subscribe
<1> HIDE DEF added, m
<1>4. isDisconnected(added) <=> isDisconnected(client)
  BY <1>1 DEF isDisconnected
<1>5. Orderly(added, P, N)
  BY <1>1, <1>4, SteadyTamer, TamerOrderly
<1>6. N <= N
  OBVIOUS
<1>7. Orderly(queueMessage(added, m), P, N)
  BY <1>2, <1>3, <1>4, <1>5, <1>6, QueueMessageOrderly
<1> QED BY <1>3, <1>5, <1>7

-----------------------------------------------------------------------------
\* A request changes under way: it expires, or the server answers it.

PubsOf(w) ==
  {<<w.messages[i].clientId, w.messages[i].n>> : i \in {j \in DOMAIN w.messages : Pub(w.messages[j])}}

\* x takes the place of w; the server may have seen what w carried.
Swapped(s, r, w, x) ==
  /\ x.type = w.type /\ x.id = w.id /\ x.messages = w.messages
  /\ x.expired \/ (x.served /\ ~w.expired)
  /\ Same(s, r) /\ r.transports = s.transports /\ r.deferred = s.deferred
  /\ r.wire = (s.wire \ {w}) \cup {x}

LEMMA SwappedOrderly ==
  ASSUME NEW s, NEW P, NEW N, Orderly(s, P, N), NEW w \in s.wire, NEW x, NEW r \in Clients, Swapped(s, r, w, x),
         NEW R,
         \A p \in R :
           \/ p \in P
           \/ /\ w \in Live(s) /\ ~w.served
              /\ \E i \in DOMAIN w.messages :
                   /\ Pub(w.messages[i])
                   /\ p[1] = w.messages[i].clientId /\ p[2] = w.messages[i].n,
         \A v \in r.wire : v.expired /\ ~v.served /\ IsApp(v.messages) => Spent(v, R),
         \A v \in Tokens(r) : Kind(v.messages) = "handshake" /\ v.served =>
           v \in Tokens(s) \/ Untouched(s, R, v.replies[1].clientId)
  PROVE  Orderly(r, R, N)
<1>0. s \in Clients /\ Ordered(s, P, N) /\ w.messages \in Batches
  BY BatchesOf DEF Orderly
<1>1. /\ \A v \in Live(r) : v \in Live(s) \ {w} \/ (v = x /\ w \in Live(s) /\ x.served)
      /\ (isDisconnected(r) <=> isDisconnected(s))
      /\ \A t \in Types : Envs(r, t) = Envs(s, t)
      /\ \A v \in Live(s) : Known(r, v) <=> Known(s, v)
      /\ (Known(r, x) <=> Known(s, w))
      /\ \A k : Over(r, k) <=> Over(s, k)
  <2>1. \A v \in Live(r) : v \in Live(s) \ {w} \/ (v = x /\ w \in Live(s) /\ x.served)
    <3> SUFFICES ASSUME NEW v \in Live(r)
                 PROVE  v \in Live(s) \ {w} \/ (v = x /\ w \in Live(s) /\ x.served)
      OBVIOUS
    <3>1. v \in r.wire /\ ~v.expired /\ IsApp(v.messages)
      BY DEF Live
    <3>2. v \in s.wire \ {w} \/ v = x
      BY <3>1 DEF Swapped
    <3>3. v = x => w \in Live(s) /\ x.served
      BY <3>1 DEF Swapped, Live
    <3>4. v \in s.wire \ {w} => v \in Live(s) \ {w}
      BY <3>1 DEF Live
    <3> QED BY <3>2, <3>3, <3>4
  <2>2. (isDisconnected(r) <=> isDisconnected(s)) /\ \A k : Over(r, k) <=> Over(s, k)
    BY DEF isDisconnected, Over, Same, Swapped
  <2>3. /\ \A t \in Types : Envs(r, t) = Envs(s, t)
        /\ \A v \in Live(s) : Known(r, v) <=> Known(s, v)
        /\ (Known(r, x) <=> Known(s, w))
    BY DEF Envs, Known, Swapped
  <2> QED BY <2>1, <2>2, <2>3
<1>2. \A v \in Live(r) : \E u \in Live(s) :
        /\ v.type = u.type /\ v.messages = u.messages /\ (Known(r, v) <=> Known(s, u))
        /\ IF v = x THEN u = w ELSE u = v /\ u # w
  <2> TAKE v \in Live(r)
  <2>1. CASE v = x /\ w \in Live(s)
    BY <1>1, <2>1 DEF Swapped
  <2>2. CASE v # x /\ v \in Live(s) \ {w}
    BY <1>1, <2>2
  <2>3. v = x => w \in Live(s)
    <3>1. v = x => v.messages = w.messages /\ ~w.expired
      BY DEF Swapped, Live
    <3> QED BY <3>1 DEF Live
  <2> QED BY <1>1, <2>1, <2>2, <2>3
<1>5. \A v \in Live(r) : ~v.served => v \in Live(s) \ {w}
  BY <1>1
<1>6. \A p \in R :
        \/ p \in P
        \/ /\ w \in Live(s) /\ ~w.served /\ p[1] = Session(w.messages)
           /\ \E i \in DOMAIN w.messages : Pub(w.messages[i]) /\ p[2] = w.messages[i].n
  <2>1. w \in Live(s) /\ ~w.served => Fine(w.messages, P, N)
    BY <1>0 DEF Ordered, Batched
  <2> QED BY <2>1 DEF Fine
<1>7. Ids(r)
  <2>1. Ids(s) /\ \A v \in s.wire : v.type \in Types
    BY <1>0 DEF Ordered, Clients, UnderWay, Requests
  <2>2. \A u, v \in r.wire : u.type = v.type /\ u.id = v.id => u = v
    BY <2>1 DEF Ids, Swapped
  <2>3. \A v \in r.wire : \E u \in s.wire : v.type = u.type /\ v.id = u.id
    BY DEF Swapped
  <2>4. \A v \in r.wire, i \in DOMAIN r.deferred :
          r.deferred[i].type = v.type => r.deferred[i].id # v.id
    BY <2>1, <2>3 DEF Ids, Swapped
  <2>5. \A v \in r.wire : \A i \in DOMAIN Envs(r, v.type) : Envs(r, v.type)[i].id # v.id
    BY <1>1, <2>1, <2>3 DEF Ids
  <2> QED BY <2>2, <2>4, <2>5 DEF Ids
<1>8. \A ms : Fine(ms, P, N) /\ (w \in Live(s) /\ ~w.served => Ahead(w.messages, ms)) => Fine(ms, R, N)
  <2> SUFFICES ASSUME NEW ms, Fine(ms, P, N), w \in Live(s) /\ ~w.served => Ahead(w.messages, ms)
               PROVE  Fine(ms, R, N)
    OBVIOUS
  <2>1. \A j \in DOMAIN ms : Pub(ms[j]) =>
          \A p \in R : p[1] = Session(ms) => p[2] < ms[j].n \/ ms[j].displaced
    <3> SUFFICES ASSUME NEW j \in DOMAIN ms, Pub(ms[j]), NEW p \in R, p[1] = Session(ms), p \notin P
                 PROVE  p[2] < ms[j].n \/ ms[j].displaced
      BY DEF Fine
    <3>1. PICK i \in DOMAIN w.messages : Pub(w.messages[i]) /\ p[2] = w.messages[i].n
      BY <1>6
    <3>2. Ahead(w.messages, ms) /\ Session(w.messages) = Session(ms)
      BY <1>6
    <3> QED BY <3>1, <3>2 DEF Ahead, Before
  <2> QED BY <2>1 DEF Fine
<1>9. Batched(r, R, N)
  <2>0. Batched(s, P, N) /\ Turn(s) /\ One(s)
    BY <1>0 DEF Ordered
  <2>1. \A t \in Types : \A i \in DOMAIN Envs(r, t) :
          IsApp(Envs(r, t)[i].messages) => Fine(Envs(r, t)[i].messages, R, N)
    BY <1>1, <1>8, <2>0 DEF Batched, Turn
  <2>2. \A v \in Live(r) : ~v.served => Fine(v.messages, R, N)
    <3> SUFFICES ASSUME NEW v \in Live(r), ~v.served PROVE Fine(v.messages, R, N)
      OBVIOUS
    <3>1. w \in Live(s) => Session(w.messages) # Session(v.messages)
      BY <1>5, <2>0 DEF One
    <3>2. w \in Live(s) => Ahead(w.messages, v.messages)
      BY <3>1 DEF Ahead
    <3> QED BY <1>5, <1>8, <2>0, <3>2 DEF Batched
  <2>3. \A p \in R : p[2] <= N
    BY <1>6, <2>0 DEF Batched, Fine
  <2>5. r.queue = s.queue
    BY DEF Same, Swapped
  <2> QED BY <2>0, <2>1, <2>2, <2>3, <2>5 DEF Batched
<1>10. Slot(r) /\ Ready(r)
  BY <1>0, <1>1 DEF Ordered, Slot, Ready, Same, Swapped
<1>11. Turn(r) /\ One(r)
  <2>1. Turn(r)
    BY <1>0, <1>1, <1>5 DEF Ordered, Turn
  <2>2. One(r)
    BY <1>0, <1>2 DEF Ordered, One
  <2> QED BY <2>1, <2>2
<1>12. Strays(r) /\ Place(r)
  <2>1. Strays(r)
    BY <1>0, <1>1, <1>2 DEF Ordered, Strays
  <2>2. Place(r)
    BY <1>0, <1>1, <1>2 DEF Ordered, Place, Same, Swapped
  <2> QED BY <2>1, <2>2
<1>13. Batch(r) /\ LongOnes(r)
  <2>1. NoApps(s) => NoApps(r)
    BY <1>1, <1>2 DEF NoApps
  <2>2. Batch(r)
    BY <1>0, <2>1 DEF Ordered, Batch, Same, Swapped
  <2>3. LongOnes(r)
    BY <1>0, <1>1 DEF Ordered, LongOnes
  <2> QED BY <2>2, <2>3
<1>14. Fresh(r, R)
  <2> SUFFICES ASSUME NEW v \in Tokens(r), Kind(v.messages) = "handshake", v.served
               PROVE  Untouched(r, R, v.replies[1].clientId)
    BY DEF Fresh
  <2> DEFINE k == v.replies[1].clientId
  <2>1. Untouched(s, R, k)
    <3>1. CASE v \in Tokens(s)
      <4>1. Untouched(s, P, k)
        BY <1>0, <3>1 DEF Ordered, Fresh
      <4> QED BY <1>6, <4>1 DEF Untouched
    <3> QED BY <3>1
  <2> QED BY <1>2, <2>1 DEF Untouched
<1>15. Waited(r) /\ Shaking(r)
  <2>1. Waited(s) /\ Shaking(s) /\ r.transports = s.transports
    BY DEF Orderly, Swapped
  <2>2. Waited(r)
    BY <1>1, <2>1 DEF Waited
  <2>3. \A v \in Tokens(r) : \E u \in Tokens(s) : v.messages = u.messages
    <3> SUFFICES ASSUME NEW v \in Tokens(r) PROVE \E u \in Tokens(s) : v.messages = u.messages
      OBVIOUS
    <3>1. v \in r.wire /\ ~v.expired /\ Kind(v.messages) \in {"connect", "handshake"}
      BY DEF Tokens, Token
    <3>2. v \in s.wire \ {w} \/ v = x
      BY <3>1 DEF Swapped
    <3>3. v = x => w \in Tokens(s) /\ w.messages = v.messages
      BY <3>1 DEF Swapped, Tokens, Token
    <3>4. v \in s.wire \ {w} => v \in Tokens(s)
      BY <3>1 DEF Tokens, Token
    <3> QED BY <3>2, <3>3, <3>4
  <2>4. Shaking(r)
    BY <2>1, <2>3 DEF Shaking, Same, Swapped
  <2> QED BY <2>2, <2>4
<1> QED BY <1>7, <1>9, <1>10, <1>11, <1>12, <1>13, <1>14, <1>15 DEF Orderly, Ordered

\* What a request carries, added to what its session has seen.
LEMMA WithPubs ==
  ASSUME NEW w, w.messages \in Batches, NEW P \in SUBSET (Nat \X Nat)
  PROVE  P \cup PubsOf(w) \in SUBSET (Nat \X Nat)
<1> DEFINE ms == w.messages
<1> HIDE DEF ms
<1>1. \A i \in DOMAIN ms : ms[i] \in Messages
  BY PubsAre DEF ms
<1>2. \A i \in DOMAIN ms : ms[i].clientId \in Nat /\ ms[i].n \in Nat
  BY <1>1 DEF Messages
<1> QED BY <1>2 DEF PubsOf, ms

LEMMA ExpiredOrderly ==
  ASSUME NEW s, NEW P \in SUBSET (Nat \X Nat), NEW N, Orderly(s, P, N),
         NEW w \in s.wire, ~w.expired, NEW x, x.served = w.served, x.expired,
         NEW r \in Clients, Swapped(s, r, w, x)
  PROVE  \E R \in SUBSET (Nat \X Nat) : P \subseteq R /\ Orderly(r, R, N)
<1> DEFINE R == IF IsApp(w.messages) /\ ~w.served THEN P \cup PubsOf(w) ELSE P
<1>0. w.messages \in Batches /\ Batched(s, P, N)
  BY BatchesOf DEF Orderly, Ordered
<1>1. R \in SUBSET (Nat \X Nat) /\ P \subseteq R
  BY <1>0, WithPubs
<1>2. \A p \in R :
           \/ p \in P
           \/ /\ w \in Live(s) /\ ~w.served
              /\ \E i \in DOMAIN w.messages :
                   /\ Pub(w.messages[i])
                   /\ p[1] = w.messages[i].clientId /\ p[2] = w.messages[i].n
  BY DEF PubsOf, Live
<1>3. ~x.served /\ IsApp(x.messages) => Spent(x, R)
  BY DEF Spent, PubsOf, Swapped
<1> HIDE DEF R
<1>4. \A v \in r.wire : v.expired /\ ~v.served /\ IsApp(v.messages) => Spent(v, R)
  BY <1>0, <1>1, <1>3 DEF Batched, Spent, Swapped
<1>5. \A v \in Tokens(r) : Kind(v.messages) = "handshake" /\ v.served =>
        v \in Tokens(s) \/ Untouched(s, R, v.replies[1].clientId)
  BY DEF Tokens, Token, Swapped
<1>6. Orderly(r, R, N)
  BY <1>2, <1>4, <1>5, SwappedOrderly
<1> QED BY <1>1, <1>6

LEMMA ExpireOrderly ==
  ASSUME MaxConnections = 2, Good(client), NEW P \in SUBSET (Nat \X Nat), NEW N,
         Orderly(client, P, N), NEW w \in client.wire, NEW quit \in BOOLEAN, Expire(w, quit)
  PROVE  \E R \in SUBSET (Nat \X Nat) : P \subseteq R /\ Orderly(client', R, N)
<1> DEFINE x == [w EXCEPT !.expired = TRUE]
           left == IF w.xhr THEN crossDomainFails(client, w)
                   ELSE [client EXCEPT !.wire = (@ \ {w}) \cup {x}]
           ended == complete(left, w, FALSE)
<1>0. client \in Clients /\ w \in UnderWay /\ ~w.expired /\ Failed(ended, w, quit)
  BY DEF Good, Expire, Clients
<1>u. Ids(client)
  BY DEF Orderly, Ordered
<1>1. CASE w.xhr
  <2>1. left = crossDomainFails(client, w)
    BY <1>1
  <2> HIDE DEF left
  <2>2. Orderly(left, P, N)
    BY <2>1, CrossDomainOrderly
  <2>3. Same(client, left) /\ left.wire = client.wire
    BY <1>0, <2>1, CrossDomainFails DEF Sends
  <2>4. \A v \in Live(left) : v.type = w.type /\ v.id = w.id => v = w
    BY <1>u, <2>3 DEF Ids, Live
  <2>5. Orderly(client', P, N)
    BY <1>0, <2>2, <2>3, <2>4, EndOrderly
  <2> QED BY <2>5
<1>2. CASE ~w.xhr
  <2>1. /\ x \in UnderWay /\ x.type = w.type /\ x.id = w.id /\ x.messages = w.messages
        /\ x.served = w.served /\ x.expired
    BY <1>0, <1>2 DEF UnderWay, Requests, Answered
  <2>2. left = [client EXCEPT !.wire = (@ \ {w}) \cup {x}]
    BY <1>2
  <2> HIDE DEF left, x
  <2>3. /\ left \in Clients /\ Same(client, left) /\ left.transports = client.transports
        /\ left.wire = (client.wire \ {w}) \cup {x} /\ left.deferred = client.deferred
    <3>1. left \in Clients /\ Same(client, left) /\ left.transports = client.transports
      BY <1>0, <2>1, <2>2, Replaces
    <3>2. left.wire = (client.wire \ {w}) \cup {x} /\ left.deferred = client.deferred
      BY <1>0, <2>2 DEF Clients
    <3> QED BY <3>1, <3>2
  <2>e. Swapped(client, left, w, x)
    BY <2>1, <2>3 DEF Swapped
  <2>4. PICK R \in SUBSET (Nat \X Nat) : P \subseteq R /\ Orderly(left, R, N)
    BY <1>0, <2>1, <2>3, <2>e, ExpiredOrderly
  <2>5. \A v \in Live(left) : v.type = w.type /\ v.id = w.id => v = w
    BY <1>u, <2>1, <2>3 DEF Ids, Live
  <2>6. Orderly(client', R, N)
    BY <1>0, <2>3, <2>4, <2>5, EndOrderly
  <2> QED BY <2>4, <2>6
<1> QED BY <1>1, <1>2

-----------------------------------------------------------------------------
\* The server accepts what it is sent in order.

\* AcceptedInOrder of any record of the server.
Accepted(srv) ==
  \A k \in DOMAIN srv : \A i, j \in DOMAIN srv[k] :
    i < j => srv[k][i].n < srv[k][j].n \/ srv[k][j].late

\* P has all that the server has accepted.
Seen(srv, P) == \A k \in DOMAIN srv : \A a \in DOMAIN srv[k] : <<k, srv[k][a].n>> \in P

LEMMA AcceptsInOrder ==
  ASSUME NEW srv \in Servers, NEW m \in AppMessages, m.clientId \in DOMAIN srv,
         NEW late \in BOOLEAN, Accepted(srv), NEW P, Seen(srv, P),
         Pub(m) /\ ~late => \A p \in P : p[1] = m.clientId => p[2] < m.n \/ m.displaced,
         NEW R, P \subseteq R, Pub(m) => <<m.clientId, m.n>> \in R
  PROVE  Accepted(Accept(srv, m, late)) /\ Seen(Accept(srv, m, late), R)
<1> DEFINE r == Accept(srv, m, late)
<1>1. CASE ~Pub(m)
  <2>1. m.channel = "subscribe"
    BY <1>1 DEF AppMessages, App, Pub
  <2>2. r = srv
    BY <2>1 DEF Accept
  <2> HIDE DEF r
  <2>3. Accepted(r) /\ Seen(r, R)
    BY <2>2 DEF Seen
  <2> QED BY <2>3 DEF r
<1>2. CASE Pub(m)
  <2> DEFINE k == m.clientId
             e == [n |-> m.n, late |-> late \/ m.displaced]
             q == srv[k]
             v == Append(q, e)
  <2>1. r = [srv EXCEPT ![k] = v]
    BY <1>2 DEF Accept, Pub
  <2>2. q \in Seq(Entries) /\ e \in Entries
    BY ServersAre DEF Entries, AppMessages, Messages
  <2>3. e.n = m.n /\ (e.late <=> late \/ m.displaced)
    OBVIOUS
  <2>4. /\ \A a \in DOMAIN q : <<k, q[a].n>> \in P
        /\ \A i, j \in DOMAIN q : i < j => q[i].n < q[j].n \/ q[j].late
    BY DEF Seen, Accepted
  <2>5. srv = [x \in DOMAIN srv |-> srv[x]] /\ k \in DOMAIN srv
    BY ServersAre
  <2> HIDE DEF e, q
  <2>6. /\ DOMAIN v = 1 .. Len(q) + 1 /\ DOMAIN q = 1 .. Len(q) /\ Len(q) \in Nat
        /\ \A a \in DOMAIN q : v[a] = q[a]
        /\ v[Len(q) + 1] = e
    BY <2>2
  <2> HIDE DEF v
  <2>7. DOMAIN r = DOMAIN srv /\ \A x \in DOMAIN srv : r[x] = IF x = k THEN v ELSE srv[x]
    BY <2>1, <2>5
  <2>8. \A a \in DOMAIN v : a \in DOMAIN q \/ a = Len(q) + 1
    BY <2>6
  <2>9. \A i, j \in DOMAIN v : i < j => v[i].n < v[j].n \/ v[j].late
    <3> SUFFICES ASSUME NEW i \in DOMAIN v, NEW j \in DOMAIN v, i < j
                 PROVE  v[i].n < v[j].n \/ v[j].late
      OBVIOUS
    <3>1. i \in DOMAIN q
      BY <2>6
    <3>2. CASE j \in DOMAIN q
      BY <2>4, <2>6, <3>1, <3>2
    <3>3. CASE j = Len(q) + 1
      <4> DEFINE p == <<k, q[i].n>>
      <4>1. p \in P /\ p[1] = m.clientId /\ p[2] = q[i].n
        BY <2>4, <3>1
      <4> HIDE DEF p
      <4>2. late \/ q[i].n < m.n \/ m.displaced
        BY <1>2, <4>1
      <4>3. v[i] = q[i] /\ v[j] = e
        BY <2>6, <3>1, <3>3
      <4> QED BY <2>3, <4>2, <4>3
    <3> QED BY <2>8, <3>2, <3>3
  <2>10. \A a \in DOMAIN v : <<k, v[a].n>> \in R
    <3> SUFFICES ASSUME NEW a \in DOMAIN v PROVE <<k, v[a].n>> \in R
      OBVIOUS
    <3>1. CASE a \in DOMAIN q
      BY <2>4, <2>6, <3>1
    <3>2. CASE a = Len(q) + 1
      <4>1. v[a].n = m.n
        BY <2>3, <2>6, <3>2
      <4> QED BY <1>2, <4>1
    <3> QED BY <2>8, <3>1, <3>2
  <2> HIDE DEF r, k
  <2>11. Accepted(r)
    BY <2>7, <2>9 DEF Accepted
  <2>12. Seen(r, R)
    BY <2>7, <2>10 DEF Seen
  <2> QED BY <2>11, <2>12 DEF r
<1> QED BY <1>1, <1>2

\* The publishes of a batch, up to the k-th.
PubsUpto(ms, k) ==
  {<<ms[i].clientId, ms[i].n>> : i \in {j \in 1 .. k : Pub(ms[j])}}

LEMMA AnswersInOrder ==
  ASSUME client \in Clients, NEW srv \in Servers, NEW ms \in AppBatches,
         NEW advice \in Given, NEW late \in BOOLEAN,
         Accepted(srv), NEW P, Seen(srv, P), NEW N, late \/ Fine(ms, P, N)
  PROVE  /\ Accepted(answers(srv, ms, advice, late).srv)
         /\ Seen(answers(srv, ms, advice, late).srv, P \cup PubsUpto(ms, Len(ms)))
<1> DEFINE n == Len(ms)
           first == [srv |-> srv, replies |-> <<>>]
           r == answers(srv, ms, advice, late)
<1>0. ms \in Batches /\ ms \in Seq(AppMessages)
  BY AppBatchIs DEF AppBatches
<1>1. n \in Nat /\ DOMAIN ms = 1 .. n
  BY <1>0
<1>2. first \in Dones /\ first.srv = srv
  BY DEF Dones
<1>3. \A i \in 1 .. n : ms[i] \in AppMessages /\ ms[i] \in Messages
  BY <1>0, <1>1 DEF AppMessages
<1>4. \A a \in Dones, i \in 1 .. n : Answer(a, ms[i], advice, late) \in Dones
  BY <1>3, Answers
<1> HIDE DEF n, r, first
<1>5. PICK g : AnswerSteps(g, srv, ms, n, advice, late) /\ r = g[n]
  BY <1>1, <1>2, <1>4, FoldAnswer DEF r, first
<1>6. /\ g[0] = first
      /\ \A k \in 0 .. n - 1 : g[k + 1] = Answer(g[k], ms[k + 1], advice, late)
  BY <1>5 DEF AnswerSteps, first
<1> DEFINE Q(k) == P \cup PubsUpto(ms, k)
           Upto(a, k) == a \in Dones /\ Accepted(a.srv) /\ Seen(a.srv, Q(k))
           S == {k \in Nat : k <= n => Upto(g[k], k)}
<1>7. 0 \in S
  <2>1. Seen(srv, Q(0))
    BY DEF Seen
  <2> QED BY <1>2, <1>6, <2>1
<1>8. \A k \in Nat : k \in S => k + 1 \in S
  <2> TAKE k \in Nat
  <2> SUFFICES ASSUME k \in S, k + 1 <= n PROVE Upto(g[k + 1], k + 1)
    OBVIOUS
  <2> DEFINE m == ms[k + 1]
             a == g[k]
  <2>1. k \in 0 .. n - 1 /\ k + 1 \in 1 .. n /\ k <= n
    BY <1>1
  <2>2. Upto(a, k) /\ m \in AppMessages /\ m \in Messages
    BY <1>3, <2>1
  <2>3. g[k + 1] = Answer(a, m, advice, late)
    BY <1>6, <2>1
  <2>4. g[k + 1] \in Dones
    BY <1>4, <2>1, <2>2, <2>3
  <2>5. Q(k) \subseteq Q(k + 1) /\ (Pub(m) => <<m.clientId, m.n>> \in Q(k + 1))
    BY <2>1 DEF PubsUpto
  <2>6. Pub(m) /\ ~late => \A p \in Q(k) : p[1] = m.clientId => p[2] < m.n \/ m.displaced
    <3> SUFFICES ASSUME Pub(m), ~late, NEW p \in Q(k), p[1] = m.clientId
                 PROVE  p[2] < m.n \/ m.displaced
      OBVIOUS
    <3>0. Fine(ms, P, N) /\ k + 1 \in DOMAIN ms
      BY <1>1, <2>1
    <3>1. CASE p \in P
      BY <3>0, <3>1 DEF Fine
    <3>2. CASE p \in PubsUpto(ms, k)
      <4>1. PICK i \in 1 .. k : Pub(ms[i]) /\ p[2] = ms[i].n
        BY <3>2 DEF PubsUpto
      <4>2. i \in 1 .. (k + 1) - 1
        OBVIOUS
      <4>3. Before(ms[i], m)
        BY <3>0, <4>1, <4>2 DEF Fine
      <4> QED BY <4>1, <4>3 DEF Before
    <3> QED BY <3>1, <3>2
  <2> HIDE DEF m, a, Q
  <2>7. m.channel # "handshake"
    BY <2>2 DEF AppMessages, App
  <2>8. a.srv \in Servers /\ Accepted(a.srv) /\ Seen(a.srv, Q(k))
    BY <2>2 DEF Dones
  <2>9. \/ g[k + 1].srv = a.srv
        \/ m.clientId \in DOMAIN a.srv /\ g[k + 1].srv = Accept(a.srv, m, late)
    <3>1. CASE m.clientId \in DOMAIN a.srv
      <4>1. PICK c : g[k + 1] = [srv |-> Accept(a.srv, m, late), replies |-> c]
        BY <2>3, <2>7, <3>1 DEF Answer
      <4> QED BY <3>1, <4>1
    <3>2. CASE m.clientId \notin DOMAIN a.srv
      <4>1. PICK c : g[k + 1] = [srv |-> a.srv, replies |-> c]
        BY <2>3, <2>7, <3>2 DEF Answer
      <4> QED BY <4>1
    <3> QED BY <3>1, <3>2
  <2> DEFINE v == a.srv
             R == Q(k + 1)
  <2>10. Accepted(g[k + 1].srv) /\ Seen(g[k + 1].srv, Q(k + 1))
    <3>1. CASE g[k + 1].srv = a.srv
      BY <2>5, <2>8, <3>1 DEF Seen
    <3>2. CASE m.clientId \in DOMAIN a.srv /\ g[k + 1].srv = Accept(a.srv, m, late)
      <4>1. /\ v \in Servers /\ m \in AppMessages /\ m.clientId \in DOMAIN v /\ Accepted(v)
            /\ Seen(v, Q(k)) /\ Q(k) \subseteq R /\ (Pub(m) => <<m.clientId, m.n>> \in R)
        BY <2>2, <2>5, <2>8, <3>2
      <4> HIDE DEF v, R
      <4>2. Accepted(Accept(v, m, late)) /\ Seen(Accept(v, m, late), R)
        BY <2>6, <4>1, AcceptsInOrder
      <4> QED BY <3>2, <4>2 DEF v, R
    <3> QED BY <2>9, <3>1, <3>2
  <2> QED BY <2>4, <2>10
<1>9. n \in S
  <2> HIDE DEF S
  <2> QED BY <1>1, <1>7, <1>8, SetInduction
<1>10. Upto(r, n)
  BY <1>1, <1>5, <1>9
<1> QED BY <1>10 DEF r, n

-----------------------------------------------------------------------------
\* The step of the server, its restart, and what comes late.

LEMMA AnswersOne ==
  ASSUME client \in Clients, NEW srv \in Servers, NEW ms \in MetaBatches,
         NEW advice \in Given, NEW late \in BOOLEAN
  PROVE  /\ ms[1] \in Messages
         /\ answers(srv, ms, advice, late) =
              Answer([srv |-> srv, replies |-> <<>>], ms[1], advice, late)
<1> DEFINE first == [srv |-> srv, replies |-> <<>>]
           n == Len(ms)
           r == answers(srv, ms, advice, late)
<1>0. n = 1
  BY DEF MetaBatches
<1>1. n \in Nat /\ DOMAIN ms = 1 .. n
  BY BatchIs DEF Batches
<1>m. ms[1] \in Messages
  BY BatchIs DEF Batches
<1>2. first \in Dones
  BY DEF Dones
<1>3. \A a \in Dones, i \in 1 .. n : Answer(a, ms[i], advice, late) \in Dones
  <2>1. \A i \in 1 .. n : ms[i] \in Messages
    BY <1>0, <1>m
  <2> QED BY <2>1, Answers
<1> HIDE DEF n, r
<1>4. PICK g : AnswerSteps(g, srv, ms, n, advice, late) /\ r = g[n]
  BY <1>1, <1>2, <1>3, FoldAnswer DEF r
<1>5. g[0] = first /\ g[1] = Answer(g[0], ms[1], advice, late)
  <2>1. 0 \in 0 .. n - 1 /\ 0 + 1 = 1
    BY <1>0
  <2> QED BY <1>4, <2>1 DEF AnswerSteps
<1> QED BY <1>0, <1>m, <1>4, <1>5 DEF r

\* What the server knows after a message that is no publish.
LEMMA AnswersMeta ==
  ASSUME client \in Clients, NEW srv \in Servers, NEW ms \in MetaBatches, Kind(ms) # "handshake",
         NEW advice \in Given, NEW late \in BOOLEAN, Accepted(srv), NEW P, Seen(srv, P)
  PROVE  /\ Accepted(answers(srv, ms, advice, late).srv)
         /\ Seen(answers(srv, ms, advice, late).srv, P)
<1> DEFINE m == ms[1]
           r == answers(srv, ms, advice, late).srv
           D == DOMAIN srv \ {m.clientId}
<1>1. m.channel \notin {"handshake", "publish", "subscribe"}
  BY DEF MetaBatches, App, Kind
<1>2. answers(srv, ms, advice, late) = Answer([srv |-> srv, replies |-> <<>>], m, advice, late)
  BY AnswersOne
<1> HIDE DEF m
<1>3. r = srv \/ r = Accept(srv, m, late)
  <2>1. CASE m.clientId \in DOMAIN srv
    <3>1. \E c : answers(srv, ms, advice, late) = [srv |-> Accept(srv, m, late), replies |-> c]
      BY <1>1, <1>2, <2>1 DEF Answer
    <3> QED BY <3>1
  <2>2. CASE m.clientId \notin DOMAIN srv
    <3>1. \E c : answers(srv, ms, advice, late) = [srv |-> srv, replies |-> c]
      BY <1>1, <1>2, <2>2 DEF Answer
    <3> QED BY <3>1
  <2> QED BY <2>1, <2>2
<1>4. r = srv \/ r = [k \in D |-> srv[k]]
  BY <1>1, <1>3 DEF Accept, Restrict
<1> HIDE DEF r
<1>5. \A k \in DOMAIN r : k \in DOMAIN srv /\ r[k] = srv[k]
  BY <1>4
<1>6. Accepted(r) /\ Seen(r, P)
  BY <1>5 DEF Accepted, Seen
<1> QED BY <1>6 DEF r

\* A new session has accepted nothing, and nobody has it yet.
LEMMA AnswersHandshake ==
  ASSUME client \in Clients, NEW srv \in Servers, NEW ms \in MetaBatches, Kind(ms) = "handshake",
         NEW advice \in Given, NEW late \in BOOLEAN, Accepted(srv), NEW P, Seen(srv, P),
         NEW R, R = {p \in P : p[1] # NewSession}
  PROVE  /\ Accepted(answers(srv, ms, advice, late).srv)
         /\ Seen(answers(srv, ms, advice, late).srv, R)
         /\ answers(srv, ms, advice, late).replies[1].clientId = NewSession
<1> DEFINE m == ms[1]
           done == answers(srv, ms, advice, late)
           D == (DOMAIN srv \cap Referred) \cup {NewSession}
           v == [k \in D |-> IF k = NewSession THEN <<>> ELSE srv[k]]
           c == Append(<<>>, Reply(m, TRUE, advice, NewSession))
<1>1. m.channel = "handshake"
  BY DEF Kind
<1>2. done = Answer([srv |-> srv, replies |-> <<>>], m, advice, late)
  BY AnswersOne
<1> HIDE DEF m
<1>3. done = [srv |-> v, replies |-> c]
  BY <1>1, <1>2 DEF Answer
<1>4. c[1].clientId = NewSession
  BY DEF Reply
<1> HIDE DEF c
<1>5. DOMAIN v = D /\ \A k \in D : v[k] = IF k = NewSession THEN <<>> ELSE srv[k]
  OBVIOUS
<1>6. \A k \in D : k # NewSession => k \in DOMAIN srv
  OBVIOUS
<1> HIDE DEF v, D, done
<1>7. done.srv = v /\ done.replies[1].clientId = NewSession
  BY <1>3, <1>4
<1>8. DOMAIN <<>> = {}
  OBVIOUS
<1>9. Accepted(v)
  BY <1>5, <1>6, <1>8 DEF Accepted
<1>10. Seen(v, R)
  <2> SUFFICES ASSUME NEW k \in DOMAIN v, NEW a \in DOMAIN v[k] PROVE <<k, v[k][a].n>> \in R
    BY DEF Seen
  <2>1. k # NewSession /\ k \in DOMAIN srv /\ v[k] = srv[k]
    BY <1>5, <1>6, <1>8
  <2> DEFINE p == <<k, srv[k][a].n>>
  <2>2. p \in P /\ p[1] = k
    BY <2>1 DEF Seen
  <2> QED BY <2>1, <2>2
<1> QED BY <1>7, <1>9, <1>10 DEF done

\* Whatever a request carries, the server has heard of its sessions.
LEMMA SessionsReferred ==
  ASSUME client \in Clients, NEW w \in client.wire
  PROVE  /\ \A i \in DOMAIN w.messages : w.messages[i].clientId \in Referred
         /\ Session(w.messages) \in Referred
<1>1. 1 \in DOMAIN w.messages
  BY BatchesOf, BatchIs
<1>2. \A i \in DOMAIN w.messages : w.messages[i].clientId \in Referred
  BY DEF Referred
<1> QED BY <1>1, <1>2 DEF Session

LEMMA ServeOrderly ==
  ASSUME Good(client), server \in Servers, NEW P \in SUBSET (Nat \X Nat), NEW N,
         Orderly(client, P, N), Accepted(server), Seen(server, P),
         NEW w \in client.wire, NEW advice \in Given, Serve(w, advice)
  PROVE  \E R \in SUBSET (Nat \X Nat) :
           Orderly(client', R, N) /\ Accepted(server') /\ Seen(server', R)
<1> DEFINE done == answers(server, w.messages, advice, w.expired)
           x == [w EXCEPT !.served = TRUE, !.replies = done.replies]
           s == client
           r == client'
           ms == w.messages
<1>0. s \in Clients /\ w \in UnderWay /\ ~w.served /\ ms \in Batches /\ w.expired \in BOOLEAN
  BY DEF Good, Clients, Serve, UnderWay, Requests
<1>1. /\ done \in Dones /\ DOMAIN done.replies = DOMAIN w.messages
      /\ \A i \in DOMAIN w.messages : IsReplyTo(done.replies[i], w.messages[i])
  BY <1>0, AnswersAll
<1>2. server' = done.srv /\ r = [client EXCEPT !.wire = (@ \ {w}) \cup {x}]
  BY DEF Serve
<1>d. done = answers(server, ms, advice, w.expired)
  OBVIOUS
<1> HIDE DEF done
<1>3. /\ x.messages = w.messages /\ x.type = w.type /\ x.id = w.id
      /\ x.served = TRUE /\ x.replies = done.replies /\ x.expired = w.expired
  BY <1>0 DEF UnderWay, Requests
<1>4. x \in UnderWay
  <2>1. done.replies \in Seq(Replies)
    BY <1>1 DEF Dones
  <2>2. x \in Requests /\ x.xhr = w.xhr /\ x.metaConnect = w.metaConnect
    BY <1>0, <2>1 DEF UnderWay, Requests
  <2> HIDE DEF x
  <2>3. Answered(x)
    BY <1>1, <1>3 DEF Answered, IsReplyTo
  <2> QED BY <1>0, <1>3, <2>2, <2>3 DEF UnderWay
<1> HIDE DEF x
<1>5. r \in Clients /\ Swapped(s, r, w, x)
  <2>1. /\ [client EXCEPT !.wire = (@ \ {w}) \cup {x}] \in Clients
        /\ Same(s, [client EXCEPT !.wire = (@ \ {w}) \cup {x}])
        /\ [client EXCEPT !.wire = (@ \ {w}) \cup {x}].transports = s.transports
    BY <1>0, <1>4, Replaces
  <2>2. r.wire = (s.wire \ {w}) \cup {x} /\ r.deferred = s.deferred
    BY <1>0, <1>2 DEF Clients
  <2> QED BY <1>0, <1>2, <1>3, <2>1, <2>2 DEF Swapped
<1>6. \A v \in r.wire : v.expired /\ ~v.served /\ IsApp(v.messages) => v \in s.wire /\ Spent(v, P)
  BY <1>3, <1>5 DEF Orderly, Ordered, Batched, Swapped
<1>7. \A v \in Tokens(r) : v \in Tokens(s) \/ v = x
  BY <1>5 DEF Tokens, Swapped
<1> HIDE DEF r, s
<1>8. CASE IsApp(ms)
  <2> DEFINE R == IF w.expired THEN P ELSE P \cup PubsOf(w)
  <2>1. R \in SUBSET (Nat \X Nat) /\ P \subseteq R
    BY <1>0, WithPubs
  <2>2. ms \in AppBatches
    BY <1>0, <1>8, BatchIs DEF IsApp
  <2>3. w.expired => PubsOf(w) \subseteq P
    BY <1>0, <1>8 DEF Orderly, Ordered, Batched, Spent, PubsOf, s
  <2>4. ~w.expired => Fine(ms, P, N)
    BY <1>0, <1>8 DEF Orderly, Ordered, Batched, Live, s
  <2>5. DOMAIN ms = 1 .. Len(ms)
    BY <1>0, BatchIs
  <2>6. P \cup PubsUpto(ms, Len(ms)) = R
    BY <2>3, <2>5 DEF PubsUpto, PubsOf
  <2> HIDE DEF ms
  <2>7. Accepted(done.srv) /\ Seen(done.srv, P \cup PubsUpto(ms, Len(ms)))
    BY <1>0, <1>d, <2>2, <2>4, AnswersInOrder DEF s
  <2>8. Orderly(r, R, N)
    <3>1. \A p \in R :
           \/ p \in P
           \/ /\ w \in Live(s) /\ ~w.served
              /\ \E i \in DOMAIN w.messages :
                   /\ Pub(w.messages[i])
                   /\ p[1] = w.messages[i].clientId /\ p[2] = w.messages[i].n
      BY <1>0, <1>8 DEF PubsOf, Live, s, ms
    <3>2. \A v \in r.wire : v.expired /\ ~v.served /\ IsApp(v.messages) => Spent(v, R)
      BY <1>6, <2>1 DEF Spent
    <3>3. \A v \in Tokens(r) : Kind(v.messages) = "handshake" /\ v.served =>
            v \in Tokens(s) \/ Untouched(s, R, v.replies[1].clientId)
      BY <1>3, <1>7, <1>8 DEF IsApp, App, ms
    <3> HIDE DEF R
    <3>4. Orderly(s, P, N) /\ w \in s.wire
      BY DEF s
    <3> QED BY <1>5, <3>1, <3>2, <3>3, <3>4, SwappedOrderly
  <2> QED BY <1>2, <2>1, <2>6, <2>7, <2>8 DEF r
<1>9. CASE ~IsApp(ms) /\ Kind(ms) # "handshake"
  <2>1. ms \in MetaBatches
    BY <1>0, <1>9, BatchIs DEF IsApp
  <2> HIDE DEF ms
  <2>2. Accepted(done.srv) /\ Seen(done.srv, P)
    BY <1>0, <1>9, <1>d, <2>1, AnswersMeta DEF s
  <2>3. Orderly(r, P, N)
    <3>1. \A v \in r.wire : v.expired /\ ~v.served /\ IsApp(v.messages) => Spent(v, P)
      BY <1>6
    <3>2. \A v \in Tokens(r) : Kind(v.messages) = "handshake" /\ v.served =>
            v \in Tokens(s) \/ Untouched(s, P, v.replies[1].clientId)
      BY <1>3, <1>7, <1>9 DEF ms
    <3>3. Orderly(s, P, N) /\ w \in s.wire
      BY DEF s
    <3> QED BY <1>5, <3>1, <3>2, <3>3, SwappedOrderly
  <2> QED BY <1>2, <2>2, <2>3 DEF r
<1>10. CASE Kind(ms) = "handshake"
  <2> DEFINE k == NewSession
             R == {p \in P : p[1] # k}
  <2>1. ms \in MetaBatches
    BY <1>0, <1>10, BatchIs DEF App
  <2>2. R \in SUBSET (Nat \X Nat) /\ \A p \in R : p \in P
    OBVIOUS
  <2> HIDE DEF ms
  <2>3. Accepted(done.srv) /\ Seen(done.srv, R) /\ done.replies[1].clientId = k
    BY <1>0, <1>10, <1>d, <2>1, AnswersHandshake DEF s
  <2>4. /\ \A v \in s.wire : Session(v.messages) # k
        /\ \A v \in s.wire : \A i \in DOMAIN v.messages : v.messages[i].clientId # k
    BY <1>0, NewSessionIsNew, SessionsReferred DEF s
  <2>5. Orderly(r, R, N)
    <3>1. \A v \in r.wire : v.expired /\ ~v.served /\ IsApp(v.messages) => Spent(v, R)
      <4> SUFFICES ASSUME NEW v \in r.wire, v.expired, ~v.served, IsApp(v.messages),
                          NEW i \in DOMAIN v.messages, Pub(v.messages[i])
                   PROVE  <<v.messages[i].clientId, v.messages[i].n>> \in R
        BY DEF Spent
      <4> DEFINE a == v.messages[i].clientId
                 p == <<a, v.messages[i].n>>
      <4>1. p \in P /\ a # k
        BY <1>6, <2>4 DEF Spent
      <4>2. p[1] = a
        OBVIOUS
      <4> HIDE DEF a, p
      <4>3. p \in R
        BY <4>1, <4>2
      <4> QED BY <4>3 DEF p, a
    <3>2. Untouched(s, R, k)
      BY <2>4 DEF Untouched, Live
    <3>3. \A v \in Tokens(r) : Kind(v.messages) = "handshake" /\ v.served =>
            v \in Tokens(s) \/ Untouched(s, R, v.replies[1].clientId)
      BY <1>3, <1>7, <2>3, <3>2
    <3>4. Orderly(s, P, N) /\ w \in s.wire
      BY DEF s
    <3> HIDE DEF R
    <3> QED BY <1>5, <2>2, <3>1, <3>3, <3>4, SwappedOrderly
  <2> QED BY <1>2, <2>2, <2>3, <2>5 DEF r
<1> QED BY <1>8, <1>9, <1>10

-----------------------------------------------------------------------------
\* The invariant: some pairs of a session and a number have what the server has accepted
\* and what it may still be sent too late, and all the rest comes behind them in order.
OrderInv ==
  /\ ClientInv
  /\ AcceptedInOrder
  /\ \E P \in SUBSET (Nat \X Nat) : Orderly(client, P, calls.publish) /\ Seen(server, P)

LEMMA AcceptedIs == AcceptedInOrder <=> Accepted(server)
  BY DEF AcceptedInOrder, Accepted

LEMMA OrderInvInit ==
  ASSUME Init
  PROVE  OrderInv
<1> DEFINE s == client
           P == {}
<1>0. ClientInv
  BY ClientInvInit
<1>1. /\ s.wire = {} /\ s.queue = <<>> /\ s.deferred = <<>> /\ s.internalBatch = FALSE
      /\ isDisconnected(s) /\ s.clientId = 0
      /\ \A t \in Types : s.transports[t].requests = {} /\ Envs(s, t) = <<>>
  BY DEF Init, isDisconnected, Envs, Unused
<1>2. s \in Clients
  BY <1>0 DEF ClientInv, Good
<1> HIDE DEF s
<1>3. DOMAIN <<>> = {}
  OBVIOUS
<1>4. Live(s) = {} /\ Tokens(s) = {}
  BY <1>1 DEF Live, Tokens
<1>5. Ids(s) /\ Slot(s) /\ Turn(s) /\ One(s) /\ Strays(s) /\ Place(s)
  BY <1>1, <1>3, <1>4 DEF Ids, Slot, Turn, One, Strays, Place
<1>6. Batched(s, P, calls.publish)
  BY <1>1, <1>3, <1>4 DEF Batched, Sorted
<1>7. Batch(s) /\ LongOnes(s) /\ Ready(s) /\ Fresh(s, P) /\ Waited(s) /\ Shaking(s)
  BY <1>1, <1>3, <1>4 DEF Batch, LongOnes, Ready, Fresh, Waited, Shaking
<1>8. Orderly(s, P, calls.publish)
  BY <1>2, <1>5, <1>6, <1>7 DEF Orderly, Ordered
<1>9. DOMAIN server = {}
  BY DEF Init
<1>10. AcceptedInOrder /\ Seen(server, P)
  BY <1>9 DEF AcceptedInOrder, Seen
<1>11. P \in SUBSET (Nat \X Nat)
  OBVIOUS
<1> QED BY <1>0, <1>8, <1>10, <1>11 DEF OrderInv, s

LEMMA OrderInvNext ==
  ASSUME MaxConnections = 2, OrderInv, [Next]_vars
  PROVE  OrderInv'
<1>0. /\ Good(client) /\ server \in Servers /\ calls \in Calls /\ limits \in Limits
      /\ ClientInv' /\ Accepted(server) /\ (calls.init = 0 => Unstarted(client))
  BY ClientInvNext, AcceptedIs DEF OrderInv, ClientInv
<1> DEFINE N == calls.publish
<1>1. PICK P \in SUBSET (Nat \X Nat) : Orderly(client, P, N) /\ Seen(server, P)
  BY DEF OrderInv
<1>2. N \in Nat
  BY <1>0 DEF Calls
<1>3. ASSUME NEW R \in SUBSET (Nat \X Nat), Orderly(client', R, calls'.publish),
             Accepted(server'), Seen(server', R)
      PROVE  OrderInv'
  <2>1. AcceptedInOrder'
    BY <1>3 DEF AcceptedInOrder, Accepted
  <2>2. Orderly(client, R, calls.publish)' /\ Seen(server, R)'
    BY <1>3
  <2> QED BY <1>0, <2>1, <2>2 DEF OrderInv
<1> HIDE DEF N
<1>4. ASSUME Orderly(client', P, N), server' = server, calls'.publish = N
      PROVE  OrderInv'
  BY <1>0, <1>1, <1>3, <1>4
<1>c. \A name \in {"init", "subscribe", "disconnect", "failure", "restart"} :
        Count(name) => calls'.publish = N
  BY <1>0 DEF Calls, Count, N
<1>e. ASSUME NEW quit \in BOOLEAN,
             \/ calls' = [calls EXCEPT !.disconnect = IF quit THEN @ + 1 ELSE @]
             \/ calls' = [calls EXCEPT !.failure = @ + 1, !.disconnect = IF quit THEN @ + 1 ELSE @]
      PROVE  calls'.publish = N
  BY <1>0, <1>e DEF Calls, N
<1>5. CASE Handshake
  <2>1. server' = server /\ calls'.publish = N
    BY <1>5, <1>c DEF Handshake
  <2>2. isDisconnected(client)
    BY <1>0, <1>5 DEF Handshake, Unstarted
  <2>3. Orderly(client', P, N)
    BY <1>0, <1>1, <1>5, <2>2, FirstHandshakeOrderly
  <2> QED BY <1>4, <2>1, <2>3
<1>6. CASE Publish
  <2>1. server' = server
    BY <1>6 DEF Publish
  <2>2. Orderly(client', P, calls'.publish)
    BY <1>0, <1>1, <1>6, PublishOrderly DEF N
  <2> QED BY <1>0, <1>1, <1>3, <2>1, <2>2
<1>7. CASE Subscribe
  <2>1. server' = server /\ calls'.publish = N
    BY <1>7, <1>c DEF Subscribe
  <2>2. Orderly(client', P, N)
    BY <1>1, <1>2, <1>7, SubscribeOrderly
  <2> QED BY <1>4, <2>1, <2>2
<1>8. CASE Disconnect
  <2>1. server' = server /\ calls'.publish = N
    BY <1>8, <1>c DEF Disconnect
  <2>2. Orderly(client', P, N)
    BY <1>1, <1>8, DisconnectOrderly
  <2> QED BY <1>4, <2>1, <2>2
<1>9. CASE Timer
  <2>1. server' = server /\ calls'.publish = N
    BY <1>9 DEF Timer, N
  <2>2. Orderly(client', P, N)
    BY <1>0, <1>1, <1>9, TimerOrderly
  <2> QED BY <1>4, <2>1, <2>2
<1>10. CASE Deferred
  <2>1. server' = server /\ calls'.publish = N
    BY <1>10 DEF Deferred, N
  <2>2. Orderly(client', P, N)
    BY <1>0, <1>1, <1>10, DeferredOrderly
  <2> QED BY <1>4, <2>1, <2>2
<1>11. ASSUME NEW w \in client.wire, NEW quit \in BOOLEAN, Respond(w, quit)
       PROVE  OrderInv'
  <2>1. server' = server /\ calls'.publish = N
    BY <1>11, <1>e DEF Respond
  <2>2. Orderly(client', P, N)
    BY <1>0, <1>1, <1>11, RespondOrderly
  <2> QED BY <1>4, <2>1, <2>2
<1>12. ASSUME NEW w \in client.wire, NEW quit \in BOOLEAN, Fail(w, quit)
       PROVE  OrderInv'
  <2>1. server' = server /\ calls'.publish = N
    BY <1>12, <1>e DEF Fail, Failed
  <2>2. Orderly(client', P, N)
    BY <1>0, <1>1, <1>12, FailOrderly
  <2> QED BY <1>4, <2>1, <2>2
<1>13. ASSUME NEW w \in client.wire, NEW quit \in BOOLEAN, Expire(w, quit)
       PROVE  OrderInv'
  <2>1. server' = server /\ calls'.publish = N
    BY <1>13, <1>e DEF Expire, Failed
  <2>2. PICK R \in SUBSET (Nat \X Nat) : P \subseteq R /\ Orderly(client', R, N)
    BY <1>0, <1>1, <1>13, ExpireOrderly
  <2>3. Seen(server', R)
    BY <1>1, <2>1, <2>2 DEF Seen
  <2> QED BY <1>0, <1>3, <2>1, <2>2, <2>3
<1>14. ASSUME NEW w \in client.wire, Late(w)
       PROVE  OrderInv'
  <2>1. server' = server /\ calls'.publish = N
    BY <1>14 DEF Late, N
  <2>2. Orderly(client', P, N)
    BY <1>0, <1>1, <1>14, LateOrderly
  <2> QED BY <1>4, <2>1, <2>2
<1>15. ASSUME NEW w \in client.wire, NEW advice \in Given, Serve(w, advice)
       PROVE  OrderInv'
  <2>1. calls'.publish = N
    BY <1>15 DEF Serve, N
  <2>2. PICK R \in SUBSET (Nat \X Nat) :
          Orderly(client', R, N) /\ Accepted(server') /\ Seen(server', R)
    BY <1>0, <1>1, <1>15, ServeOrderly
  <2> QED BY <1>3, <2>1, <2>2
<1>16. CASE Restart
  <2>1. client' = client /\ calls'.publish = N /\ DOMAIN server' = {}
    BY <1>16, <1>c DEF Restart
  <2>2. Accepted(server') /\ Seen(server', P)
    BY <2>1 DEF Accepted, Seen
  <2> QED BY <1>1, <1>3, <2>1, <2>2
<1>17. CASE UNCHANGED vars
  BY <1>1, <1>4, <1>17 DEF vars, N
<1> QED BY <1>5, <1>6, <1>7, <1>8, <1>9, <1>10, <1>11, <1>12, <1>13, <1>14, <1>15, <1>16, <1>17
        DEF Next, Given

\* With two connections, the default of the library that the page leaves alone, the
\* server accepts the publishes of a session in the order of the calls, but for those
\* that come late, whatever is lost, expires or fails, however often the server restarts
\* and the client handshakes, and however long the messages are: one request after the
\* other (_queueSend of the transport, cometd.js:403), or in one batch and its pieces.
THEOREM PublishesInOrder == MaxConnections = 2 => (Spec => []AcceptedInOrder)
<1> SUFFICES ASSUME MaxConnections = 2 PROVE Spec => []AcceptedInOrder
  OBVIOUS
<1>1. Init => OrderInv
  BY OrderInvInit
<1>2. OrderInv /\ [Next]_vars => OrderInv'
  BY OrderInvNext
<1>3. OrderInv => AcceptedInOrder
  BY DEF OrderInv
<1>4. QED BY <1>1, <1>2, <1>3, PTL DEF Spec
=============================================================================
