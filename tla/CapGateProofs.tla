--------------------------- MODULE CapGateProofs ----------------------------
(***************************************************************************)
(* Proofs about CapGate, for any orders, instruments, sizes and caps.      *)
(***************************************************************************)
EXTENDS CapGate, FiniteSetTheorems, TLAPS

USE CapAssumption, SizeAssumption, KindAssumption
-----------------------------------------------------------------------------
(* The inductive invariant *)

\* What an open order may still do to the exposure: stay within the cap
\* however it fills, or shrink a long position it does not flip.
Harmless(o) ==
  \/ exposure + shape[o].qty <= cap
  \/ shape[o].side = "SELL" /\ shape[o].qty <= net[shape[o].iid]

\* As long as no order went past the gate, at most one is open, and it is
\* harmless.
OneHarmless ==
  outrun = {} => /\ \A o, p \in In("accepted") : o = p
                 /\ \A o \in In("accepted") : Harmless(o)

IInv == CapTypeOK /\ CapHoldsUnlessOutrun /\ OneHarmless
-----------------------------------------------------------------------------
\* The distance from zero grows by no more than the step.
LEMMA AbsStep ==
  ASSUME NEW n \in Int, NEW q \in Nat
  PROVE  Abs(n + q) - Abs(n) <= q /\ Abs(n - q) - Abs(n) <= q
  BY DEF Abs

\* A step towards zero that does not cross it does not increase the distance.
LEMMA AbsShrink ==
  ASSUME NEW n \in Int, NEW q \in Nat, q <= n
  PROVE  Abs(n - q) <= Abs(n)
  BY DEF Abs

\* An order that was sent is one a strategy may send.
LEMMA SentKind ==
  ASSUME CapTypeOK, NEW o \in Orders, status[o] # "unsent"
  PROVE  /\ shape[o] \in Shapes
         /\ shape[o].iid \in Instruments
         /\ shape[o].side \in {"BUY", "SELL"}
         /\ shape[o].qty \in Nat /\ shape[o].qty >= 1
         /\ shape[o].priced \in BOOLEAN
<1>1. shape[o] \in Shapes
  BY DEF CapTypeOK
<1>2. 1..MaxQty \subseteq {n \in Nat : n >= 1}
  OBVIOUS
<1> QED BY <1>1, <1>2 DEF Shapes

\* An order that checks out without going past the gate is harmless.
LEMMA GateHarmless ==
  ASSUME CapTypeOK, NEW o \in Orders, status[o] # "unsent", ChecksOut(o),
         WaysPast(o) = {}
  PROVE  Harmless(o)
<1> USE SentKind
<1>1. shape[o].priced
  BY DEF WaysPast
<1>4. status[o] # "unsent" /\ shape[o].side \in {"BUY", "SELL"}
  OBVIOUS
<1>2. CASE Closing(o)
  <2>1. ~(shape[o].qty > net[shape[o].iid])
    BY <1>2 DEF WaysPast, Flips
  <2>2. net[shape[o].iid] \in Int
    BY DEF CapTypeOK
  <2> QED BY <1>2, <2>1, <2>2 DEF Closing, Harmless
<1>3. CASE ~Closing(o)
  BY <1>1, <1>3 DEF ChecksOut, Passes, Closing, Harmless
<1> QED BY <1>2, <1>3

\* The gate's verdict: the order is accepted, and would have been had all been
\* read unless that is one of its ways past, or it is rejected.
LEMMA Verdict ==
  ASSUME NEW o \in Orders, CheckOrder(o)
  PROVE  \/ /\ status' = [status EXCEPT ![o] = "accepted"]
            /\ outrun' = outrun \union WaysPast(o)
            /\ "unread" \notin outrun' => ChecksOut(o)
         \/ status' = [status EXCEPT ![o] = "rejected"] /\ outrun' = outrun
<1>1. \/ /\ status' = [status EXCEPT ![o] = "accepted"]
         /\ outrun' = outrun \union WaysPast(o)
      \/ status' = [status EXCEPT ![o] = "rejected"] /\ outrun' = outrun
  BY DEF CheckOrder
<1>2. ~ChecksOut(o) => "unread" \in WaysPast(o)
  BY DEF WaysPast
<1> QED BY <1>1, <1>2
-----------------------------------------------------------------------------
LEMMA InitIInv == CapInit => IInv
  BY DEF CapInit, IInv, CapTypeOK, CapHoldsUnlessOutrun, ExposureWithinCap,
         OneHarmless, In, OrderStatuses

LEMMA NextType == CapTypeOK /\ [CapNext]_capVars => CapTypeOK'
<1> SUFFICES ASSUME CapTypeOK, [CapNext]_capVars PROVE CapTypeOK'
  OBVIOUS
<1> USE DEF CapTypeOK, OrderStatuses
<1>1. ASSUME NEW o \in Orders, NEW k \in OrderShapes, QueueOrder(o, k) PROVE CapTypeOK'
  BY <1>1 DEF QueueOrder
<1>2. ASSUME NEW o \in Orders, CheckOrder(o) PROVE CapTypeOK'
  <2>1. WaysPast(o) \subseteq Ways
    BY DEF WaysPast, Ways
  <2>2. outrun' \subseteq Ways /\ status' \in [Orders -> OrderStatuses]
    BY <1>2, <2>1, Verdict
  <2>3. status[o] # "unsent" /\ \A q \in Orders : status'[q] # "unsent" => status[q] # "unsent"
    BY <1>2, Verdict DEF CheckOrder
  <2> QED BY <1>2, <2>2, <2>3 DEF CheckOrder
<1>3. ASSUME NEW o \in Orders, FillOpen(o) PROVE CapTypeOK'
  <2>1. shape[o].iid \in Instruments /\ shape[o].qty \in Nat
    BY <1>3, SentKind DEF FillOpen
  <2>2. Signed(shape[o]) \in Int
    BY <2>1 DEF Signed
  <2>3. net[shape[o].iid] + Signed(shape[o]) \in Int
    BY <2>1, <2>2
  <2>4. net' \in [Instruments -> Int]
    BY <1>3, <2>3 DEF FillOpen
  <2>5. exposure' \in Int
    BY <1>3, <2>1, <2>3 DEF FillOpen, Abs
  <2> QED BY <1>3, <2>4, <2>5 DEF FillOpen
<1>4. ASSUME NEW o \in Orders, CancelOpen(o) PROVE CapTypeOK'
  BY <1>4 DEF CancelOpen
<1>5. CASE UNCHANGED capVars
  BY <1>5 DEF capVars
<1> QED BY <1>1, <1>2, <1>3, <1>4, <1>5 DEF CapNext

\* The step that matters: the fill of a harmless order keeps the cap.
LEMMA FillWithinCap ==
  ASSUME CapTypeOK, NEW o \in Orders, FillOpen(o), Harmless(o), exposure <= cap
  PROVE  exposure' <= cap
<1> DEFINE n == net[shape[o].iid]
           q == shape[o].qty
<1>1. /\ n \in Int /\ q \in Nat /\ exposure \in Int /\ cap \in Nat
      /\ shape[o].side \in {"BUY", "SELL"}
  BY SentKind DEF FillOpen, CapTypeOK
<1>2. exposure' = exposure - Abs(n) + Abs(n + Signed(shape[o]))
  BY DEF FillOpen
<1>3. CASE exposure + q <= cap
  <2>1. Abs(n) \in Int /\ Abs(n + q) \in Int /\ Abs(n - q) \in Int
    BY <1>1 DEF Abs
  <2>2. n + Signed(shape[o]) = n + q \/ n + Signed(shape[o]) = n - q
    BY <1>1 DEF Signed
  <2>3. Abs(n + q) - Abs(n) <= q /\ Abs(n - q) - Abs(n) <= q
    BY <1>1, AbsStep
  <2> DEFINE a == Abs(n)  b == Abs(n + q)  c == Abs(n - q)
  <2>4. exposure' = exposure - a + b \/ exposure' = exposure - a + c
    BY <1>2, <2>2
  <2>5. a \in Int /\ b \in Int /\ c \in Int /\ b - a <= q /\ c - a <= q
    BY <2>1, <2>3
  <2> HIDE DEF a, b, c, n, q
  <2> QED BY <1>1, <1>3, <2>4, <2>5
<1>4. CASE shape[o].side = "SELL" /\ q <= n
  <2>1. Abs(n) \in Int /\ Abs(n - q) \in Int
    BY <1>1 DEF Abs
  <2>2. n + Signed(shape[o]) = n - q
    BY <1>1, <1>4 DEF Signed
  <2> QED BY <1>1, <1>2, <1>4, <2>1, <2>2, AbsShrink
<1> QED BY <1>3, <1>4 DEF Harmless

LEMMA NextIInv == IInv /\ [CapNext]_capVars => IInv'
<1> SUFFICES ASSUME IInv, [CapNext]_capVars PROVE IInv'
  OBVIOUS
<1>0. CapTypeOK'
  BY NextType DEF IInv
<1> SUFFICES ASSUME outrun' = {}
             PROVE  /\ exposure' <= cap'
                    /\ \A o, p \in In("accepted")' : o = p
                    /\ \A o \in In("accepted")' : Harmless(o)'
  BY <1>0 DEF IInv, CapHoldsUnlessOutrun, ExposureWithinCap, OneHarmless
<1> USE DEF IInv
<1>1. ASSUME NEW r \in Orders, NEW k \in OrderShapes, QueueOrder(r, k),
             outrun = {}
      PROVE  /\ exposure' <= cap'
             /\ \A o, p \in In("accepted")' : o = p
             /\ \A o \in In("accepted")' : Harmless(o)'
  <2>1. exposure' <= cap'
    BY <1>1 DEF QueueOrder, CapHoldsUnlessOutrun, ExposureWithinCap
  <2>2. In("accepted")' = In("accepted") /\ r \notin In("accepted")
    BY <1>1 DEF QueueOrder, In, CapTypeOK
  <2>3. \A o \in In("accepted") : shape'[o] = shape[o]
    BY <1>1, <2>2 DEF QueueOrder, CapTypeOK, In
  <2> QED
    BY <1>1, <2>1, <2>2, <2>3 DEF QueueOrder, OneHarmless, Harmless
<1>2. ASSUME NEW r \in Orders, CheckOrder(r)
      PROVE  /\ exposure' <= cap'
             /\ \A o, p \in In("accepted")' : o = p
             /\ \A o \in In("accepted")' : Harmless(o)'
  <2>1. outrun = {}
    BY <1>2, Verdict
  <2>2. exposure' <= cap'
    BY <1>2, <2>1 DEF CheckOrder, CapHoldsUnlessOutrun, ExposureWithinCap
  <2>3. CASE /\ status' = [status EXCEPT ![r] = "accepted"]
             /\ outrun' = outrun \union WaysPast(r)
             /\ ChecksOut(r)
    <3>1. WaysPast(r) = {}
      BY <2>3
    <3>2. In("accepted") = {}
      BY <3>1 DEF WaysPast
    <3>3. In("accepted")' = {r}
      BY <2>3, <3>2 DEF In, CapTypeOK
    <3>4. Harmless(r)
      BY <1>2, <2>3, <3>1, GateHarmless DEF CheckOrder
    <3>5. Harmless(r)'
      BY <1>2, <3>4 DEF CheckOrder, Harmless
    <3> QED BY <2>2, <3>3, <3>5
  <2>4. CASE status' = [status EXCEPT ![r] = "rejected"]
    <3>1. In("accepted")' = In("accepted")
      BY <1>2, <2>4 DEF CheckOrder, In, CapTypeOK
    <3> QED BY <1>2, <2>1, <2>2, <3>1 DEF CheckOrder, OneHarmless, Harmless
  <2> QED BY <1>2, <2>3, <2>4, Verdict
<1>3. ASSUME NEW r \in Orders, FillOpen(r), outrun = {}
      PROVE  /\ exposure' <= cap'
             /\ \A o, p \in In("accepted")' : o = p
             /\ \A o \in In("accepted")' : Harmless(o)'
  <2>1. r \in In("accepted")
    BY <1>3 DEF FillOpen, In
  <2>2. In("accepted")' = {}
    BY <1>3, <2>1 DEF FillOpen, In, CapTypeOK, OneHarmless
  <2>3. exposure' <= cap
    BY <1>3, <2>1, FillWithinCap
       DEF OneHarmless, CapHoldsUnlessOutrun, ExposureWithinCap
  <2> QED BY <1>3, <2>2, <2>3 DEF FillOpen
<1>4. ASSUME NEW r \in Orders, CancelOpen(r), outrun = {}
      PROVE  /\ exposure' <= cap'
             /\ \A o, p \in In("accepted")' : o = p
             /\ \A o \in In("accepted")' : Harmless(o)'
  <2>1. In("accepted")' \subseteq In("accepted")
    BY <1>4 DEF CancelOpen, In, CapTypeOK
  <2> QED BY <1>4, <2>1 DEF CancelOpen, OneHarmless, Harmless,
                           CapHoldsUnlessOutrun, ExposureWithinCap
<1>5. ASSUME UNCHANGED capVars
      PROVE  /\ exposure' <= cap'
             /\ \A o, p \in In("accepted")' : o = p
             /\ \A o \in In("accepted")' : Harmless(o)'
  BY <1>5 DEF capVars, OneHarmless, Harmless, In, CapHoldsUnlessOutrun,
              ExposureWithinCap
<1> QED
  BY <1>1, <1>2, <1>3, <1>4, <1>5 DEF CapNext, QueueOrder, FillOpen, CancelOpen
-----------------------------------------------------------------------------
LEMMA Inductive == CapSpec => []IInv
<1>1. CapInit => IInv
  BY InitIInv
<1>2. IInv /\ [CapNext]_capVars => IInv'
  BY NextIInv
<1> QED BY <1>1, <1>2, PTL DEF CapSpec

-----------------------------------------------------------------------------
(* How far a race gets.  Sums are counted in units of USDC: the exposure is  *)
(* the number of units deployed, and an open order owes one for each unit it *)
(* may still add.                                                            *)

\* The units deployed in all instruments.
Deployed == {u \in Instruments \X Nat : 1 <= u[2] /\ u[2] <= Abs(net[u[1]])}

\* A SELL that can only shrink the long position: no other SELL is before it.
Covered(o) ==
  /\ shape[o].side = "SELL" /\ shape[o].qty <= net[shape[o].iid]
  /\ \A p \in In("accepted") : p # o /\ shape[p].iid = shape[o].iid
                                 => shape[p].side # "SELL"

\* The units that open orders may still add to the exposure.
Growing == {o \in In("accepted") : ~Covered(o)}
Units == {u \in Orders \X (1..MaxQty) : u[1] \in Growing /\ u[2] <= shape[u[1]].qty}
UnitsOf(o, q) == {o} \X (1..q)

Room == Cardinality(In("queued") \union In("accepted")) <= MaxOpen
Counts == IsFiniteSet(Deployed) /\ exposure = Cardinality(Deployed)
Small == \A o \in Growing : shape[o].qty <= cap
Reach == exposure + Cardinality(Units) <= MaxOpen * cap

\* As long as orders only race each other, every growing order is within the
\* cap, and together with the exposure they are within MaxOpen times the cap.
RaceInv == /\ CapTypeOK /\ Room /\ Counts
           /\ outrun \subseteq {"raced"} => Small /\ Reach

\* Sets of orders and of units are finite.
LEMMA UnitsFinite ==
  /\ \A S \in SUBSET Orders : IsFiniteSet(S) /\ Cardinality(S) \in Nat
  /\ \A U \in SUBSET (Orders \X (1..MaxQty)) : IsFiniteSet(U) /\ Cardinality(U) \in Nat
<1>0. IsFiniteSet(1..MaxQty)
  BY FS_Interval
<1>1. IsFiniteSet(Orders \X (1..MaxQty))
  BY <1>0, FS_Product, FewOrders
<1> QED BY <1>1, FS_Subset, FS_CardinalityType, FewOrders

\* The units of one order.
LEMMA UnitsOfOne ==
  ASSUME NEW o, NEW q \in Nat
  PROVE  IsFiniteSet(UnitsOf(o, q)) /\ Cardinality(UnitsOf(o, q)) = q
<1>1. IsFiniteSet({o}) /\ Cardinality({o}) = 1
  BY FS_Singleton
<1>2. IsFiniteSet(1..q) /\ Cardinality(1..q) = q
  BY FS_Interval
<1>3. /\ IsFiniteSet({o} \X (1..q))
      /\ Cardinality({o} \X (1..q)) = Cardinality({o}) * Cardinality(1..q)
  BY <1>1, <1>2, FS_Product
<1> QED BY <1>1, <1>2, <1>3 DEF UnitsOf

LEMMA FewerUnits ==
  ASSUME NEW V \in SUBSET (Orders \X (1..MaxQty)), NEW U \in SUBSET V
  PROVE  Cardinality(U) <= Cardinality(V)
  BY UnitsFinite, FS_Subset

LEMMA MoreUnits ==
  ASSUME NEW V \in SUBSET (Orders \X (1..MaxQty)), NEW o, NEW q \in Nat,
         NEW U, U \subseteq V \union UnitsOf(o, q)
  PROVE  Cardinality(U) \in Nat /\ Cardinality(U) <= Cardinality(V) + q
<1>1. IsFiniteSet(V) /\ Cardinality(V) \in Nat
  BY UnitsFinite
<1>2. IsFiniteSet(UnitsOf(o, q)) /\ Cardinality(UnitsOf(o, q)) = q
  BY UnitsOfOne
<1>3. Cardinality(V \cap UnitsOf(o, q)) \in Nat
  BY <1>1, FS_Intersection, FS_CardinalityType
<1>4a. /\ IsFiniteSet(V \union UnitsOf(o, q))
       /\ Cardinality(V \union UnitsOf(o, q))
            = Cardinality(V) + Cardinality(UnitsOf(o, q)) - Cardinality(V \cap UnitsOf(o, q))
  BY <1>1, <1>2, FS_Union
<1>4. /\ IsFiniteSet(V \union UnitsOf(o, q))
      /\ Cardinality(V \union UnitsOf(o, q)) <= Cardinality(V) + q
  BY <1>1, <1>2, <1>3, <1>4a
<1>5. IsFiniteSet(U) /\ Cardinality(U) <= Cardinality(V \union UnitsOf(o, q))
  BY <1>4, FS_Subset
<1>6. Cardinality(U) \in Nat /\ Cardinality(V \union UnitsOf(o, q)) \in Nat
  BY <1>4, <1>5, FS_CardinalityType
<1> QED BY <1>1, <1>4, <1>5, <1>6

LEMMA LessUnits ==
  ASSUME NEW V \in SUBSET (Orders \X (1..MaxQty)), NEW o, NEW q \in Nat,
         UnitsOf(o, q) \subseteq V, NEW U, U \subseteq V \ UnitsOf(o, q)
  PROVE  Cardinality(U) \in Nat /\ Cardinality(U) <= Cardinality(V) - q
<1>1. IsFiniteSet(V) /\ Cardinality(V) \in Nat
  BY UnitsFinite
<1>2. Cardinality(UnitsOf(o, q)) = q /\ V \cap UnitsOf(o, q) = UnitsOf(o, q)
  BY UnitsOfOne
<1>3. /\ IsFiniteSet(V \ UnitsOf(o, q))
      /\ Cardinality(V \ UnitsOf(o, q)) = Cardinality(V) - q
  BY <1>1, <1>2, FS_Difference
<1>4. IsFiniteSet(U) /\ Cardinality(U) <= Cardinality(V \ UnitsOf(o, q))
  BY <1>3, FS_Subset
<1> QED BY <1>1, <1>3, <1>4, FS_CardinalityType

\* Fewer growing orders owe fewer units.
LEMMA GrowingShrinks ==
  ASSUME Growing' \subseteq Growing,
         \A o \in Growing : shape'[o] = shape[o]
  PROVE  /\ Units' \subseteq Units
         /\ Cardinality(Units') \in Nat /\ Cardinality(Units) \in Nat
         /\ Cardinality(Units') <= Cardinality(Units)
<1>1. Units' = {u \in Orders \X (1..MaxQty) : u[1] \in Growing' /\ u[2] <= shape'[u[1]].qty}
  BY DEF Units
<1>2. Units' \subseteq Units
  BY <1>1 DEF Units
<1>3. Units \in SUBSET (Orders \X (1..MaxQty)) /\ Units' \in SUBSET (Orders \X (1..MaxQty))
  BY <1>1 DEF Units
<1> QED BY <1>2, <1>3, UnitsFinite, FewerUnits

\* Of the orders a strategy may keep open, the growing ones owe at most the
\* cap each.
LEMMA OthersReach ==
  ASSUME CapTypeOK, Small, NEW k \in Nat, Cardinality(In("accepted")) <= k
  PROVE  Cardinality(Units) \in Nat /\ Cardinality(Units) <= k * cap
<1>1. cap \in Nat
  BY DEF CapTypeOK
<1>2. In("accepted") \in SUBSET Orders
  BY DEF In
<1>3. IsFiniteSet(In("accepted")) /\ Cardinality(In("accepted")) \in Nat
  BY <1>2, UnitsFinite
<1>4. Units \subseteq In("accepted") \X (1..cap)
  <2> SUFFICES ASSUME NEW u \in Units PROVE u \in In("accepted") \X (1..cap)
    OBVIOUS
  <2>1. PICK o \in Orders, n \in 1..MaxQty : u = <<o, n>>
    BY DEF Units
  <2>2. o \in Growing /\ n <= shape[o].qty
    BY <2>1 DEF Units
  <2>3. o \in In("accepted") /\ shape[o].qty \in Nat /\ shape[o].qty <= cap
    BY <2>2, SentKind DEF Growing, In, Small
  <2> QED BY <2>1, <2>2, <2>3, <1>1
<1>4a. IsFiniteSet(1..cap) /\ Cardinality(1..cap) = cap
  BY <1>1, FS_Interval
<1>4b. /\ IsFiniteSet(In("accepted") \X (1..cap))
       /\ Cardinality(In("accepted") \X (1..cap))
            = Cardinality(In("accepted")) * Cardinality(1..cap)
  BY <1>3, <1>4a, FS_Product
<1>5. /\ IsFiniteSet(In("accepted") \X (1..cap))
      /\ Cardinality(In("accepted") \X (1..cap)) = Cardinality(In("accepted")) * cap
  BY <1>4a, <1>4b
<1>6. /\ Cardinality(Units) \in Nat
      /\ Cardinality(Units) <= Cardinality(In("accepted")) * cap
  BY <1>4, <1>5, FS_Subset, FS_CardinalityType
<1>7. \A a, b, c \in Nat : a <= b => a * c <= b * c
  OBVIOUS
<1> QED BY <1>1, <1>3, <1>6, <1>7

\* What is deployed in one instrument.
LEMMA DeployedIn ==
  ASSUME NEW i, NEW a \in Nat
  PROVE  IsFiniteSet({i} \X (1..a)) /\ Cardinality({i} \X (1..a)) = a
  BY UnitsOfOne DEF UnitsOf

\* The exposure is never negative: it counts what is deployed.
LEMMA CountsPositive ==
  ASSUME Counts PROVE exposure \in Nat
  BY FS_CardinalityType DEF Counts

\* A fill moves the units of one instrument.
LEMMA FillCounts ==
  ASSUME CapTypeOK, Counts, NEW o \in Orders, FillOpen(o)
  PROVE  Counts'
<1> DEFINE i == shape[o].iid
           n == net[i] + Signed(shape[o])
           a == Abs(net[i])
           b == Abs(n)
           Kept == Deployed \ ({i} \X (1..a))
<1>1. /\ i \in Instruments /\ net[i] \in Int /\ Signed(shape[o]) \in Int
  BY SentKind DEF FillOpen, CapTypeOK, Signed
<1>2. a \in Nat /\ b \in Nat /\ n \in Int
  BY <1>1 DEF Abs
<1>3. net' = [net EXCEPT ![i] = n] /\ exposure' = exposure - a + b
  BY DEF FillOpen
<1>4. {i} \X (1..a) \subseteq Deployed
  BY <1>1, <1>2 DEF Deployed
<1>5. Deployed' = {u \in Instruments \X Nat : 1 <= u[2] /\ u[2] <= Abs(net'[u[1]])}
  BY DEF Deployed, Abs
<1>6. net'[i] = n /\ \A j \in Instruments : j # i => net'[j] = net[j]
  BY <1>1, <1>3 DEF CapTypeOK
<1>7. Deployed' = Kept \union ({i} \X (1..b))
  <2> HIDE DEF i, n
  <2>1. ASSUME NEW u \in Instruments \X Nat
        PROVE  u \in Deployed' <=> u \in Kept \union ({i} \X (1..b))
    <3>1. PICK j \in Instruments, m \in Nat : u = <<j, m>>
      OBVIOUS
    <3>2. CASE j = i
      <4>1. u \in Deployed' <=> 1 <= m /\ m <= b
        BY <1>5, <1>6, <3>1, <3>2
      <4>2. u \notin Kept
        BY <1>2, <3>1, <3>2 DEF Deployed
      <4>3. u \in {i} \X (1..b) <=> 1 <= m /\ m <= b
        BY <1>2, <3>1, <3>2
      <4> QED BY <4>1, <4>2, <4>3
    <3>3. CASE j # i
      <4>1. u \in Deployed' <=> u \in Deployed
        BY <1>5, <1>6, <3>1, <3>3 DEF Deployed
      <4>2. u \notin {i} \X (1..a) /\ u \notin {i} \X (1..b)
        BY <3>1, <3>3
      <4> QED BY <4>1, <4>2
    <3> QED BY <3>2, <3>3
  <2>2. Deployed' \subseteq Instruments \X Nat
    BY <1>5
  <2>3. Kept \union ({i} \X (1..b)) \subseteq Instruments \X Nat
    BY <1>1, <1>2 DEF Deployed
  <2> QED BY <2>1, <2>2, <2>3
<1>8. /\ IsFiniteSet({i} \X (1..a)) /\ Cardinality({i} \X (1..a)) = a
      /\ IsFiniteSet({i} \X (1..b)) /\ Cardinality({i} \X (1..b)) = b
  BY <1>2, DeployedIn
<1>9. IsFiniteSet(Kept) /\ Cardinality(Kept) = exposure - a
  <2>1. Deployed \cap ({i} \X (1..a)) = {i} \X (1..a)
    BY <1>4
  <2>2. /\ IsFiniteSet(Kept)
        /\ Cardinality(Kept)
             = Cardinality(Deployed) - Cardinality(Deployed \cap ({i} \X (1..a)))
    BY FS_Difference DEF Counts
  <2> QED BY <1>8, <2>1, <2>2 DEF Counts
<1>10. Kept \cap ({i} \X (1..b)) = {}
  BY <1>2 DEF Deployed
<1>11. /\ IsFiniteSet(Deployed')
       /\ Cardinality(Deployed') = Cardinality(Kept) + Cardinality({i} \X (1..b)) - 0
  BY <1>7, <1>8, <1>9, <1>10, FS_Union, FS_EmptySet
<1>12. exposure \in Int
  BY DEF CapTypeOK
<1> HIDE DEF Kept, a, b, n, i
<1> QED BY <1>2, <1>3, <1>8, <1>9, <1>11, <1>12 DEF Counts

\* Every step keeps the exposure the number of units deployed.
LEMMA NextCounts == CapTypeOK /\ Counts /\ [CapNext]_capVars => Counts'
<1>1. CASE \E o \in Orders : FillOpen(o)
  BY <1>1, FillCounts
<1>2. CASE UNCHANGED <<net, exposure>>
  BY <1>2 DEF Counts, Deployed
<1> QED
  BY <1>1, <1>2 DEF CapNext, capVars, QueueOrder, CheckOrder, CancelOpen

\* A strategy queues no order beyond those it may have open.
LEMMA NextRoom == CapTypeOK /\ Room /\ [CapNext]_capVars => Room'
<1> SUFFICES ASSUME CapTypeOK, Room, [CapNext]_capVars PROVE Room'
  OBVIOUS
<1> DEFINE Live == In("queued") \union In("accepted")
<1>1. Live \in SUBSET Orders
  BY DEF In
<1>2. IsFiniteSet(Live) /\ Cardinality(Live) \in Nat
  BY <1>1, UnitsFinite
<1>3. ASSUME NEW o \in Orders, NEW k \in OrderShapes, QueueOrder(o, k) PROVE Room'
  <2>1. Live' = Live \union {o} /\ o \notin Live
    BY <1>3 DEF QueueOrder, In, CapTypeOK
  <2>2. Cardinality(Live') = Cardinality(Live) + 1
    BY <1>2, <2>1, FS_AddElement
  <2>3. Cardinality(Live) < MaxOpen
    BY <1>3 DEF QueueOrder
  <2> HIDE DEF Live
  <2>4. Cardinality(Live') <= MaxOpen
    BY <1>2, <2>2, <2>3
  <2> QED BY <2>4 DEF Room, Live
<1>4. ASSUME Live' \subseteq Live PROVE Room'
  <2>1. Cardinality(Live') <= Cardinality(Live) /\ Cardinality(Live') \in Nat
    BY <1>2, <1>4, FS_Subset, FS_CardinalityType
  <2>2. Cardinality(Live) <= MaxOpen
    BY DEF Room
  <2> HIDE DEF Live
  <2>3. Cardinality(Live') <= MaxOpen
    BY <1>2, <2>1, <2>2
  <2> QED BY <2>3 DEF Room, Live
<1>5. ASSUME NEW o \in Orders, CheckOrder(o) \/ FillOpen(o) \/ CancelOpen(o)
      PROVE  Live' \subseteq Live
  BY <1>5 DEF CheckOrder, FillOpen, CancelOpen, In, CapTypeOK
<1>6. ASSUME UNCHANGED capVars PROVE Live' \subseteq Live
  BY <1>6 DEF capVars, In
<1> QED BY <1>3, <1>4, <1>5, <1>6 DEF CapNext

Raced == outrun \subseteq {"raced"}

\* The exposure is positive, and units and open orders are finite in number.
LEMMA RaceTypes ==
  ASSUME RaceInv
  PROVE  /\ exposure \in Nat /\ cap \in Nat
         /\ In("accepted") \in SUBSET Orders
         /\ IsFiniteSet(In("accepted")) /\ Cardinality(In("accepted")) \in Nat
         /\ Growing \in SUBSET In("accepted")
         /\ Units \in SUBSET (Orders \X (1..MaxQty))
         /\ Cardinality(Units) \in Nat
<1>1. exposure \in Nat
  BY CountsPositive DEF RaceInv
<1>2. cap \in Nat
  BY DEF RaceInv, CapTypeOK
<1>3. In("accepted") \in SUBSET Orders /\ Growing \in SUBSET In("accepted")
  BY DEF In, Growing
<1>4. Units \in SUBSET (Orders \X (1..MaxQty))
  BY DEF Units
<1> QED BY <1>1, <1>2, <1>3, <1>4, UnitsFinite

\* If neither the exposure nor the growing orders gain, nothing is lost.
LEMMA StillInReach ==
  ASSUME RaceInv, Small, Reach, cap' = cap, Growing' \subseteq Growing,
         \A o \in Growing : shape'[o] = shape[o],
         exposure' \in Int, exposure' <= exposure
  PROVE  Small' /\ Reach'
<1>1. Small'
  BY DEF Small
<1>2. /\ Cardinality(Units') \in Nat /\ Cardinality(Units) \in Nat
      /\ Cardinality(Units') <= Cardinality(Units)
  BY GrowingShrinks
<1>3. exposure \in Nat /\ exposure + Cardinality(Units) <= MaxOpen * cap
  BY RaceTypes DEF Reach
<1>4. MaxOpen * cap \in Nat
  BY RaceTypes
<1>5. PICK m \in Nat : m = MaxOpen * cap
  BY <1>4
<1>6. exposure + Cardinality(Units) <= m
  BY <1>3, <1>5
<1>7. exposure' + Cardinality(Units') <= m
  BY <1>2, <1>3, <1>6
<1> QED BY <1>1, <1>5, <1>7 DEF Reach

\* An order that closes a long position it cannot flip adds nothing.
LEMMA ClosingAccepted ==
  ASSUME RaceInv, NEW o \in Orders, CheckOrder(o), Closing(o), ~Flips(o),
         status' = [status EXCEPT ![o] = "accepted"]
  PROVE  Growing' \subseteq Growing
<1>1. In("accepted")' = In("accepted") \union {o}
  BY DEF In, RaceInv, CapTypeOK
<1>2. shape' = shape /\ net' = net /\ status[o] = "queued"
  BY DEF CheckOrder
<1>3. /\ shape[o].side = "SELL" /\ shape[o].qty <= net[shape[o].iid]
      /\ \A p \in In("accepted") : ~(shape[p].iid = shape[o].iid /\ shape[p].side = "SELL")
  <2>1. shape[o].qty \in Nat /\ net[shape[o].iid] \in Int
    BY <1>2, SentKind DEF RaceInv, CapTypeOK
  <2> QED BY <2>1 DEF Closing, Flips, SellOpen
<1>4. ASSUME NEW p \in In("accepted")', Covered(p) \/ p = o PROVE Covered(p)'
  BY <1>1, <1>2, <1>3, <1>4 DEF Covered
<1> QED BY <1>1, <1>4 DEF Growing

\* Any other order that is accepted is within the cap, and it is the only one
\* that is added to the growing orders.
LEMMA OtherAccepted ==
  ASSUME RaceInv, NEW o \in Orders, CheckOrder(o), ChecksOut(o), ~Closing(o),
         shape[o].priced, status' = [status EXCEPT ![o] = "accepted"]
  PROVE  /\ exposure + shape[o].qty <= cap
         /\ Growing' \subseteq Growing \union {o}
<1>1. In("accepted")' = In("accepted") \union {o}
  BY DEF In, RaceInv, CapTypeOK
<1>2. shape' = shape /\ net' = net /\ status[o] = "queued"
  BY DEF CheckOrder
<1>3. /\ shape[o].qty \in Nat /\ shape[o].qty >= 1
      /\ shape[o].iid \in Instruments /\ net[shape[o].iid] \in Int
  BY <1>2, SentKind DEF RaceInv, CapTypeOK
<1>4. ASSUME NEW p \in In("accepted"), Covered(p), shape[p].iid = shape[o].iid
      PROVE  shape[o].side # "SELL"
  <2>1. shape[p].qty \in Nat /\ shape[p].qty >= 1
    BY SentKind DEF RaceInv, In
  <2>2. net[shape[o].iid] > 0
    BY <1>3, <1>4, <2>1 DEF Covered
  <2> QED BY <2>2 DEF Closing, Long
<1>5. ASSUME NEW p \in In("accepted"), Covered(p) PROVE Covered(p)'
  BY <1>1, <1>2, <1>4, <1>5 DEF Covered
<1>6. Growing' \subseteq Growing \union {o}
  BY <1>1, <1>5 DEF Growing
<1> QED BY <1>6 DEF ChecksOut, Passes, Closing

\* The check of an order keeps racing orders within reach.
LEMMA CheckReach ==
  ASSUME RaceInv, Raced', NEW o \in Orders, CheckOrder(o)
  PROVE  Small' /\ Reach'
<1>1. /\ shape' = shape /\ net' = net /\ cap' = cap /\ exposure' = exposure
      /\ status[o] = "queued"
  BY DEF CheckOrder
<1>2. Raced /\ Small /\ Reach
  BY Verdict DEF Raced, RaceInv
<1> DEFINE Taken == /\ status' = [status EXCEPT ![o] = "accepted"]
                    /\ outrun' = outrun \union WaysPast(o)
<1>3. CASE status' = [status EXCEPT ![o] = "rejected"]
  <2>1. In("accepted")' = In("accepted")
    BY <1>1, <1>3 DEF In, RaceInv, CapTypeOK
  <2>2. Growing' \subseteq Growing
    BY <1>1, <2>1 DEF Growing, Covered
  <2> QED BY <1>1, <1>2, <2>2, RaceTypes, StillInReach
<1>4. CASE Taken /\ Closing(o)
  <2>1. ~Flips(o)
    BY <1>4 DEF WaysPast, Raced
  <2>2. Growing' \subseteq Growing
    BY <1>4, <2>1, ClosingAccepted
  <2> QED BY <1>1, <1>2, <2>2, RaceTypes, StillInReach
<1>5. CASE Taken /\ ~Closing(o)
  <2> DEFINE q == shape[o].qty
  <2>1. shape[o].priced /\ ChecksOut(o)
    BY <1>5 DEF WaysPast, Raced
  <2>2. exposure + q <= cap /\ Growing' \subseteq Growing \union {o}
    BY <1>5, <2>1, OtherAccepted
  <2>3. q \in Nat
    BY <1>1, SentKind DEF RaceInv
  <2>4. q <= cap
    BY <2>2, <2>3, RaceTypes
  <2>5. Small'
    BY <1>1, <1>2, <2>2, <2>4 DEF Small
  <2>6. Units' \subseteq Units \union UnitsOf(o, q)
    <3>1. Units' = {u \in Orders \X (1..MaxQty) : u[1] \in Growing' /\ u[2] <= shape[u[1]].qty}
      BY <1>1 DEF Units
    <3> SUFFICES ASSUME NEW u \in Units' PROVE u \in Units \union UnitsOf(o, q)
      OBVIOUS
    <3>2. PICK p \in Orders, m \in 1..MaxQty : u = <<p, m>>
      BY <3>1
    <3>3. p \in Growing \union {o} /\ m <= shape[p].qty
      BY <2>2, <3>1, <3>2
    <3>4. CASE p \in Growing
      BY <3>2, <3>3, <3>4 DEF Units
    <3>5. CASE p = o
      <4>1. m \in 1..q
        BY <2>3, <3>2, <3>3, <3>5
      <4> QED BY <3>2, <3>5, <4>1 DEF UnitsOf
    <3> QED BY <3>3, <3>4, <3>5
  <2>7. Cardinality(Units') \in Nat /\ Cardinality(Units') <= Cardinality(Units) + q
    BY <2>3, <2>6, RaceTypes, MoreUnits
  <2>8. Cardinality(In("accepted")) <= MaxOpen - 1
    <3>1. In("queued") \union In("accepted") \in SUBSET Orders
      BY DEF In
    <3>2. /\ IsFiniteSet(In("queued") \union In("accepted"))
          /\ Cardinality(In("queued") \union In("accepted")) \in Nat
      BY <3>1, UnitsFinite
    <3>3. In("accepted") \union {o} \subseteq In("queued") \union In("accepted")
      BY <1>1 DEF In
    <3>4. Cardinality(In("accepted") \union {o}) <= MaxOpen
      <4>1. Cardinality(In("accepted") \union {o})
              <= Cardinality(In("queued") \union In("accepted"))
        BY <3>2, <3>3, FS_Subset
      <4>2. Cardinality(In("accepted") \union {o}) \in Nat
        BY <3>2, <3>3, FS_Subset, FS_CardinalityType
      <4>3. Cardinality(In("queued") \union In("accepted")) <= MaxOpen
        BY DEF RaceInv, Room
      <4> QED BY <3>2, <4>1, <4>2, <4>3
    <3>5. o \notin In("accepted")
      BY <1>1 DEF In
    <3>6. IsFiniteSet(In("accepted")) /\ Cardinality(In("accepted")) \in Nat
      BY RaceTypes
    <3>7. Cardinality(In("accepted") \union {o}) = Cardinality(In("accepted")) + 1
      BY <3>5, <3>6, FS_AddElement
    <3> QED BY <3>4, <3>6, <3>7
  <2>9. Cardinality(Units) \in Nat /\ Cardinality(Units) <= (MaxOpen - 1) * cap
    <3>1. MaxOpen - 1 \in Nat
      OBVIOUS
    <3> QED BY <1>2, <2>8, <3>1, OthersReach DEF RaceInv
  <2>10. Reach'
    <3>1. (MaxOpen - 1) * cap = MaxOpen * cap - cap /\ MaxOpen * cap \in Nat
      BY RaceTypes
    <3> DEFINE m == MaxOpen * cap  c == Cardinality(Units)  d == Cardinality(Units')
    <3>2. /\ m \in Nat /\ c \in Nat /\ d \in Nat /\ c <= m - cap /\ d <= c + q
      BY <2>7, <2>9, <3>1
    <3>3. exposure \in Nat /\ cap \in Nat /\ exposure + q <= cap
      BY <2>2, RaceTypes
    <3> HIDE DEF m, c, d, q
    <3>4. exposure + d <= m
      BY <2>3, <3>2, <3>3
    <3> QED BY <1>1, <3>4 DEF Reach, m, d
  <2> QED BY <2>5, <2>10
<1> QED BY <1>3, <1>4, <1>5, Verdict

\* The fill of an order that shrinks a long position leaves the others as they
\* are; the fill of a growing one takes its units off.
LEMMA FillGrowing ==
  ASSUME RaceInv, NEW o \in Orders, FillOpen(o)
  PROVE  Growing' \subseteq Growing \ {o}
<1>1. In("accepted")' = In("accepted") \ {o} /\ o \in In("accepted")
  BY DEF FillOpen, In, RaceInv, CapTypeOK
<1>2. shape' = shape
  BY DEF FillOpen
<1>3. /\ shape[o].qty \in Nat /\ shape[o].side \in {"BUY", "SELL"}
      /\ shape[o].iid \in Instruments
      /\ net \in [Instruments -> Int]
      /\ net' = [net EXCEPT ![shape[o].iid] = net[shape[o].iid] + Signed(shape[o])]
  BY SentKind DEF FillOpen, RaceInv, CapTypeOK
<1>4. ASSUME NEW p \in In("accepted"), p # o, Covered(p) PROVE Covered(p)'
  <2>1. shape[p].iid \in Instruments /\ shape[p].qty \in Nat
    BY SentKind DEF RaceInv, In
  <2>2. shape[p].iid = shape[o].iid => shape[o].side = "BUY"
    BY <1>1, <1>3, <1>4 DEF Covered
  <2>3. net'[shape[p].iid] >= net[shape[p].iid]
    <3>1. CASE shape[p].iid = shape[o].iid
      <4>1. Signed(shape[o]) = shape[o].qty
        BY <2>2, <3>1 DEF Signed
      <4>2. net'[shape[p].iid] = net[shape[p].iid] + shape[o].qty
        BY <1>3, <3>1, <4>1
      <4>3. net[shape[p].iid] \in Int
        BY <1>3, <2>1
      <4> QED BY <1>3, <4>2, <4>3
    <3>2. CASE shape[p].iid # shape[o].iid
      <4>1. net'[shape[p].iid] = net[shape[p].iid]
        BY <1>3, <2>1, <3>2
      <4>2. net[shape[p].iid] \in Int
        BY <1>3, <2>1
      <4> QED BY <4>1, <4>2
    <3> QED BY <3>1, <3>2
  <2>4. net'[shape[p].iid] \in Int /\ net[shape[p].iid] \in Int
    <3>1. Signed(shape[o]) \in Int
      BY <1>3 DEF Signed
    <3> QED BY <1>3, <2>1, <3>1
  <2>5. shape[p].qty <= net[shape[p].iid]
    BY <1>4 DEF Covered
  <2>6. shape[p].qty <= net'[shape[p].iid]
    BY <2>1, <2>3, <2>4, <2>5
  <2> QED BY <1>1, <1>2, <1>4, <2>6 DEF Covered
<1> QED BY <1>1, <1>4 DEF Growing

\* The exposure gains no more than the order that fills, and loses by a SELL
\* that shrinks a long position.
LEMMA FillGain ==
  ASSUME RaceInv, NEW o \in Orders, FillOpen(o)
  PROVE  /\ exposure' \in Int
         /\ exposure' <= exposure + shape[o].qty
         /\ Covered(o) => exposure' <= exposure
<1> DEFINE n == net[shape[o].iid]
           q == shape[o].qty
<1>1. /\ n \in Int /\ q \in Nat /\ exposure \in Int
      /\ shape[o].side \in {"BUY", "SELL"}
  BY SentKind DEF FillOpen, RaceInv, CapTypeOK
<1>2. exposure' = exposure - Abs(n) + Abs(n + Signed(shape[o]))
  BY DEF FillOpen
<1> DEFINE a == Abs(n)  b == Abs(n + q)  c == Abs(n - q)
<1>3. a \in Int /\ b \in Int /\ c \in Int
  BY <1>1 DEF Abs
<1>4. b - a <= q /\ c - a <= q
  BY <1>1, AbsStep
<1>5. /\ shape[o].side = "BUY" => exposure' = exposure - a + b
      /\ shape[o].side = "SELL" => exposure' = exposure - a + c
  BY <1>1, <1>2 DEF Signed
<1>6. Covered(o) => shape[o].side = "SELL" /\ c <= a
  BY <1>1, AbsShrink DEF Covered
<1> HIDE DEF a, b, c, n, q
<1>7. exposure' \in Int /\ exposure' <= exposure + q
  BY <1>1, <1>3, <1>4, <1>5
<1>8. Covered(o) => exposure' <= exposure
  BY <1>1, <1>3, <1>5, <1>6
<1> QED BY <1>7, <1>8 DEF q

\* A fill keeps racing orders within reach.
LEMMA FillReach ==
  ASSUME RaceInv, Small, Reach, NEW o \in Orders, FillOpen(o)
  PROVE  Small' /\ Reach'
<1>1. cap' = cap /\ shape' = shape /\ o \in In("accepted")
  BY DEF FillOpen, In
<1>2. CASE Covered(o)
  <2>1. Growing' \subseteq Growing /\ exposure' \in Int /\ exposure' <= exposure
    BY <1>2, FillGrowing, FillGain
  <2> QED BY <1>1, <2>1, StillInReach
<1>3. CASE ~Covered(o)
  <2> DEFINE q == shape[o].qty
  <2>1. o \in Growing
    BY <1>1, <1>3 DEF Growing
  <2>2. q \in Nat /\ q <= MaxQty
    <3>1. shape[o] \in Shapes
      BY <1>1, SentKind DEF RaceInv, In
    <3> QED BY <3>1 DEF Shapes
  <2>3. UnitsOf(o, q) \subseteq Units
    <3> SUFFICES ASSUME NEW u \in UnitsOf(o, q) PROVE u \in Units
      OBVIOUS
    <3>1. PICK m \in 1..q : u = <<o, m>>
      BY DEF UnitsOf
    <3>2. m \in 1..MaxQty /\ m <= q
      BY <2>2
    <3> QED BY <2>1, <3>1, <3>2 DEF Units
  <2>4. Units' \subseteq Units \ UnitsOf(o, q)
    <3>1. Units' = {u \in Orders \X (1..MaxQty) : u[1] \in Growing' /\ u[2] <= shape[u[1]].qty}
      BY <1>1 DEF Units
    <3>2. Growing' \subseteq Growing /\ o \notin Growing'
      BY FillGrowing
    <3>3. Units' \subseteq Units
      BY <3>1, <3>2 DEF Units
    <3>4. \A u \in UnitsOf(o, q) : u[1] = o
      BY DEF UnitsOf
    <3> QED BY <3>1, <3>2, <3>3, <3>4
  <2>5. Cardinality(Units') \in Nat /\ Cardinality(Units') <= Cardinality(Units) - q
    <3>1. Units \in SUBSET (Orders \X (1..MaxQty))
      BY RaceTypes
    <3> QED BY <2>2, <2>3, <2>4, <3>1, LessUnits
  <2>6. Small'
    BY <1>1, FillGrowing DEF Small
  <2>7. exposure' \in Int /\ exposure' <= exposure + q
    BY FillGain
  <2>8. exposure \in Nat /\ Cardinality(Units) \in Nat /\ MaxOpen * cap \in Nat
    BY RaceTypes
  <2>9. PICK m \in Nat : m = MaxOpen * cap
    BY <2>8
  <2>10. exposure + Cardinality(Units) <= m
    BY <2>9 DEF Reach
  <2>11. exposure' + Cardinality(Units') <= m
    BY <2>2, <2>5, <2>7, <2>8, <2>10
  <2> QED BY <1>1, <2>6, <2>9, <2>11 DEF Reach
<1> QED BY <1>2, <1>3

LEMMA NextRace == RaceInv /\ [CapNext]_capVars => RaceInv'
<1> SUFFICES ASSUME RaceInv, [CapNext]_capVars PROVE RaceInv'
  OBVIOUS
<1>1. CapTypeOK' /\ Room' /\ Counts'
  BY NextType, NextRoom, NextCounts DEF RaceInv
<1> SUFFICES ASSUME Raced' PROVE Small' /\ Reach'
  BY <1>1 DEF RaceInv, Raced
<1>2. Raced => Small /\ Reach
  BY DEF RaceInv, Raced
<1>3. ASSUME NEW o \in Orders, NEW k \in OrderShapes, QueueOrder(o, k)
      PROVE  Small' /\ Reach'
  <2>1. /\ cap' = cap /\ net' = net /\ exposure' = exposure /\ Raced
        /\ status[o] = "unsent"
    BY <1>3 DEF QueueOrder, Raced
  <2>2. In("accepted")' = In("accepted") /\ o \notin In("accepted")
    BY <1>3 DEF QueueOrder, In, RaceInv, CapTypeOK
  <2>3. \A p \in In("accepted") : shape'[p] = shape[p]
    BY <1>3, <2>2 DEF QueueOrder, RaceInv, CapTypeOK, In
  <2>4. \A p \in In("accepted") : Covered(p)' <=> Covered(p)
    BY <2>1, <2>2, <2>3 DEF Covered
  <2>5. Growing' \subseteq Growing /\ \A p \in Growing : shape'[p] = shape[p]
    BY <2>2, <2>3, <2>4 DEF Growing
  <2>6. exposure' \in Int /\ exposure' <= exposure
    BY <2>1, RaceTypes
  <2> QED BY <1>2, <2>1, <2>5, <2>6, StillInReach
<1>4. ASSUME NEW o \in Orders, CheckOrder(o) PROVE Small' /\ Reach'
  BY <1>4, CheckReach
<1>5. ASSUME NEW o \in Orders, FillOpen(o) PROVE Small' /\ Reach'
  <2>1. Raced
    BY <1>5 DEF FillOpen, Raced
  <2> QED BY <1>2, <1>5, <2>1, FillReach
<1>6. ASSUME NEW o \in Orders, CancelOpen(o) PROVE Small' /\ Reach'
  <2>1. /\ cap' = cap /\ net' = net /\ exposure' = exposure /\ shape' = shape
        /\ Raced
    BY <1>6 DEF CancelOpen, Raced
  <2>2. In("accepted")' \subseteq In("accepted")
    BY <1>6 DEF CancelOpen, In, RaceInv, CapTypeOK
  <2>3. Growing' \subseteq Growing
    BY <2>1, <2>2 DEF Growing, Covered
  <2>4. exposure' \in Int /\ exposure' <= exposure
    BY <2>1, RaceTypes
  <2> QED BY <1>2, <2>1, <2>3, <2>4, StillInReach
<1>7. ASSUME UNCHANGED capVars PROVE Small' /\ Reach'
  <2>1. /\ cap' = cap /\ net' = net /\ exposure' = exposure /\ shape' = shape
        /\ Raced
    BY <1>7 DEF capVars, Raced
  <2>2. In("accepted")' = In("accepted")
    BY <1>7 DEF capVars, In
  <2>3. Growing' \subseteq Growing
    BY <2>1, <2>2 DEF Growing, Covered
  <2>4. exposure' \in Int /\ exposure' <= exposure
    BY <2>1, RaceTypes
  <2> QED BY <1>2, <2>1, <2>3, <2>4, StillInReach
<1> QED BY <1>3, <1>4, <1>5, <1>6, <1>7 DEF CapNext

LEMMA InitRace == CapInit => RaceInv
<1> SUFFICES ASSUME CapInit PROVE RaceInv
  OBVIOUS
<1>1. CapTypeOK
  BY InitIInv DEF IInv
<1>2. In("queued") = {} /\ In("accepted") = {}
  BY DEF CapInit, In
<1>3. Cardinality({}) = 0 /\ IsFiniteSet({})
  BY FS_EmptySet
<1>4. Room
  <2>1. In("queued") \union In("accepted") = {}
    BY <1>2
  <2> QED BY <1>3, <2>1 DEF Room
<1>5. Deployed = {}
  BY DEF CapInit, Deployed, Abs
<1>6. Counts
  BY <1>3, <1>5 DEF Counts, CapInit
<1>7. Growing = {} /\ Units = {}
  BY <1>2 DEF Growing, Units
<1>8. Small /\ Reach
  <2>1. cap \in Nat
    BY <1>1 DEF CapTypeOK
  <2>2. MaxOpen * cap \in Nat
    BY <2>1
  <2> QED BY <1>3, <1>7, <2>2 DEF Small, Reach, CapInit
<1> QED BY <1>1, <1>4, <1>6, <1>8 DEF RaceInv

\* The types of the model.
THEOREM CapGateTypeCorrect == CapSpec => []CapTypeOK
<1>1. IInv => CapTypeOK
  BY DEF IInv
<1> QED BY <1>1, Inductive, PTL

\* There are four ways past the cap and no fifth, whatever strategies send and
\* whatever the gate cannot read.
THEOREM NoFifthWay == CapSpec => []CapHoldsUnlessOutrun
<1>1. IInv => CapHoldsUnlessOutrun
  BY DEF IInv
<1> QED BY <1>1, Inductive, PTL

\* However they race each other, orders that a strategy keeps open within
\* MaxOpen, and that flip no long position, never deploy more than MaxOpen
\* times the cap: each of them was within the cap when it passed the gate.
THEOREM RacesBounded == CapSpec => []OvershootBounded
<1>1. CapInit => RaceInv
  BY InitRace
<1>2. RaceInv /\ [CapNext]_capVars => RaceInv'
  BY NextRace
<1>3. RaceInv => OvershootBounded
  <2> SUFFICES ASSUME RaceInv, Raced PROVE exposure <= MaxOpen * cap
    BY DEF OvershootBounded, Raced
  <2>1. Reach
    BY DEF RaceInv, Raced
  <2> DEFINE m == MaxOpen * cap  c == Cardinality(Units)
  <2>2. exposure \in Nat /\ c \in Nat /\ cap \in Nat
    BY RaceTypes
  <2>3. m \in Nat
    BY <2>2
  <2>4. exposure + c <= m
    BY <2>1 DEF Reach
  <2> HIDE DEF m, c
  <2>5. exposure <= m
    BY <2>2, <2>3, <2>4
  <2> QED BY <2>5 DEF m
<1> QED BY <1>1, <1>2, <1>3, PTL DEF CapSpec
=============================================================================
