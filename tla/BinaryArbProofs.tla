-------------------------- MODULE BinaryArbProofs ---------------------------
(***************************************************************************)
(* Proofs about BinaryArb, for any number of pairs, attempts and asks, with *)
(* and without allow_concurrent.                                           *)
(***************************************************************************)
EXTENDS BinaryArb, SequenceTheorems, TLAPS

USE AskAssumption, ArbAssumption
-----------------------------------------------------------------------------
(* The inductive invariant *)

\* Legs exist for the attempts that were sent, and for no others.
SentInv ==
  \A k \in ArbIds, l \in Legs : leg[k][l] = "unsent" <=> k \notin DOMAIN attempts

\* An entry of _active_arbs is an attempt of its pair.
EntryInv ==
  \A p \in Pairs : active[p] # 0 =>
    active[p] \in DOMAIN attempts /\ attempts[active[p]] = p

\* The flags of an attempt that is tracked are the fills of its legs, and
\* flags of an attempt not yet sent are down.
FlagInv ==
  \A k \in ArbIds :
    /\ k \notin DOMAIN attempts => marked[k] = {}
    /\ running /\ Tracked(k) => marked[k] = {l \in Legs : leg[k][l] = "filled"}

\* An attempt leaves _active_arbs for a later one, filled, or cancelled.
LeaveInv ==
  \A k \in DOMAIN attempts :
    running => \/ Tracked(k)
               \/ Superseded(k)
               \/ \A l \in Legs : leg[k][l] = "filled"
               \/ \E l \in Legs : leg[k][l] = "canceled"

\* A tracked attempt is not filled, and a cancelled leg of it has a filled
\* sibling.
HeldInv ==
  \A k \in DOMAIN attempts :
    running /\ Tracked(k) =>
      /\ \E l \in Legs : leg[k][l] # "filled"
      /\ \A l \in Legs : leg[k][l] = "canceled" => leg[k][Other(l)] = "filled"

\* SurvivorExplained, from the submit of the surviving leg on.
SurvivorInv ==
  \A k \in ArbIds, l \in Legs :
    running /\ leg[k][l] \in {"queued", "open"} /\ leg[k][Other(l)] = "canceled" =>
      <<k, l>> \in asked \/ Superseded(k) \/ <<k, l>> \in missed

IInv ==
  /\ TypeOK
  /\ SentInv
  /\ EntryInv
  /\ FlagInv
  /\ LeaveInv
  /\ HeldInv
  /\ SurvivorInv
  /\ OneAttemptAtATime
-----------------------------------------------------------------------------
(* Facts about attempts and legs *)

LEMMA TwoLegs ==
  /\ Other("YES") = "NO" /\ Other("NO") = "YES" /\ Legs = {"YES", "NO"}
  /\ \A l \in Legs : /\ Other(l) \in Legs /\ Other(l) # l
                     /\ \A m \in Legs : m = l \/ m = Other(l)
  BY DEF Other, Legs

\* Attempts are numbered in the order they were sent.
LEMMA Numbered ==
  ASSUME TypeOK
  PROVE  /\ DOMAIN attempts = 1..Len(attempts)
         /\ Len(attempts) \in Nat
         /\ DOMAIN attempts \subseteq ArbIds
         /\ \A k \in DOMAIN attempts : attempts[k] \in Pairs /\ k \in Nat /\ k # 0
<1>1. attempts \in Seq(Pairs) /\ Len(attempts) \in Nat /\ Len(attempts) <= MaxArbs
  BY LenProperties DEF TypeOK
<1>2. DOMAIN attempts = 1..Len(attempts)
  BY <1>1, LenProperties
<1>3. \A k \in DOMAIN attempts : attempts[k] \in Pairs
  BY <1>1, <1>2, ElementOfSeq
<1> QED BY <1>1, <1>2, <1>3 DEF ArbIds

\* A step that sends nothing supersedes nothing.
LEMMA SameAttempts ==
  ASSUME attempts' = attempts
  PROVE  \A k : Superseded(k)' <=> Superseded(k)
  BY DEF Superseded

\* Taking a tracked attempt out of _active_arbs leaves the others tracked.
LEMMA Untrack ==
  ASSUME TypeOK, NEW k \in DOMAIN attempts, Tracked(k), attempts' = attempts,
         active' = [active EXCEPT ![attempts[k]] = 0]
  PROVE  /\ active' \in [Pairs -> 0..MaxArbs]
         /\ \A j \in DOMAIN attempts : Tracked(j)' <=> Tracked(j) /\ j # k
         /\ EntryInv => EntryInv'
<1>1. attempts[k] \in Pairs /\ \A j \in DOMAIN attempts : attempts[j] \in Pairs /\ j # 0
  BY Numbered
<1>2. active \in [Pairs -> 0..MaxArbs]
  BY DEF TypeOK
<1>3. \A p \in Pairs : active'[p] = IF p = attempts[k] THEN 0 ELSE active[p]
  BY <1>1, <1>2
<1>4. active' \in [Pairs -> 0..MaxArbs]
  BY <1>2, <1>1
<1>5. \A j \in DOMAIN attempts : Tracked(j)' <=> Tracked(j) /\ j # k
  BY <1>1, <1>3 DEF Tracked
<1>6. EntryInv => EntryInv'
  BY <1>3 DEF EntryInv
<1> QED BY <1>4, <1>5, <1>6

\* One leg of a sent attempt moves.
LEMMA LegMoves ==
  ASSUME IInv, NEW k \in ArbIds, NEW l \in Legs, NEW s \in Statuses,
         leg[k][l] # "unsent", s # "unsent", attempts' = attempts,
         leg' = [leg EXCEPT ![k][l] = s]
  PROVE  /\ k \in DOMAIN attempts
         /\ leg' \in [ArbIds -> [Legs -> Statuses]]
         /\ \A j \in ArbIds, m \in Legs :
              leg'[j][m] = IF j = k /\ m = l THEN s ELSE leg[j][m]
         /\ SentInv'
<1>1. leg \in [ArbIds -> [Legs -> Statuses]]
  BY DEF IInv, TypeOK
<1>2. \A j \in ArbIds, m \in Legs :
        leg'[j][m] = IF j = k /\ m = l THEN s ELSE leg[j][m]
  BY <1>1
<1>3. leg' \in [ArbIds -> [Legs -> Statuses]]
  BY <1>1
<1>4. SentInv'
  BY <1>2 DEF IInv, SentInv
<1> QED BY <1>2, <1>3, <1>4 DEF IInv, SentInv
-----------------------------------------------------------------------------
(* Every step preserves the invariant *)

LEMMA InitInv == Init => IInv
<1> SUFFICES ASSUME Init PROVE IInv
  OBVIOUS
<1>1. DOMAIN attempts = {} /\ attempts \in Seq(Pairs) /\ Len(attempts) = 0
  BY DEF Init
<1>2. TypeOK
  BY <1>1 DEF Init, TypeOK, Statuses
<1>3. \A k : ~Tracked(k) /\ ~Superseded(k)
  BY <1>1 DEF Tracked, Superseded
<1> QED BY <1>1, <1>2, <1>3, TwoLegs
        DEF Init, IInv, SentInv, EntryInv, FlagInv, LeaveInv, HeldInv,
            SurvivorInv, OneAttemptAtATime

LEMMA FillInv ==
  ASSUME IInv, NEW k \in ArbIds, NEW l \in Legs, Fill(k, l)
  PROVE  IInv'
<1> DEFINE closes == running /\ Tracked(k) /\ marked'[k] = Legs
<1>1. /\ leg[k][l] = "open" /\ attempts' = attempts /\ running' = running
      /\ leg' = [leg EXCEPT ![k][l] = "filled"]
      /\ UNCHANGED <<concurrent, asks, asked, missed>>
  BY DEF Fill
<1>2. /\ k \in DOMAIN attempts
      /\ leg' \in [ArbIds -> [Legs -> Statuses]]
      /\ \A j \in ArbIds, m \in Legs :
           leg'[j][m] = IF j = k /\ m = l THEN "filled" ELSE leg[j][m]
      /\ SentInv'
  BY <1>1, LegMoves DEF Statuses
<1>3. \A j : Superseded(j)' <=> Superseded(j)
  BY <1>1, SameAttempts
<1>4. /\ marked' \in [ArbIds -> SUBSET Legs]
      /\ \A j \in ArbIds : marked'[j] = IF j = k /\ running /\ Tracked(k)
                                          THEN marked[j] \union {l} ELSE marked[j]
  BY DEF Fill, IInv, TypeOK
<1>5. IF closes THEN active' = [active EXCEPT ![attempts[k]] = 0] ELSE active' = active
  BY DEF Fill, OnOrderFilled
<1>6. /\ active' \in [Pairs -> 0..MaxArbs]
      /\ \A j \in DOMAIN attempts :
           Tracked(j)' <=> Tracked(j) /\ (j = k => ~closes)
      /\ EntryInv'
  <2>1. CASE closes
    BY <2>1, <1>1, <1>2, <1>5, Untrack DEF IInv
  <2>2. CASE ~closes
    BY <2>2, <1>1, <1>5 DEF IInv, TypeOK, EntryInv, Tracked
  <2> QED BY <2>1, <2>2
<1>7. TypeOK'
  BY <1>1, <1>2, <1>4, <1>6 DEF IInv, TypeOK
<1>8. FlagInv'
  <2> SUFFICES ASSUME NEW j \in ArbIds
               PROVE  /\ j \notin DOMAIN attempts => marked'[j] = {}
                      /\ running /\ Tracked(j)' =>
                           marked'[j] = {m \in Legs : leg'[j][m] = "filled"}
    BY <1>1 DEF FlagInv
  <2>1. CASE j = k
    BY <2>1, <1>2, <1>4, <1>6 DEF IInv, FlagInv
  <2>2. CASE j # k
    BY <2>2, <1>1, <1>2, <1>4, <1>6 DEF IInv, FlagInv, Tracked
  <2> QED BY <2>1, <2>2
<1>9. closes <=> running /\ Tracked(k) /\ leg[k][Other(l)] = "filled"
  BY <1>1, <1>4, TwoLegs DEF IInv, FlagInv
<1>10. LeaveInv'
  <2> SUFFICES ASSUME NEW j \in DOMAIN attempts, running
               PROVE  \/ Tracked(j)' \/ Superseded(j)'
                      \/ \A m \in Legs : leg'[j][m] = "filled"
                      \/ \E m \in Legs : leg'[j][m] = "canceled"
    BY <1>1 DEF LeaveInv
  <2>1. j \in ArbIds
    BY Numbered DEF IInv
  <2> QED BY <2>1, <1>1, <1>2, <1>3, <1>6, <1>9, TwoLegs DEF IInv, LeaveInv
<1>11. HeldInv'
  <2> SUFFICES ASSUME NEW j \in DOMAIN attempts, running, Tracked(j)'
               PROVE  /\ \E m \in Legs : leg'[j][m] # "filled"
                      /\ \A m \in Legs : leg'[j][m] = "canceled" => leg'[j][Other(m)] = "filled"
    BY <1>1 DEF HeldInv
  <2>1. j \in ArbIds
    BY Numbered DEF IInv
  <2> QED BY <2>1, <1>1, <1>2, <1>6, <1>9, TwoLegs DEF IInv, HeldInv
<1>12. SurvivorInv'
  <2> SUFFICES ASSUME NEW j \in ArbIds, NEW m \in Legs, running,
                      leg'[j][m] \in {"queued", "open"}, leg'[j][Other(m)] = "canceled"
               PROVE  <<j, m>> \in asked \/ Superseded(j)' \/ <<j, m>> \in missed
    BY <1>1 DEF SurvivorInv
  <2>1. leg[j][m] \in {"queued", "open"} /\ leg[j][Other(m)] = "canceled"
    BY <1>2, TwoLegs
  <2> QED BY <2>1, <1>3 DEF IInv, SurvivorInv
<1>13. OneAttemptAtATime'
  <2> SUFFICES ASSUME NEW j \in DOMAIN attempts, NEW m \in Legs, running, ~concurrent,
                      Superseded(j)', leg'[j][m] \notin Ended
               PROVE  leg'[j][Other(m)] = "canceled" /\ <<j, m>> \in asked \union missed
    BY <1>1 DEF OneAttemptAtATime
  <2>1. j \in ArbIds /\ leg[j][m] \notin Ended
    BY <1>2, Numbered DEF IInv, Ended
  <2>2. leg[j][Other(m)] = "canceled" /\ <<j, m>> \in asked \union missed
    BY <2>1, <1>3 DEF IInv, OneAttemptAtATime
  <2> QED BY <2>1, <2>2, <1>1, <1>2, TwoLegs
<1> QED BY <1>2, <1>6, <1>7, <1>8, <1>10, <1>11, <1>12, <1>13 DEF IInv

LEMMA HandleSubmitInv ==
  ASSUME IInv, NEW k \in ArbIds, NEW l \in Legs, NEW v \in {"open", "rejected"},
         HandleSubmit(k, l, v)
  PROVE  IInv'
<1>1. /\ leg[k][l] = "queued" /\ leg' = [leg EXCEPT ![k][l] = v]
      /\ UNCHANGED <<concurrent, running, asks, attempts, active, marked, asked, missed>>
      /\ v \in Statuses /\ v # "unsent"
  BY DEF HandleSubmit, Statuses
<1>2. /\ k \in DOMAIN attempts
      /\ leg' \in [ArbIds -> [Legs -> Statuses]]
      /\ \A j \in ArbIds, m \in Legs :
           leg'[j][m] = IF j = k /\ m = l THEN v ELSE leg[j][m]
      /\ SentInv'
  BY <1>1, LegMoves
<1>3. \A j : (Superseded(j)' <=> Superseded(j)) /\ (Tracked(j)' <=> Tracked(j))
  BY <1>1, SameAttempts DEF Tracked
<1>4. TypeOK' /\ EntryInv'
  BY <1>1, <1>2 DEF IInv, TypeOK, EntryInv
<1>5. FlagInv'
  BY <1>1, <1>2, <1>3 DEF IInv, FlagInv
<1>6. LeaveInv' /\ HeldInv'
  <2> SUFFICES ASSUME NEW j \in DOMAIN attempts, running
               PROVE  /\ \/ Tracked(j) \/ Superseded(j)
                         \/ \A m \in Legs : leg'[j][m] = "filled"
                         \/ \E m \in Legs : leg'[j][m] = "canceled"
                      /\ Tracked(j) =>
                           /\ \E m \in Legs : leg'[j][m] # "filled"
                           /\ \A m \in Legs :
                                leg'[j][m] = "canceled" => leg'[j][Other(m)] = "filled"
    BY <1>1, <1>3 DEF LeaveInv, HeldInv
  <2>1. j \in ArbIds
    BY Numbered DEF IInv
  <2> QED BY <2>1, <1>1, <1>2, TwoLegs DEF IInv, LeaveInv, HeldInv
<1>7. SurvivorInv'
  <2> SUFFICES ASSUME NEW j \in ArbIds, NEW m \in Legs, running,
                      leg'[j][m] \in {"queued", "open"}, leg'[j][Other(m)] = "canceled"
               PROVE  <<j, m>> \in asked \/ Superseded(j) \/ <<j, m>> \in missed
    BY <1>1, <1>3 DEF SurvivorInv
  <2>1. leg[j][m] \in {"queued", "open"} /\ leg[j][Other(m)] = "canceled"
    BY <1>1, <1>2, TwoLegs
  <2> QED BY <2>1 DEF IInv, SurvivorInv
<1>8. OneAttemptAtATime'
  <2> SUFFICES ASSUME NEW j \in DOMAIN attempts, NEW m \in Legs, running, ~concurrent,
                      Superseded(j), leg'[j][m] \notin Ended
               PROVE  leg'[j][Other(m)] = "canceled" /\ <<j, m>> \in asked \union missed
    BY <1>1, <1>3 DEF OneAttemptAtATime
  <2>1. j \in ArbIds /\ leg[j][m] \notin Ended
    BY <1>1, <1>2, Numbered DEF IInv, Ended
  <2>2. leg[j][Other(m)] = "canceled" /\ <<j, m>> \in asked \union missed
    BY <2>1 DEF IInv, OneAttemptAtATime
  <2> QED BY <2>1, <2>2, <1>1, <1>2, TwoLegs
<1> QED BY <1>2, <1>4, <1>5, <1>6, <1>7, <1>8 DEF IInv

LEMMA CancelInv ==
  ASSUME IInv, NEW k \in ArbIds, NEW l \in Legs, Cancel(k, l)
  PROVE  IInv'
<1> DEFINE m == Other(l)
           aborts == running /\ Tracked(k) /\ m \notin marked[k]
<1>1. /\ leg[k][l] = "open" /\ attempts' = attempts /\ running' = running
      /\ leg' = [leg EXCEPT ![k][l] = "canceled"]
      /\ UNCHANGED <<concurrent, asks, marked>>
  BY DEF Cancel
<1>2. /\ k \in DOMAIN attempts
      /\ leg' \in [ArbIds -> [Legs -> Statuses]]
      /\ \A j \in ArbIds, n \in Legs :
           leg'[j][n] = IF j = k /\ n = l THEN "canceled" ELSE leg[j][n]
      /\ SentInv'
  BY <1>1, LegMoves DEF Statuses
<1>3. \A j : Superseded(j)' <=> Superseded(j)
  BY <1>1, SameAttempts
<1>4. /\ asked \subseteq asked' /\ missed \subseteq missed'
      /\ asked' \subseteq ArbIds \X Legs /\ missed' \subseteq ArbIds \X Legs
      /\ active' \in [Pairs -> 0..MaxArbs]
      /\ \A j \in DOMAIN attempts :
           Tracked(j)' <=> Tracked(j) /\ (j = k => ~aborts)
      /\ EntryInv'
      /\ aborts /\ leg[k][m] \in {"queued", "open"} =>
           <<k, m>> \in asked' \union missed'
  <2>1. CASE aborts
    <3>1. /\ active' = [active EXCEPT ![attempts[k]] = 0]
          /\ asked'  = IF leg[k][m] = "open" THEN asked \union {<<k, m>>} ELSE asked
          /\ missed' = IF leg[k][m] = "queued" THEN missed \union {<<k, m>>} ELSE missed
      BY <2>1 DEF Cancel, OnOrderCanceled, Abort
    <3>2. /\ asked \subseteq asked' /\ missed \subseteq missed'
          /\ asked' \subseteq ArbIds \X Legs /\ missed' \subseteq ArbIds \X Legs
      BY <3>1, TwoLegs DEF IInv, TypeOK
    <3>3. /\ active' \in [Pairs -> 0..MaxArbs]
          /\ \A j \in DOMAIN attempts : Tracked(j)' <=> Tracked(j) /\ j # k
          /\ EntryInv'
      BY <1>1, <1>2, <2>1, <3>1, Untrack DEF IInv
    <3> QED BY <2>1, <3>1, <3>2, <3>3
  <2>2. CASE ~aborts
    <3>1. UNCHANGED <<active, asked, missed>>
      BY <2>2 DEF Cancel, OnOrderCanceled
    <3> QED BY <2>2, <3>1, <1>1 DEF IInv, TypeOK, EntryInv, Tracked
  <2> QED BY <2>1, <2>2
<1>5. TypeOK'
  BY <1>1, <1>2, <1>4 DEF IInv, TypeOK
<1>6. FlagInv'
  <2> SUFFICES ASSUME NEW j \in ArbIds
               PROVE  /\ j \notin DOMAIN attempts => marked[j] = {}
                      /\ running /\ Tracked(j)' =>
                           marked[j] = {n \in Legs : leg'[j][n] = "filled"}
    BY <1>1 DEF FlagInv
  <2>1. \A n \in Legs : leg'[j][n] = "filled" <=> leg[j][n] = "filled"
    BY <1>1, <1>2
  <2>2. Tracked(j)' => Tracked(j)
    BY <1>1, <1>4 DEF Tracked
  <2> QED BY <2>1, <2>2 DEF IInv, FlagInv
\* The attempt is kept only if the other leg is filled.
<1>7. running /\ Tracked(k) => (aborts <=> leg[k][m] # "filled")
  BY <1>1, TwoLegs DEF IInv, FlagInv
<1>8. LeaveInv'
  <2> SUFFICES ASSUME NEW j \in DOMAIN attempts, running
               PROVE  \/ Tracked(j)' \/ Superseded(j)
                      \/ \A n \in Legs : leg'[j][n] = "filled"
                      \/ \E n \in Legs : leg'[j][n] = "canceled"
    BY <1>1, <1>3 DEF LeaveInv
  <2>1. j \in ArbIds
    BY Numbered DEF IInv
  <2> QED BY <2>1, <1>1, <1>2, <1>4, TwoLegs DEF IInv, LeaveInv
<1>9. HeldInv'
  <2> SUFFICES ASSUME NEW j \in DOMAIN attempts, running, Tracked(j)'
               PROVE  /\ \E n \in Legs : leg'[j][n] # "filled"
                      /\ \A n \in Legs : leg'[j][n] = "canceled" => leg'[j][Other(n)] = "filled"
    BY <1>1 DEF HeldInv
  <2>1. j \in ArbIds
    BY Numbered DEF IInv
  <2> QED BY <2>1, <1>1, <1>2, <1>4, <1>7, TwoLegs DEF IInv, HeldInv
<1>10. SurvivorInv'
  <2> SUFFICES ASSUME NEW j \in ArbIds, NEW n \in Legs, running,
                      leg'[j][n] \in {"queued", "open"}, leg'[j][Other(n)] = "canceled"
               PROVE  <<j, n>> \in asked' \/ Superseded(j) \/ <<j, n>> \in missed'
    BY <1>1, <1>3 DEF SurvivorInv
  <2>1. leg[j][n] \in {"queued", "open"}
    BY <1>1, <1>2
  <2>2. CASE leg[j][Other(n)] = "canceled"
    BY <2>1, <2>2, <1>4 DEF IInv, SurvivorInv
  <2>3. CASE j = k /\ n = m
    <3>1. \/ Tracked(k) \/ Superseded(k)
      BY <2>1, <2>3, <1>1, <1>2, TwoLegs DEF IInv, LeaveInv
    <3> QED BY <3>1, <2>1, <2>3, <1>4, <1>7
  <2> QED BY <2>2, <2>3, <1>2, TwoLegs
<1>11. OneAttemptAtATime'
  <2> SUFFICES ASSUME NEW j \in DOMAIN attempts, NEW n \in Legs, running, ~concurrent,
                      Superseded(j), leg'[j][n] \notin Ended
               PROVE  leg'[j][Other(n)] = "canceled" /\ <<j, n>> \in asked' \union missed'
    BY <1>1, <1>3 DEF OneAttemptAtATime
  <2>1. j \in ArbIds /\ leg[j][n] \notin Ended
    BY <1>1, <1>2, Numbered DEF IInv, Ended
  <2>2. leg[j][Other(n)] = "canceled" /\ <<j, n>> \in asked \union missed
    BY <2>1 DEF IInv, OneAttemptAtATime
  <2> QED BY <2>1, <2>2, <1>1, <1>2, <1>4, TwoLegs
<1> QED BY <1>2, <1>4, <1>5, <1>6, <1>8, <1>9, <1>10, <1>11 DEF IInv

LEMMA StopResetInv ==
  ASSUME IInv, OnStop \/ OnReset
  PROVE  IInv'
<1>1. ~running' /\ UNCHANGED <<concurrent, attempts, marked, leg, missed>>
  BY DEF OnStop, OnReset
<1>2. /\ active' \in [Pairs -> 0..MaxArbs] /\ EntryInv'
      /\ asks' \in [Pairs -> [Legs -> 0..MaxAsk]]
      /\ asked' \subseteq ArbIds \X Legs
  <2>1. CASE OnStop
    BY <2>1 DEF OnStop, IInv, TypeOK, EntryInv
  <2>2. CASE OnReset
    BY <2>2 DEF OnReset, IInv, TypeOK, EntryInv
  <2> QED BY <2>1, <2>2
<1>3. TypeOK'
  <2>1. running' \in BOOLEAN
    BY DEF OnStop, OnReset, IInv, TypeOK
  <2> QED BY <1>1, <1>2, <2>1 DEF IInv, TypeOK
<1> QED BY <1>1, <1>2, <1>3
        DEF IInv, SentInv, FlagInv, LeaveInv, HeldInv, SurvivorInv, OneAttemptAtATime

LEMMA ExecuteInv ==
  ASSUME IInv, NEW p \in Pairs, running, MayTry(p), Execute(p),
         NEW k, k = Len(attempts) + 1,
         asks' \in [Pairs -> [Legs -> 0..MaxAsk]],
         UNCHANGED <<concurrent, running, marked, asked, missed>>
  PROVE  IInv'
<1>1. /\ k \in ArbIds /\ k \notin DOMAIN attempts
      /\ DOMAIN attempts' = DOMAIN attempts \union {k}
      /\ attempts' \in Seq(Pairs) /\ Len(attempts') <= MaxArbs
      /\ attempts'[k] = p
      /\ \A j \in DOMAIN attempts : attempts'[j] = attempts[j] /\ j < k
  <2>1. /\ attempts \in Seq(Pairs) /\ attempts' = Append(attempts, p)
        /\ DOMAIN attempts = 1..Len(attempts) /\ Len(attempts) \in Nat
        /\ k \in 1..MaxArbs
    BY Numbered DEF IInv, TypeOK, Execute, ArbIds
  <2>2. attempts' \in Seq(Pairs) /\ Len(attempts') = k /\ attempts'[k] = p
        /\ \A j \in 1..Len(attempts) : attempts'[j] = attempts[j]
    BY <2>1, AppendProperties
  <2>3. DOMAIN attempts' = 1..Len(attempts')
    BY <2>2, LenProperties
  <2> QED BY <2>1, <2>2, <2>3 DEF ArbIds
<1>2. /\ active' \in [Pairs -> 0..MaxArbs]
      /\ \A q \in Pairs : active'[q] = IF q = p THEN k ELSE active[q]
  BY <1>1 DEF IInv, TypeOK, Execute, ArbIds
<1>3. /\ leg' \in [ArbIds -> [Legs -> Statuses]]
      /\ \A j \in ArbIds, l \in Legs :
           leg'[j][l] = IF j = k THEN "queued" ELSE leg[j][l]
  BY <1>1 DEF IInv, TypeOK, Execute, Statuses
<1>4. \A j \in DOMAIN attempts : /\ j \in ArbIds /\ j \in Nat /\ j # k
                               /\ attempts[j] \in Pairs
  BY <1>1, Numbered DEF IInv
<1>5. /\ Tracked(k)' /\ ~Superseded(k)'
      /\ \A j \in DOMAIN attempts :
           /\ Tracked(j)' <=> Tracked(j) /\ attempts[j] # p
           /\ Superseded(j)' <=> Superseded(j) \/ attempts[j] = p
  <2>1. Tracked(k)'
    BY <1>1, <1>2 DEF Tracked
  <2>2. ~Superseded(k)'
    BY <1>1, <1>4 DEF Superseded, ArbIds
  <2>3. \A j \in DOMAIN attempts : Tracked(j)' <=> Tracked(j) /\ attempts[j] # p
    BY <1>1, <1>2, <1>4 DEF Tracked
  <2>4. \A j \in DOMAIN attempts : Superseded(j)' <=> Superseded(j) \/ attempts[j] = p
    BY <1>1, <1>4 DEF Superseded
  <2> QED BY <2>1, <2>2, <2>3, <2>4
<1>6. TypeOK' /\ SentInv' /\ EntryInv'
  <2>1. TypeOK'
    BY <1>1, <1>2, <1>3 DEF IInv, TypeOK
  <2>2. SentInv'
    <3> SUFFICES ASSUME NEW j \in ArbIds, NEW l \in Legs
                 PROVE  leg'[j][l] = "unsent" <=> j \notin DOMAIN attempts'
      BY DEF SentInv
    <3>1. leg[j][l] = "unsent" <=> j \notin DOMAIN attempts
      BY DEF IInv, SentInv
    <3> QED BY <3>1, <1>1, <1>3
  <2>3. EntryInv'
    BY <1>1, <1>2 DEF IInv, EntryInv
  <2> QED BY <2>1, <2>2, <2>3
<1>7. FlagInv'
  <2> SUFFICES ASSUME NEW j \in ArbIds
               PROVE  /\ j \notin DOMAIN attempts' => marked[j] = {}
                      /\ running /\ Tracked(j)' =>
                           marked[j] = {l \in Legs : leg'[j][l] = "filled"}
    BY DEF FlagInv
  <2>1. CASE j = k
    <3>1. marked[k] = {} /\ k \in DOMAIN attempts'
      BY <1>1 DEF IInv, FlagInv
    <3>2. \A l \in Legs : leg'[j][l] # "filled"
      BY <2>1, <1>3
    <3> QED BY <2>1, <3>1, <3>2
  <2>2. CASE j \in DOMAIN attempts
    <3>1. j # k /\ (Tracked(j)' => Tracked(j)) /\ j \in DOMAIN attempts'
      BY <2>2, <1>1, <1>4, <1>5
    <3>2. {l \in Legs : leg'[j][l] = "filled"} = {l \in Legs : leg[j][l] = "filled"}
      BY <1>3, <3>1
    <3>3. running /\ Tracked(j) => marked[j] = {l \in Legs : leg[j][l] = "filled"}
      BY DEF IInv, FlagInv
    <3> QED BY <3>1, <3>2, <3>3
  <2>3. CASE j \notin DOMAIN attempts'
    BY <2>3, <1>1 DEF IInv, FlagInv, Tracked
  <2> QED BY <2>1, <2>2, <2>3, <1>1
<1>8. LeaveInv' /\ HeldInv'
  <2> SUFFICES ASSUME NEW j \in DOMAIN attempts'
               PROVE  /\ \/ Tracked(j)' \/ Superseded(j)'
                         \/ \A l \in Legs : leg'[j][l] = "filled"
                         \/ \E l \in Legs : leg'[j][l] = "canceled"
                      /\ Tracked(j)' =>
                           /\ \E l \in Legs : leg'[j][l] # "filled"
                           /\ \A l \in Legs :
                                leg'[j][l] = "canceled" => leg'[j][Other(l)] = "filled"
    BY DEF LeaveInv, HeldInv
  <2>1. CASE j = k
    BY <2>1, <1>1, <1>3, <1>5, TwoLegs
  <2>2. CASE j \in DOMAIN attempts
    <3>1. \A l \in Legs : leg'[j][l] = leg[j][l]
      BY <2>2, <1>3, <1>4
    <3>2. /\ Tracked(j)' => Tracked(j)
          /\ Tracked(j) \/ Superseded(j) => Tracked(j)' \/ Superseded(j)'
      BY <2>2, <1>5
    <3> QED BY <2>2, <3>1, <3>2, TwoLegs DEF IInv, LeaveInv, HeldInv
  <2> QED BY <2>1, <2>2, <1>1
<1>9. SurvivorInv'
  <2> SUFFICES ASSUME NEW j \in ArbIds, NEW l \in Legs,
                      leg'[j][l] \in {"queued", "open"}, leg'[j][Other(l)] = "canceled"
               PROVE  <<j, l>> \in asked \/ Superseded(j)' \/ <<j, l>> \in missed
    BY DEF SurvivorInv
  <2>1. j # k /\ leg[j][l] \in {"queued", "open"} /\ leg[j][Other(l)] = "canceled"
    BY <1>3, TwoLegs
  <2>2. j \in DOMAIN attempts
    BY <2>1 DEF IInv, SentInv
  <2> QED BY <2>1, <2>2, <1>5 DEF IInv, SurvivorInv
\* Without allow_concurrent the pair had no entry: its last attempt had left.
<1>10. OneAttemptAtATime'
  <2> SUFFICES ASSUME NEW j \in DOMAIN attempts', NEW l \in Legs, ~concurrent,
                      Superseded(j)', leg'[j][l] \notin Ended
               PROVE  leg'[j][Other(l)] = "canceled" /\ <<j, l>> \in asked \union missed
    BY DEF OneAttemptAtATime
  <2>1. j \in DOMAIN attempts /\ j # k /\ j \in ArbIds
    BY <1>1, <1>4, <1>5
  <2>2. leg[j][l] \notin Ended /\ leg'[j][Other(l)] = leg[j][Other(l)]
    BY <2>1, <1>3, TwoLegs
  <2>3. CASE Superseded(j)
    BY <2>1, <2>2, <2>3 DEF IInv, OneAttemptAtATime
  <2>4. CASE ~Superseded(j)
    <3>1. attempts[j] = p /\ active[p] = 0
      BY <2>1, <2>4, <1>5 DEF MayTry
    <3>2. ~Tracked(j)
      BY <3>1, <2>1, Numbered DEF Tracked, IInv
    <3>3. leg[j][Other(l)] = "canceled"
      BY <3>2, <2>1, <2>2, <2>4, TwoLegs DEF IInv, LeaveInv, Ended
    <3>4. leg[j][l] \in {"queued", "open"}
      BY <2>1, <2>2 DEF IInv, TypeOK, SentInv, Statuses, Ended
    <3> QED BY <3>3, <3>4, <2>1, <2>2, <2>4 DEF IInv, SurvivorInv
  <2> QED BY <2>3, <2>4
<1> QED BY <1>6, <1>7, <1>8, <1>9, <1>10 DEF IInv

LEMMA DataInv ==
  ASSUME IInv, NEW p \in Pairs, NEW l \in Legs, NEW ask \in 1..MaxAsk,
         OnOrderBookDeltas(p, l, ask)
  PROVE  IInv'
<1>1. /\ running
      /\ UNCHANGED <<concurrent, running, marked, asked, missed>>
      /\ asks' = [asks EXCEPT ![p] = [asks[p] EXCEPT ![l] = ask]]
      /\ (MayTry(p) /\ Execute(p)) \/ UNCHANGED <<attempts, active, leg>>
  BY DEF OnOrderBookDeltas
<1>2. asks' \in [Pairs -> [Legs -> 0..MaxAsk]]
  BY <1>1 DEF IInv, TypeOK
<1>3. CASE MayTry(p) /\ Execute(p)
  <2>1. PICK k \in ArbIds : k = Len(attempts) + 1
    BY <1>3 DEF Execute
  <2> QED BY <2>1, <1>1, <1>2, <1>3, ExecuteInv
<1>4. CASE UNCHANGED <<attempts, active, leg>>
  <2>1. TypeOK'
    BY <1>1, <1>2, <1>4 DEF IInv, TypeOK
  <2> QED
    BY <2>1, <1>1, <1>4
    DEF IInv, SentInv, EntryInv, FlagInv, LeaveInv, HeldInv, SurvivorInv,
        OneAttemptAtATime, Tracked, Superseded
<1> QED BY <1>1, <1>3, <1>4

LEMMA NextInv == IInv /\ [Next]_vars => IInv'
<1> SUFFICES ASSUME IInv, [Next]_vars PROVE IInv'
  OBVIOUS
<1>1. ASSUME NEW p \in Pairs, NEW l \in Legs, NEW ask \in 1..MaxAsk,
             OnOrderBookDeltas(p, l, ask)
      PROVE  IInv'
  BY <1>1, DataInv
<1>2. ASSUME NEW k \in ArbIds, NEW l \in Legs, NEW v \in {"open", "rejected"},
             HandleSubmit(k, l, v)
      PROVE  IInv'
  BY <1>2, HandleSubmitInv
<1>3. ASSUME NEW k \in ArbIds, NEW l \in Legs, Fill(k, l) PROVE IInv'
  BY <1>3, FillInv
<1>4. ASSUME NEW k \in ArbIds, NEW l \in Legs, Cancel(k, l) PROVE IInv'
  BY <1>4, CancelInv
<1>5. CASE OnStop \/ OnReset
  BY <1>5, StopResetInv
<1>6. CASE UNCHANGED vars
  BY <1>6 DEF vars, IInv, TypeOK, SentInv, EntryInv, FlagInv, LeaveInv, HeldInv,
              SurvivorInv, OneAttemptAtATime, Tracked, Superseded
<1> QED BY <1>1, <1>2, <1>3, <1>4, <1>5, <1>6 DEF Next

LEMMA Inductive == Spec => []IInv
  BY InitInv, NextInv, PTL DEF Spec
-----------------------------------------------------------------------------
(* Theorems *)

\* Every state of the strategy and of its legs has its type.
THEOREM ArbTypeCorrect == Spec => []TypeOK
  BY Inductive, PTL DEF IInv

\* A leg left working beside a cancelled one is cancelled, unless a later
\* attempt replaced its own or the abort came before the leg was open.
THEOREM NoThirdWay == Spec => []SurvivorExplained
<1>1. IInv => SurvivorExplained
  BY DEF IInv, SurvivorInv, SurvivorExplained
<1> QED BY <1>1, Inductive, PTL

\* An attempt that is over and still in _active_arbs has one leg filled and
\* the other not, or both rejected.
THEOREM OnlyNakedStuck == Spec => []StuckIsNaked
<1>1. IInv => StuckIsNaked
  <2> SUFFICES ASSUME IInv, NEW k \in DOMAIN attempts, running, Tracked(k),
                      \A l \in Legs : leg[k][l] \in Ended
               PROVE  \/ \E l \in Legs : leg[k][l] = "filled" /\ leg[k][Other(l)] # "filled"
                      \/ \A l \in Legs : leg[k][l] = "rejected"
    BY DEF StuckIsNaked
  <2> QED BY TwoLegs DEF IInv, HeldInv, Ended
<1> QED BY <1>1, Inductive, PTL

\* Without allow_concurrent no pair has two attempts working, but for a leg
\* the abort of the earlier one cancelled or passed over.
THEOREM SerialAttempts == Spec => []OneAttemptAtATime
  BY Inductive, PTL DEF IInv
=============================================================================
