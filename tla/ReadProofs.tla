----------------------------- MODULE ReadProofs ------------------------------
(***************************************************************************)
(* Theorems about what is read in pieces while it changes, for any number  *)
(* of rows, messages and clicks: the list that is paged through, the stream*)
(* that is scanned from both ends, and the statistics of a link.           *)
(*                                                                         *)
(* They rest on facts about counting that hold of every finite set: the    *)
(* first n in an order, and the sum over a set of counts, which is a fold. *)
(* Both need an induction; it is made by a smallest counterexample.        *)
(***************************************************************************)
EXTENDS DeadLetterScan, Paging, LinkStats, FiniteSetTheorems, WellFoundedInduction, TLAPS

-----------------------------------------------------------------------------
(* The first n of a finite set in an order: what LIMIT and COUNT return.    *)

\* R is a strict total order of S.
Orders(R, S) ==
  /\ \A x \in S : <<x, x>> \notin R
  /\ \A x, y, z \in S : <<x, y>> \in R /\ <<y, z>> \in R => <<x, z>> \in R
  /\ \A x, y \in S : x = y \/ <<x, y>> \in R \/ <<y, x>> \in R

Ahead(R, S, x) == {y \in S : <<y, x>> \in R}
FirstIn(R, S, n) == {x \in S : Cardinality(Ahead(R, S, x)) < n}
Reversed(R, S) == {p \in S \X S : <<p[2], p[1]>> \in R}

LEMMA ReversedOrders ==
  ASSUME NEW R, NEW S, Orders(R, S)
  PROVE  Orders(Reversed(R, S), S)
BY DEF Orders, Reversed

\* Whoever comes later has more elements ahead.
LEMMA AheadGrows ==
  ASSUME NEW R, NEW S, Orders(R, S), IsFiniteSet(S), NEW x \in S, NEW y \in S, <<x, y>> \in R
  PROVE  /\ Cardinality(Ahead(R, S, x)) \in Nat /\ Cardinality(Ahead(R, S, y)) \in Nat
         /\ Cardinality(Ahead(R, S, x)) < Cardinality(Ahead(R, S, y))
         /\ Ahead(R, S, x) \subseteq Ahead(R, S, y)
<1>1. Ahead(R, S, x) \subseteq Ahead(R, S, y) /\ x \in Ahead(R, S, y) /\ x \notin Ahead(R, S, x)
  BY DEF Orders, Ahead
<1>2. IsFiniteSet(Ahead(R, S, y))
  BY FS_Subset DEF Ahead
<1>3. /\ IsFiniteSet(Ahead(R, S, x)) /\ Cardinality(Ahead(R, S, x)) <= Cardinality(Ahead(R, S, y))
      /\ Cardinality(Ahead(R, S, y)) = Cardinality(Ahead(R, S, x)) => Ahead(R, S, y) = Ahead(R, S, x)
  BY <1>1, <1>2, FS_Subset
<1>4. Cardinality(Ahead(R, S, x)) \in Nat /\ Cardinality(Ahead(R, S, y)) \in Nat
  BY <1>2, <1>3, FS_CardinalityType
<1> QED
  BY <1>1, <1>3, <1>4

LEMMA AheadIsFinite ==
  ASSUME NEW R, NEW S, IsFiniteSet(S), NEW x
  PROVE  IsFiniteSet(Ahead(R, S, x)) /\ Cardinality(Ahead(R, S, x)) \in Nat
BY FS_Subset, FS_CardinalityType DEF Ahead

\* An inhabited subset has a first element.
LEMMA FirstExists ==
  ASSUME NEW R, NEW S, Orders(R, S), IsFiniteSet(S), NEW T, T \subseteq S, T # {}
  PROVE  \E x \in T : \A y \in T : y = x \/ <<x, y>> \in R
<1> DEFINE U == {Ahead(R, S, x) : x \in T}
<1>1. U \subseteq FiniteSubsetsOf(S) /\ U # {}
  <2>1. ASSUME NEW x \in T PROVE Ahead(R, S, x) \in SUBSET S /\ IsFiniteSet(Ahead(R, S, x))
    BY AheadIsFinite DEF Ahead
  <2> QED
    BY <2>1 DEF FiniteSubsetsOf
<1>2. PICK m \in U : \A y \in U : <<y, m>> \notin StrictSubsetOrdering(S)
  <2> HIDE DEF U
  <2> QED
    BY <1>1, FS_StrictSubsetOrderingWellFounded, WFMin
<1>3. PICK x \in T : m = Ahead(R, S, x)
  OBVIOUS
<1>4. ASSUME NEW y \in T, <<y, x>> \in R PROVE FALSE
  <2>1. Ahead(R, S, y) \subseteq Ahead(R, S, x) /\ y \in Ahead(R, S, x) /\ y \notin Ahead(R, S, y)
    BY <1>4 DEF Orders, Ahead
  <2>2. <<Ahead(R, S, y), Ahead(R, S, x)>> \in StrictSubsetOrdering(S)
    BY <2>1 DEF StrictSubsetOrdering, Ahead
  <2>3. Ahead(R, S, y) \in U
    OBVIOUS
  <2> QED
    BY <1>2, <1>3, <2>2, <2>3
<1> QED
  BY <1>4 DEF Orders

\* ... and a last one.
LEMMA LastExists ==
  ASSUME NEW R, NEW S, Orders(R, S), IsFiniteSet(S), NEW T, T \subseteq S, T # {}
  PROVE  \E x \in T : \A y \in T : y = x \/ <<y, x>> \in R
<1>1. Orders(Reversed(R, S), S)
  BY ReversedOrders
<1>2. PICK x \in T : \A y \in T : y = x \/ <<x, y>> \in Reversed(R, S)
  BY <1>1, FirstExists
<1> QED
  BY <1>2 DEF Reversed

\* The first n are at most n ...
LEMMA FirstAreFew ==
  ASSUME NEW R, NEW S, Orders(R, S), IsFiniteSet(S), NEW n \in Nat
  PROVE  /\ IsFiniteSet(FirstIn(R, S, n)) /\ Cardinality(FirstIn(R, S, n)) \in Nat
         /\ Cardinality(FirstIn(R, S, n)) <= n
<1> DEFINE F == FirstIn(R, S, n)
           f == [x \in F |-> Cardinality(Ahead(R, S, x))]
<1>1. F \subseteq S /\ \A x \in F : f[x] \in 0..(n - 1)
  BY AheadIsFinite DEF FirstIn
<1>2. ASSUME NEW x \in F, NEW y \in F, f[x] = f[y] PROVE x = y
  <2>1. x \in S /\ y \in S /\ Cardinality(Ahead(R, S, x)) = Cardinality(Ahead(R, S, y))
    BY <1>1, <1>2
  <2>2. <<x, y>> \notin R /\ <<y, x>> \notin R
    BY <2>1, AheadGrows
  <2> QED
    BY <2>1, <2>2 DEF Orders
<1>3. f \in Injection(F, 0..(n - 1))
  BY <1>1, <1>2 DEF Injection, IsInjective
<1>4. IsFiniteSet(0..(n - 1)) /\ Cardinality(0..(n - 1)) = n
  <2>1. 0 \in Int /\ n - 1 \in Int /\ (0 > n - 1 <=> n = 0)
    OBVIOUS
  <2>2. IsFiniteSet(0..(n - 1)) /\ Cardinality(0..(n - 1)) = IF 0 > n - 1 THEN 0 ELSE (n - 1) - 0 + 1
    BY <2>1, FS_Interval
  <2> QED
    BY <2>1, <2>2
<1>5. IsFiniteSet(F) /\ Cardinality(F) <= n
  <2> HIDE DEF F, f
  <2> QED
    BY <1>3, <1>4, FS_Injection
<1> QED
  BY <1>5, FS_CardinalityType

\* ... ahead of all others ...
LEMMA FirstComeFirst ==
  ASSUME NEW R, NEW S, Orders(R, S), IsFiniteSet(S), NEW n \in Nat,
         NEW x \in FirstIn(R, S, n), NEW y \in S \ FirstIn(R, S, n)
  PROVE  <<x, y>> \in R
<1>1. x \in S /\ x # y /\ Cardinality(Ahead(R, S, x)) < n /\ ~(Cardinality(Ahead(R, S, y)) < n)
  BY DEF FirstIn
<1>2. ASSUME <<y, x>> \in R PROVE FALSE
  BY <1>1, <1>2, AheadGrows
<1> QED
  BY <1>1, <1>2 DEF Orders

\* ... all of them if they are fewer than n ...
LEMMA FewAreAll ==
  ASSUME NEW R, NEW S, Orders(R, S), IsFiniteSet(S), NEW n \in Nat,
         Cardinality(FirstIn(R, S, n)) < n
  PROVE  FirstIn(R, S, n) = S
<1> DEFINE F == FirstIn(R, S, n)
           rest == S \ F
<1>1. SUFFICES ASSUME rest # {} PROVE FALSE
  BY DEF FirstIn
<1>2. PICK x \in rest : \A y \in rest : y = x \/ <<x, y>> \in R
  <2> HIDE DEF F
  <2> QED
    BY <1>1, FirstExists
<1>3. Ahead(R, S, x) \subseteq F
  BY <1>2 DEF Ahead, Orders
<1>4. IsFiniteSet(F) /\ Cardinality(F) \in Nat /\ Cardinality(Ahead(R, S, x)) \in Nat
  BY FirstAreFew, AheadIsFinite
<1>5. Cardinality(Ahead(R, S, x)) <= Cardinality(F)
  <2> HIDE DEF F
  <2> QED
    BY <1>3, <1>4, FS_Subset
<1> QED
  BY <1>2, <1>4, <1>5 DEF FirstIn

\* ... and all of a set that has no more than n.
LEMMA SmallIsAll ==
  ASSUME NEW R, NEW S, Orders(R, S), IsFiniteSet(S), NEW n \in Nat, Cardinality(S) <= n
  PROVE  FirstIn(R, S, n) = S
<1>1. ASSUME NEW x \in S PROVE Cardinality(Ahead(R, S, x)) < n
  <2>1. Ahead(R, S, x) \subseteq S /\ x \in S /\ x \notin Ahead(R, S, x)
    BY DEF Ahead, Orders
  <2>2. /\ Cardinality(Ahead(R, S, x)) <= Cardinality(S)
        /\ Cardinality(S) = Cardinality(Ahead(R, S, x)) => S = Ahead(R, S, x)
    BY <2>1, FS_Subset
  <2>3. Cardinality(Ahead(R, S, x)) \in Nat /\ Cardinality(S) \in Nat
    BY AheadIsFinite, FS_CardinalityType
  <2> QED
    BY <2>1, <2>2, <2>3
<1> QED
  BY <1>1 DEF FirstIn

\* Something is first.
LEMMA FirstAreSome ==
  ASSUME NEW R, NEW S, Orders(R, S), IsFiniteSet(S), NEW n \in Nat, n > 0, S # {}
  PROVE  FirstIn(R, S, n) # {}
<1>1. PICK x \in S : \A y \in S : y = x \/ <<x, y>> \in R
  BY FirstExists
<1>2. Ahead(R, S, x) = {}
  BY <1>1 DEF Ahead, Orders
<1>3. Cardinality(Ahead(R, S, x)) = 0
  BY <1>2, FS_EmptySet
<1> QED
  BY <1>3 DEF FirstIn

-----------------------------------------------------------------------------
(* DeadLetterScan.                                                          *)

EarlierIDs == {p \in StreamIDs \X StreamIDs : Earlier(p[1], p[2])}

LEMMA EarlierOrders ==
  ASSUME NEW S, S \subseteq StreamIDs
  PROVE  Orders(EarlierIDs, S) /\ IsFiniteSet(S)
<1>1. \A x \in StreamIDs : x[1] \in Nat /\ x[2] \in Nat /\ x = <<x[1], x[2]>>
  BY ScanAssumption
<1>2. \A x, y \in S : <<x, y>> \in EarlierIDs <=> Earlier(x, y)
  BY DEF EarlierIDs
<1>3. \A x \in S : ~Earlier(x, x)
  BY <1>1 DEF Earlier
<1>4. ASSUME NEW x \in S, NEW y \in S, NEW z \in S, Earlier(x, y), Earlier(y, z)
      PROVE  Earlier(x, z)
  BY <1>1, <1>4 DEF Earlier
<1>5. ASSUME NEW x \in S, NEW y \in S PROVE x = y \/ Earlier(x, y) \/ Earlier(y, x)
  <2>1. x[1] = y[1] /\ x[2] = y[2] => x = y
    BY <1>1
  <2>2. x[1] \in Nat /\ x[2] \in Nat /\ y[1] \in Nat /\ y[2] \in Nat
    BY <1>1
  <2> QED
    BY <2>1, <2>2 DEF Earlier
<1>6. Orders(EarlierIDs, S)
  BY <1>2, <1>3, <1>4, <1>5 DEF Orders
<1> QED
  BY <1>6, ScanAssumption, FS_Subset

\* XPENDING returns no more than it was asked for, something if there is
\* something, and nothing but what comes first.
LEMMA FirstOfIsAPage ==
  ASSUME NEW S, S \subseteq StreamIDs, NEW n \in Nat
  PROVE  /\ FirstOf(S, n) \subseteq S /\ IsFiniteSet(FirstOf(S, n))
         /\ Cardinality(FirstOf(S, n)) \in Nat /\ Cardinality(FirstOf(S, n)) <= n
         /\ S # {} /\ n > 0 => FirstOf(S, n) # {}
         /\ \A x \in FirstOf(S, n), y \in S \ FirstOf(S, n) : Earlier(x, y)
<1>1. Orders(EarlierIDs, S) /\ IsFiniteSet(S)
  BY EarlierOrders
<1>2. \A id \in S : Ahead(EarlierIDs, S, id) = {x \in S : Earlier(x, id)}
  BY DEF Ahead, EarlierIDs
<1>3. FirstOf(S, n) = FirstIn(EarlierIDs, S, n)
  BY <1>2 DEF FirstOf, FirstIn
<1>4. FirstIn(EarlierIDs, S, n) \subseteq S
  BY DEF FirstIn
<1>5. /\ IsFiniteSet(FirstIn(EarlierIDs, S, n)) /\ Cardinality(FirstIn(EarlierIDs, S, n)) \in Nat
      /\ Cardinality(FirstIn(EarlierIDs, S, n)) <= n
  BY <1>1, FirstAreFew
<1>6. S # {} /\ n > 0 => FirstIn(EarlierIDs, S, n) # {}
  BY <1>1, FirstAreSome
<1>7. \A x \in FirstIn(EarlierIDs, S, n), y \in S \ FirstIn(EarlierIDs, S, n) : <<x, y>> \in EarlierIDs
  BY <1>1, FirstComeFirst
<1>8. \A x \in FirstIn(EarlierIDs, S, n), y \in S \ FirstIn(EarlierIDs, S, n) : Earlier(x, y)
  BY <1>7 DEF EarlierIDs
<1> QED
  BY <1>3, <1>4, <1>5, <1>6, <1>8

LEMMA LastOfIsLast ==
  ASSUME NEW S, S \subseteq StreamIDs, S # {}
  PROVE  LastOf(S) \in S /\ \A x \in S : x = LastOf(S) \/ Earlier(x, LastOf(S))
<1>1. Orders(EarlierIDs, S) /\ IsFiniteSet(S)
  BY EarlierOrders
<1>2. PICK m \in S : \A x \in S : x = m \/ <<x, m>> \in EarlierIDs
  BY <1>1, LastExists
<1>3. ASSUME NEW x \in S, Earlier(m, x) PROVE FALSE
  <2>1. <<m, x>> \in EarlierIDs
    BY <1>3 DEF EarlierIDs
  <2> QED
    BY <1>1, <1>2, <2>1 DEF Orders
<1>4. LastOf(S) \in S /\ \A x \in S : ~Earlier(LastOf(S), x)
  BY <1>2, <1>3 DEF LastOf
<1> QED
  BY <1>1, <1>4 DEF Orders, EarlierIDs

\* Past deliveries are not taken back: what was due is due until it is acknowledged.
StaysDue == \A id \in due \cup dead : pending[id] = 0 \/ pending[id] >= MaxRetries

\* All that was due before the next page is found.
FoundSoFar ==
  scan.pc = "page" =>
    \A id \in due : pending[id] > 0 /\ Earlier(id, scan.start) => id \in dead

\* A round that goes on has room.
HasRoom == scan.pc = "page" => Cardinality(dead) < ReapLimit

ScanStrong ==
  /\ scan \in [pc : {"idle", "page", "ack"}, start : Nat \X Nat]
  /\ looked \subseteq StreamIDs
  /\ ScanInv /\ StaysDue /\ FoundSoFar /\ HasRoom

LEMMA ScanStarts ==
  ASSUME ScanInit PROVE ScanStrong
<1>1. Cardinality({}) = 0
  BY FS_EmptySet
<1> QED
  BY <1>1, ScanAssumption DEF ScanInit, ScanStrong, ScanInv, ScanTypeOK, LooksOnlyAhead, FindsAllDue,
       DropsOnlyDue, StaysDue, FoundSoFar, HasRoom

LEMMA BeginStep ==
  ASSUME ScanStrong, Begin PROVE ScanStrong'
<1>1. Cardinality({}) = 0
  BY FS_EmptySet
<1>2. due' \subseteq StreamIDs /\ \A id \in due' : pending[id] >= MaxRetries
  BY DEF Begin, Due, Entries
<1>3. ScanTypeOK'
  BY <1>1, <1>2, ScanAssumption DEF Begin, ScanStrong, ScanInv, ScanTypeOK
<1>4. \A id \in due' : ~Earlier(id, <<0, 0>>)
  BY <1>2, ScanAssumption DEF Earlier
<1> QED
  BY <1>1, <1>2, <1>3, <1>4, ScanAssumption DEF Begin, ScanStrong, ScanInv, LooksOnlyAhead, FindsAllDue,
       DropsOnlyDue, StaysDue, FoundSoFar, HasRoom

LEMMA PageStep ==
  ASSUME ScanStrong, Page PROVE ScanStrong'
<1> DEFINE room  == ReapLimit - Cardinality(dead)
           rest  == {id \in Entries : ~Earlier(id, scan.start)}
           page  == FirstOf(rest, room)
           found == dead \cup (page \cap Due)
<1>1. /\ dead \subseteq StreamIDs /\ IsFiniteSet(dead) /\ Cardinality(dead) \in Nat
      /\ Cardinality(dead) < ReapLimit /\ room \in Nat /\ room > 0 /\ ReapLimit \in Nat
  BY FS_Subset, FS_CardinalityType, ScanAssumption DEF Page, ScanStrong, ScanInv, ScanTypeOK, HasRoom
<1>2. rest \subseteq StreamIDs /\ \A id \in StreamIDs : id \in rest <=> (pending[id] > 0 /\ ~Earlier(id, scan.start))
  BY DEF Entries
<1>3. /\ page \subseteq rest /\ IsFiniteSet(page) /\ Cardinality(page) \in Nat /\ Cardinality(page) <= room
      /\ rest # {} => page # {}
      /\ \A x \in page, y \in rest \ page : Earlier(x, y)
  <2> HIDE DEF room, rest
  <2> QED
    BY <1>1, <1>2, FirstOfIsAPage
<1>4. /\ scan.pc = "page" /\ dead' = found /\ looked' = looked \cup page
      /\ UNCHANGED <<pending, due, reaped>>
      /\ IF page = {} \/ Cardinality(found) >= ReapLimit
         THEN scan' = [scan EXCEPT !.pc = IF found = {} THEN "idle" ELSE "ack"]
         ELSE scan' = [scan EXCEPT !.start = NextStreamID(LastOf(page))]
  BY DEF Page
<1>5. /\ found \subseteq StreamIDs /\ Cardinality(found) \in Nat /\ Cardinality(found) <= ReapLimit
  <2>1. IsFiniteSet(page \cap Due) /\ Cardinality(page \cap Due) \in Nat /\ Cardinality(page \cap Due) <= Cardinality(page)
    <3> HIDE DEF page
    <3> QED
      BY <1>3, FS_Intersection, FS_CardinalityType
  <2>2. /\ IsFiniteSet(found)
        /\ Cardinality(found) = Cardinality(dead) + Cardinality(page \cap Due) - Cardinality(dead \cap (page \cap Due))
    <3> HIDE DEF page
    <3> QED
      BY <1>1, <2>1, FS_Union
  <2>3. Cardinality(dead \cap (page \cap Due)) \in Nat /\ Cardinality(found) \in Nat
    <3> HIDE DEF page
    <3> QED
      BY <1>1, <2>2, FS_Intersection, FS_CardinalityType
  <2>4. found \subseteq StreamIDs
    BY <1>1, <1>2, <1>3
  <2> HIDE DEF page, found
  <2> QED
    BY <1>1, <1>3, <2>1, <2>2, <2>3, <2>4
<1>6. \A id \in found : id \in dead \/ (id \in page /\ pending[id] >= MaxRetries)
  BY DEF Due
<1>7. \A id \in due : pending[id] > 0 /\ id \in page => id \in found
  BY <1>2, ScanAssumption DEF Due, Entries, StaysDue, ScanStrong, ScanInv, ScanTypeOK
<1>8. scan.start \in Nat \X Nat /\ \A x \in StreamIDs : x[1] \in Nat /\ x[2] \in Nat /\ x = <<x[1], x[2]>>
  BY ScanAssumption DEF ScanStrong
<1> HIDE DEF room, rest, page, found
<1>9. StaysDue' /\ looked' \subseteq StreamIDs
  BY <1>2, <1>3, <1>4, <1>6 DEF StaysDue, ScanStrong
<1>10. CASE page = {} \/ Cardinality(found) >= ReapLimit
  <2>1. /\ scan'.pc \in {"idle", "ack"} /\ scan' \in [pc : {"idle", "page", "ack"}, start : Nat \X Nat]
    BY <1>4, <1>10 DEF ScanStrong
  <2>2. ScanTypeOK'
    BY <1>4, <1>5, <2>1 DEF ScanStrong, ScanInv, ScanTypeOK
  <2>3. FindsAllDue'
    <3>1. SUFFICES ASSUME Cardinality(found) < ReapLimit, NEW id \in due, pending[id] > 0
                   PROVE  id \in found
      BY <1>4 DEF FindsAllDue, Entries
    <3>2. rest = {}
      BY <1>3, <1>5, <1>10, <3>1, ScanAssumption
    <3>3. id \in StreamIDs
      BY DEF ScanStrong, ScanInv, ScanTypeOK
    <3>4. id \in dead
      BY <1>2, <1>4, <3>1, <3>2, <3>3 DEF FoundSoFar, ScanStrong
    <3> QED
      BY <3>4 DEF found
  <2> QED
    BY <1>4, <1>9, <2>1, <2>2, <2>3 DEF ScanStrong, ScanInv, LooksOnlyAhead, DropsOnlyDue, FoundSoFar, HasRoom
<1>11. CASE page # {} /\ Cardinality(found) < ReapLimit
  <2>1. PICK last : last = LastOf(page)
    OBVIOUS
  <2>2. last \in page /\ \A x \in page : x = last \/ Earlier(x, last)
    <3>1. page \subseteq StreamIDs
      BY <1>2, <1>3
    <3> QED
      BY <1>11, <2>1, <3>1, LastOfIsLast
  <2>3. last[1] \in Nat /\ last[2] \in Nat /\ last \in StreamIDs
    BY <1>2, <1>3, <1>8, <2>2
  <2>4. scan' = [scan EXCEPT !.start = <<last[1], last[2] + 1>>]
    BY <1>4, <1>5, <1>11, <2>1, ScanAssumption DEF NextStreamID
  <2>5. /\ scan' \in [pc : {"idle", "page", "ack"}, start : Nat \X Nat] /\ scan'.pc = "page"
        /\ scan'.start = <<last[1], last[2] + 1>>
    BY <1>4, <2>3, <2>4 DEF ScanStrong
  <2>6. ScanTypeOK'
    BY <1>4, <1>5, <2>5 DEF ScanStrong, ScanInv, ScanTypeOK
  <2>7. \A x \in StreamIDs : Earlier(x, scan'.start) <=> (x = last \/ Earlier(x, last))
    BY <1>8, <2>3, <2>5 DEF Earlier
  <2>8. ~Earlier(last, scan.start)
    BY <1>2, <1>3, <2>2
  <2>9. LooksOnlyAhead'
    <3>1. SUFFICES ASSUME NEW x \in looked \cup page PROVE Earlier(x, scan'.start)
      BY <1>4 DEF LooksOnlyAhead
    <3>2. CASE x \in page
      BY <1>2, <1>3, <2>2, <2>7, <3>2
    <3>3. CASE x \in looked
      <4>1. x \in StreamIDs /\ Earlier(x, scan.start)
        BY <1>4, <3>3 DEF ScanStrong, ScanInv, LooksOnlyAhead
      <4>2. Earlier(x, last)
        BY <1>8, <2>3, <2>8, <4>1 DEF Earlier
      <4> QED
        BY <2>7, <4>1, <4>2
    <3> QED
      BY <3>1, <3>2, <3>3
  <2>10. FoundSoFar'
    <3>1. SUFFICES ASSUME NEW id \in due, pending[id] > 0, Earlier(id, scan'.start) PROVE id \in found
      BY <1>4 DEF FoundSoFar
    <3>2. id \in StreamIDs
      BY DEF ScanStrong, ScanInv, ScanTypeOK
    <3>3. CASE Earlier(id, scan.start)
      BY <1>4, <3>1, <3>3 DEF FoundSoFar, ScanStrong, found
    <3>4. CASE ~Earlier(id, scan.start)
      <4>1. id \in rest
        BY <1>2, <3>1, <3>2, <3>4
      <4>2. id \in page
        <5>1. SUFFICES ASSUME id \notin page PROVE FALSE
          OBVIOUS
        <5>2. Earlier(last, id)
          BY <1>3, <2>2, <4>1, <5>1
        <5>3. id = last \/ Earlier(id, last)
          BY <2>7, <3>1, <3>2
        <5> QED
          BY <1>8, <2>3, <3>2, <5>2, <5>3 DEF Earlier
      <4> QED
        BY <1>7, <3>1, <4>2
    <3> QED
      BY <3>3, <3>4
  <2>11. FindsAllDue' /\ DropsOnlyDue' /\ HasRoom'
    BY <1>4, <1>11, <2>5 DEF FindsAllDue, DropsOnlyDue, HasRoom, ScanStrong, ScanInv
  <2> QED
    BY <1>9, <2>5, <2>6, <2>9, <2>10, <2>11 DEF ScanStrong, ScanInv
<1> QED
  BY <1>5, <1>10, <1>11, ScanAssumption

LEMMA PageFailsStep ==
  ASSUME ScanStrong, PageFails PROVE ScanStrong'
BY DEF PageFails, ScanStrong, ScanInv, ScanTypeOK, LooksOnlyAhead, FindsAllDue, DropsOnlyDue, StaysDue,
     FoundSoFar, HasRoom

LEMMA DropStep ==
  ASSUME ScanStrong, Drop PROVE ScanStrong'
<1>1. /\ scan' \in [pc : {"idle", "page", "ack"}, start : Nat \X Nat] /\ scan'.pc = "idle"
      /\ UNCHANGED <<dead, due, looked>>
  BY DEF Drop, ScanStrong
<1>2. /\ pending' \in [StreamIDs -> 0..MaxDeliveries]
      /\ \A id \in StreamIDs : pending'[id] = 0 \/ pending'[id] = pending[id]
  BY ScanAssumption DEF Drop, ScanStrong, ScanInv, ScanTypeOK
<1>3. DropsOnlyDue'
  <2>1. \A id \in dead \cap Entries : pending[id] >= MaxRetries
    BY ScanAssumption DEF Entries, ScanStrong, StaysDue, ScanInv, ScanTypeOK
  <2> QED
    BY <2>1 DEF Drop, DropsOnlyDue, ScanStrong, ScanInv
<1>4. ScanTypeOK' /\ StaysDue'
  BY <1>1, <1>2 DEF ScanStrong, ScanInv, ScanTypeOK, StaysDue
<1> QED
  BY <1>1, <1>3, <1>4 DEF ScanStrong, ScanInv, LooksOnlyAhead, FindsAllDue, FoundSoFar, HasRoom

\* Other workers take entries away or deliver them once more.
LEMMA OthersStep ==
  ASSUME ScanStrong, NEW id \in StreamIDs, Acked(id) \/ Redelivered(id) PROVE ScanStrong'
<1>1. UNCHANGED <<scan, dead, due, looked, reaped>>
  BY DEF Acked, Redelivered
<1>2. /\ pending' \in [StreamIDs -> 0..MaxDeliveries]
      /\ \A x \in StreamIDs : pending'[x] = 0 \/ (pending[x] > 0 /\ pending'[x] >= pending[x])
  BY ScanAssumption DEF Acked, Redelivered, ScanStrong, ScanInv, ScanTypeOK
<1>3. \A x \in StreamIDs : pending[x] \in Nat /\ pending'[x] \in Nat
  BY <1>2, ScanAssumption DEF ScanStrong, ScanInv, ScanTypeOK
<1>4. ScanTypeOK' /\ dead \subseteq StreamIDs /\ due \subseteq StreamIDs
  BY <1>1, <1>2 DEF ScanStrong, ScanInv, ScanTypeOK
<1>5. StaysDue' /\ FoundSoFar'
  BY <1>1, <1>2, <1>3, <1>4, ScanAssumption DEF ScanStrong, StaysDue, FoundSoFar
<1>6. FindsAllDue'
  BY <1>1, <1>2, <1>3, <1>4 DEF ScanStrong, ScanInv, FindsAllDue, Entries
<1> QED
  BY <1>1, <1>4, <1>5, <1>6 DEF ScanStrong, ScanInv, LooksOnlyAhead, DropsOnlyDue, HasRoom

\* The inductive invariant of a round.
THEOREM ScanInvariant == ScanSpec => []ScanStrong
<1>1. ScanInit => ScanStrong
  BY ScanStarts
<1>2. ScanStrong /\ [ScanNext]_scanVars => ScanStrong'
  <2>1. ASSUME ScanStrong, UNCHANGED scanVars PROVE ScanStrong'
    BY <2>1 DEF scanVars, ScanStrong, ScanInv, ScanTypeOK, LooksOnlyAhead, FindsAllDue, DropsOnlyDue,
         StaysDue, FoundSoFar, HasRoom, Entries
  <2> QED
    BY <2>1, BeginStep, PageStep, PageFailsStep, DropStep, OthersStep DEF ScanNext
<1> QED
  BY <1>1, <1>2, PTL DEF ScanSpec

\* store/redis/stream.go, ReapDeadLetters: a round never reads a page twice, finds all
\* that was due unless it is full, and drops nothing that was not due.
THEOREM ScanIsSafe == ScanSpec => []ScanInv
<1>1. ScanStrong => ScanInv
  BY DEF ScanStrong
<1> QED
  BY <1>1, ScanInvariant, PTL

-----------------------------------------------------------------------------
(* Paging.                                                                  *)

NewerRows == {p \in RowIds \X RowIds : Before(KeyOf(p[2]), KeyOf(p[1]))}

TableTypeOK == table \in [RowIds -> [exists : BOOLEAN, listed : BOOLEAN, at : Nat]]

LEMMA NewerOrders ==
  ASSUME TableTypeOK, NEW S, S \subseteq RowIds
  PROVE  Orders(NewerRows, S) /\ IsFiniteSet(S)
<1>1. \A r \in RowIds : r \in Nat /\ table[r].at \in Nat
  BY PagingAssumption DEF TableTypeOK
<1>2. \A q, r \in S : <<r, q>> \in NewerRows <=>
        (table[q].at < table[r].at \/ (table[q].at = table[r].at /\ q < r))
  BY DEF NewerRows, Before, KeyOf
<1>3. ASSUME NEW q \in S, NEW r \in S, NEW s \in S, <<q, r>> \in NewerRows, <<r, s>> \in NewerRows
      PROVE  <<q, s>> \in NewerRows
  <2>1. q \in Nat /\ r \in Nat /\ s \in Nat /\ table[q].at \in Nat /\ table[r].at \in Nat /\ table[s].at \in Nat
    BY <1>1
  <2> QED
    BY <1>2, <1>3, <2>1
<1>4. ASSUME NEW q \in S, NEW r \in S PROVE q = r \/ <<q, r>> \in NewerRows \/ <<r, q>> \in NewerRows
  <2>1. q \in Nat /\ r \in Nat /\ table[q].at \in Nat /\ table[r].at \in Nat
    BY <1>1
  <2> QED
    BY <1>2, <2>1
<1>5. \A q \in S : <<q, q>> \notin NewerRows
  BY <1>1, <1>2
<1>6. Orders(NewerRows, S)
  BY <1>3, <1>4, <1>5 DEF Orders
<1> QED
  BY <1>6, PagingAssumption, FS_Subset

\* What ORDER BY and LIMIT return.
LEMMA NewestIsAPage ==
  ASSUME TableTypeOK, NEW S, S \subseteq RowIds, NEW n \in Nat
  PROVE  /\ Newest(S, n) \subseteq S /\ IsFiniteSet(Newest(S, n))
         /\ Cardinality(Newest(S, n)) \in Nat /\ Cardinality(Newest(S, n)) <= n
         /\ S # {} /\ n > 0 => Newest(S, n) # {}
         /\ \A x \in Newest(S, n), y \in S \ Newest(S, n) : Before(KeyOf(y), KeyOf(x))
         /\ Cardinality(Newest(S, n)) < n => Newest(S, n) = S
         /\ Cardinality(S) <= n => Newest(S, n) = S
<1>1. Orders(NewerRows, S) /\ IsFiniteSet(S)
  BY NewerOrders
<1>2. \A r \in S : Ahead(NewerRows, S, r) = {q \in S : Before(KeyOf(r), KeyOf(q))}
  BY DEF Ahead, NewerRows
<1>3. Newest(S, n) = FirstIn(NewerRows, S, n)
  BY <1>2 DEF Newest, FirstIn
<1>4. FirstIn(NewerRows, S, n) \subseteq S
  BY DEF FirstIn
<1>5. /\ IsFiniteSet(FirstIn(NewerRows, S, n)) /\ Cardinality(FirstIn(NewerRows, S, n)) \in Nat
      /\ Cardinality(FirstIn(NewerRows, S, n)) <= n
  BY <1>1, FirstAreFew
<1>6. S # {} /\ n > 0 => FirstIn(NewerRows, S, n) # {}
  BY <1>1, FirstAreSome
<1>7. \A x \in FirstIn(NewerRows, S, n), y \in S \ FirstIn(NewerRows, S, n) : <<x, y>> \in NewerRows
  BY <1>1, FirstComeFirst
<1>8. \A x \in FirstIn(NewerRows, S, n), y \in S \ FirstIn(NewerRows, S, n) : Before(KeyOf(y), KeyOf(x))
  BY <1>7 DEF NewerRows
<1>9. Cardinality(FirstIn(NewerRows, S, n)) < n => FirstIn(NewerRows, S, n) = S
  BY <1>1, FewAreAll
<1>10. Cardinality(S) <= n => FirstIn(NewerRows, S, n) = S
  BY <1>1, SmallIsAll
<1> QED
  BY <1>3, <1>4, <1>5, <1>6, <1>8, <1>9, <1>10

LEMMA OldestIsLast ==
  ASSUME TableTypeOK, NEW S, S \subseteq RowIds, S # {}
  PROVE  Oldest(S) \in S /\ \A q \in S : ~Before(KeyOf(q), KeyOf(Oldest(S)))
<1>1. Orders(NewerRows, S) /\ IsFiniteSet(S)
  BY NewerOrders
<1>2. PICK m \in S : \A q \in S : q = m \/ <<q, m>> \in NewerRows
  BY <1>1, LastExists
<1>3. ASSUME NEW q \in S, Before(KeyOf(q), KeyOf(m)) PROVE FALSE
  <2>1. <<m, q>> \in NewerRows
    BY <1>3 DEF NewerRows
  <2> QED
    BY <1>1, <1>2, <2>1 DEF Orders
<1> QED
  BY <1>2, <1>3 DEF Oldest

LEMMA PageSizeIsPositive ==
  ASSUME NEW asked \in Asked
  PROVE  PageSize(asked) \in Nat \ {0}
BY PagingAssumption DEF PageSize

\* Row r comes after cursor c, in the terms of its own columns.
After(r, c) == table[r].at < c.at \/ (table[r].at = c.at /\ r < c.id)

\* A row that was shown is not ahead of the reader, unless the reading is over.
ShownIsBehind ==
  \A r \in RowIds : got[r] > 0 =>
    /\ table[r].exists
    /\ reading.done \/ (reading.cursor.valid /\ ~After(r, reading.cursor))

\* A row that was in the list all the while is in it, and is ahead or was shown.
KeptIsSeen ==
  \A r \in kept :
    /\ table[r].listed /\ (list = "clicks" => table[r].at >= since)
    /\ reading.cursor.valid => After(r, reading.cursor) \/ got[r] = 1

Cursors == [valid : BOOLEAN, at : Nat, id : Nat]

PagingShape ==
  /\ list \in {"links", "clicks"} /\ TableTypeOK /\ since \in Nat /\ listChanges \in Nat
  /\ reading \in [done : BOOLEAN, cursor : Cursors] /\ (reading.done => ~reading.cursor.valid)
  /\ got \in [RowIds -> Nat] /\ kept \subseteq RowIds
  /\ \A r \in RowIds : table[r].listed => table[r].exists

PagingStrong ==
  /\ PagingShape /\ ShownIsBehind /\ KeptIsSeen
  /\ NoRowTwice /\ NoRowSkipped /\ NextPageIsThere

LEMMA PagingStarts == ASSUME PagingInit PROVE PagingStrong
<1>1. TableTypeOK /\ \A r \in RowIds : table[r].listed => table[r].exists
  <2>1. ASSUME NEW r \in RowIds
        PROVE  table[r] \in [exists : BOOLEAN, listed : BOOLEAN, at : Nat] /\ (table[r].listed => table[r].exists)
    <3>1. \/ table[r] \in [exists : {TRUE}, listed : {TRUE}, at : Stamps]
          \/ table[r] = [exists |-> FALSE, listed |-> FALSE, at |-> 0]
      BY DEF PagingInit
    <3>2. ASSUME NEW row \in [exists : {TRUE}, listed : {TRUE}, at : Stamps]
          PROVE  row \in [exists : BOOLEAN, listed : BOOLEAN, at : Nat] /\ (row.listed => row.exists)
      BY PagingAssumption
    <3>3. ASSUME NEW row, row = [exists |-> FALSE, listed |-> FALSE, at |-> 0]
          PROVE  row \in [exists : BOOLEAN, listed : BOOLEAN, at : Nat] /\ (row.listed => row.exists)
      BY <3>3
    <3> QED
      BY <3>1, <3>2, <3>3
  <2>2. table = [r \in RowIds |-> table[r]]
    BY DEF PagingInit
  <2> QED
    BY <2>1, <2>2 DEF TableTypeOK
<1>2. reading \in [done : BOOLEAN, cursor : Cursors] /\ ~reading.done /\ ~reading.cursor.valid
  BY DEF PagingInit, NoCursor, Cursors
<1>3. PagingShape
  BY <1>1, <1>2 DEF PagingInit, PagingShape
<1> QED
  BY <1>2, <1>3 DEF PagingInit, PagingStrong, ShownIsBehind, KeptIsSeen, NoRowTwice, NoRowSkipped, NextPageIsThere

LEMMA FetchStep ==
  ASSUME PagingStrong, NEW asked \in Asked, FetchPage(asked) PROVE PagingStrong'
<1> DEFINE c     == reading.cursor
           size  == PageSize(asked)
           rows  == Below(c)
           found == Newest(rows, size + 1)
           page  == Newest(found, size)
           last  == Oldest(page)
<1>1. size \in Nat /\ size > 0
  BY PageSizeIsPositive
<1>2. /\ c \in Cursors /\ ~reading.done /\ UNCHANGED <<list, table, since, listChanges>>
      /\ got' = [r \in RowIds |-> IF r \in page THEN got[r] + 1 ELSE got[r]]
      /\ kept' = IF c.valid THEN kept ELSE {r \in RowIds : Matches(r)}
      /\ reading' = IF Cardinality(found) > size
                    THEN [done |-> FALSE, cursor |-> EncodeCursor(KeyOf(last))]
                    ELSE [done |-> TRUE, cursor |-> NoCursor]
  BY DEF FetchPage, Show, PagingStrong, PagingShape
<1>3. TableTypeOK /\ \A r \in RowIds : r \in Nat /\ table[r].at \in Nat
  BY PagingAssumption DEF PagingStrong, PagingShape, TableTypeOK
<1>4. /\ rows \subseteq RowIds
      /\ \A r \in RowIds : r \in rows <=> (Matches(r) /\ (c.valid => After(r, c)))
  BY DEF Below, After, Before, KeyOf
<1>5. /\ found \subseteq rows /\ Cardinality(found) \in Nat
      /\ \A x \in found, y \in rows \ found : Before(KeyOf(y), KeyOf(x))
      /\ Cardinality(found) < size + 1 => found = rows
  <2> HIDE DEF rows, size
  <2> QED
    BY <1>1, <1>3, <1>4, NewestIsAPage
<1>6. /\ page \subseteq found /\ Cardinality(page) \in Nat /\ Cardinality(page) <= size
      /\ found # {} => page # {}
      /\ \A x \in page, y \in found \ page : Before(KeyOf(y), KeyOf(x))
      /\ Cardinality(found) <= size => page = found
  <2>1. found \subseteq RowIds
    BY <1>4, <1>5
  <2> HIDE DEF found, size
  <2> QED
    BY <1>1, <1>3, <2>1, NewestIsAPage
<1> HIDE DEF size, rows, found, page, last
<1>7. page \subseteq RowIds /\ page \subseteq rows
  BY <1>4, <1>5, <1>6
<1>8. \A r \in rows : got[r] = 0
  BY <1>2, <1>3, <1>4 DEF PagingStrong, PagingShape, ShownIsBehind
<1>9. got' \in [RowIds -> Nat] /\ \A r \in RowIds : got'[r] = IF r \in page THEN 1 ELSE got[r]
  BY <1>2, <1>7, <1>8 DEF PagingStrong, PagingShape
<1>10. \A r \in page : Matches(r) /\ table[r].exists
  BY <1>4, <1>7 DEF Matches, PagingStrong, PagingShape
<1>11. kept' \subseteq RowIds /\ \A r \in kept' : Matches(r) /\ (r \in rows \/ got[r] = 1)
  BY <1>2, <1>4 DEF PagingStrong, PagingShape, KeptIsSeen, Matches
<1>12. NoRowTwice'
  BY <1>9 DEF NoRowTwice, PagingStrong
<1>13. CASE Cardinality(found) > size
  <2>1. found # {} /\ page # {}
    <3>1. found # {}
      BY <1>1, <1>13, FS_EmptySet
    <3> QED
      BY <1>6, <3>1
  <2>2. last \in page /\ \A q \in page : ~Before(KeyOf(q), KeyOf(last))
    BY <1>3, <1>7, <2>1, OldestIsLast DEF last
  <2>3. last \in Nat /\ table[last].at \in Nat /\ last \in RowIds /\ last \in rows
    BY <1>3, <1>7, <2>2
  <2>4. reading' = [done |-> FALSE, cursor |-> [valid |-> TRUE, at |-> table[last].at, id |-> last]]
    BY <1>2, <1>13 DEF EncodeCursor, KeyOf
  <2>5. /\ reading' \in [done : BOOLEAN, cursor : Cursors] /\ ~reading'.done /\ reading'.cursor.valid
        /\ reading'.cursor.at = table[last].at /\ reading'.cursor.id = last
    BY <2>3, <2>4 DEF Cursors
  <2>6. \A r \in RowIds : After(r, reading.cursor)' <=> Before(KeyOf(r), KeyOf(last))
    BY <1>2, <2>5 DEF After, Before, KeyOf
  <2>7. PagingShape'
    BY <1>2, <1>9, <1>11, <2>5 DEF PagingStrong, PagingShape, TableTypeOK
  <2>8. ShownIsBehind'
    <3>1. SUFFICES ASSUME NEW r \in RowIds, got'[r] > 0
                   PROVE  table[r].exists /\ ~Before(KeyOf(r), KeyOf(last))
      BY <1>2, <2>5, <2>6 DEF ShownIsBehind
    <3>2. CASE r \in page
      BY <1>10, <2>2, <3>2
    <3>3. CASE r \notin page
      <4>1. got[r] > 0 /\ table[r].exists /\ c.valid /\ ~After(r, c)
        BY <1>2, <1>9, <3>1, <3>3 DEF PagingStrong, ShownIsBehind
      <4>2. After(last, c)
        BY <1>4, <2>3, <4>1
      <4>3. r \in Nat /\ table[r].at \in Nat /\ c.at \in Nat /\ c.id \in Nat
        BY <1>2, <1>3 DEF Cursors
      <4> QED
        BY <2>3, <4>1, <4>2, <4>3 DEF After, Before, KeyOf
    <3> QED
      BY <3>2, <3>3
  <2>9. KeptIsSeen'
    <3>1. SUFFICES ASSUME NEW r \in kept', ~Before(KeyOf(r), KeyOf(last)) PROVE got'[r] = 1
      BY <1>2, <1>11, <2>6 DEF KeptIsSeen, Matches
    <3>2. r \in RowIds /\ (r \in rows \/ got[r] = 1)
      BY <1>11
    <3>3. CASE r \in rows
      <4>1. r \in page
        <5>1. r \in found
          BY <1>5, <1>6, <2>2, <3>1, <3>3
        <5> QED
          BY <1>6, <2>2, <3>1, <5>1
      <4> QED
        BY <1>9, <3>2, <4>1
    <3>4. CASE r \notin rows
      BY <1>7, <1>9, <3>2, <3>4
    <3> QED
      BY <3>3, <3>4
  <2>10. NextPageIsThere'
    <3>1. found # page
      BY <1>1, <1>6, <1>13
    <3>2. PICK y \in found \ page : TRUE
      BY <1>6, <3>1
    <3>3. Before(KeyOf(y), KeyOf(last)) /\ y \in rows /\ y \in RowIds
      BY <1>4, <1>5, <1>6, <2>2, <3>2
    <3>4. Matches(y) /\ After(y, reading.cursor)'
      BY <1>4, <2>6, <3>3
    <3>5. y \in Below(reading.cursor)'
      BY <1>2, <3>3, <3>4 DEF Below, Matches, Before, KeyOf, After
    <3> QED
      BY <3>5 DEF NextPageIsThere
  <2>11. NoRowSkipped'
    BY <2>5 DEF NoRowSkipped
  <2> QED
    BY <1>12, <2>7, <2>8, <2>9, <2>10, <2>11 DEF PagingStrong
<1>14. CASE ~(Cardinality(found) > size)
  <2>1. page = rows
    BY <1>1, <1>5, <1>6, <1>14
  <2>2. reading' \in [done : BOOLEAN, cursor : Cursors] /\ reading'.done /\ ~reading'.cursor.valid
    BY <1>2, <1>14 DEF Cursors, NoCursor
  <2>3. PagingShape'
    BY <1>2, <1>9, <1>11, <2>2 DEF PagingStrong, PagingShape, TableTypeOK
  <2>4. \A r \in kept' : got'[r] = 1
    BY <1>9, <1>11, <2>1
  <2>5. ShownIsBehind'
    <3>1. SUFFICES ASSUME NEW r \in RowIds, got'[r] > 0 PROVE table[r].exists
      BY <1>2, <2>2 DEF ShownIsBehind
    <3> QED
      BY <1>9, <1>10, <3>1 DEF PagingStrong, ShownIsBehind
  <2>6. KeptIsSeen'
    BY <1>2, <1>11, <2>2 DEF KeptIsSeen, Matches
  <2> QED
    BY <1>12, <2>2, <2>3, <2>4, <2>5, <2>6 DEF PagingStrong, NoRowSkipped, NextPageIsThere
<1> QED
  BY <1>13, <1>14

\* Rows come, leave and come back; what leaves is no longer kept.
LEMMA ChangeStep ==
  ASSUME PagingStrong, NEW r \in RowIds, NEW row \in [exists : {TRUE}, listed : BOOLEAN, at : Nat],
         Change(r, row), got[r] > 0 => row.at = table[r].at
  PROVE  PagingStrong'
<1>1. /\ UNCHANGED <<list, since, reading, got>> /\ listChanges' = listChanges + 1
      /\ kept' = kept \ {r} /\ table' = [table EXCEPT ![r] = row]
  BY DEF Change
<1>2. table' \in [RowIds -> [exists : BOOLEAN, listed : BOOLEAN, at : Nat]]
      /\ \A q \in RowIds : table'[q] = IF q = r THEN row ELSE table[q]
  BY <1>1 DEF PagingStrong, PagingShape, TableTypeOK
<1>3. PagingShape'
  <2>1. row.exists /\ \A q \in RowIds : table'[q].listed => table'[q].exists
    BY <1>2 DEF PagingStrong, PagingShape
  <2>2. TableTypeOK'
    BY <1>2 DEF TableTypeOK
  <2> QED
    BY <1>1, <2>1, <2>2 DEF PagingStrong, PagingShape
<1>4. ShownIsBehind'
  BY <1>1, <1>2 DEF PagingStrong, ShownIsBehind, After
<1>5. KeptIsSeen' /\ NoRowTwice' /\ NoRowSkipped'
  BY <1>1, <1>2 DEF PagingStrong, PagingShape, KeptIsSeen, NoRowTwice, NoRowSkipped, After
<1>6. NextPageIsThere'
  BY <1>1 DEF PagingStrong, PagingShape, NextPageIsThere
<1> QED
  BY <1>3, <1>4, <1>5, <1>6 DEF PagingStrong

LEMMA RowsStep ==
  ASSUME PagingStrong, NEW r \in RowIds, Added(r) \/ Moved(r) PROVE PagingStrong'
<1>1. CASE Added(r)
  <2>1. PICK at \in Stamps : Change(r, [exists |-> TRUE, listed |-> TRUE, at |-> at])
    BY <1>1 DEF Added
  <2>2. ~(got[r] > 0)
    BY <1>1 DEF Added, PagingStrong, ShownIsBehind
  <2>3. [exists |-> TRUE, listed |-> TRUE, at |-> at] \in [exists : {TRUE}, listed : BOOLEAN, at : Nat]
    BY PagingAssumption
  <2> QED
    BY <2>1, <2>2, <2>3, ChangeStep
<1>2. CASE Moved(r)
  <2>1. PICK row : row = [table[r] EXCEPT !.listed = ~@]
    OBVIOUS
  <2>2. row \in [exists : {TRUE}, listed : BOOLEAN, at : Nat] /\ row.at = table[r].at
    BY <1>2, <2>1 DEF Moved, PagingStrong, PagingShape, TableTypeOK
  <2>3. Change(r, row)
    BY <1>2, <2>1 DEF Moved
  <2> QED
    BY <2>2, <2>3, ChangeStep
<1> QED
  BY <1>1, <1>2

LEMMA MidnightStep ==
  ASSUME PagingStrong, Midnight PROVE PagingStrong'
<1>1. /\ UNCHANGED <<list, table, reading, got>> /\ listChanges' = listChanges + 1 /\ since' = since + 1
      /\ kept' = {r \in kept : list = "clicks" => table[r].at >= since'}
  BY DEF Midnight
<1>2. PagingShape'
  BY <1>1 DEF PagingStrong, PagingShape, TableTypeOK
<1>3. KeptIsSeen'
  BY <1>1 DEF PagingStrong, KeptIsSeen, After
<1>4. ShownIsBehind' /\ NoRowTwice' /\ NoRowSkipped'
  BY <1>1 DEF PagingStrong, ShownIsBehind, NoRowTwice, NoRowSkipped, After
<1>5. NextPageIsThere'
  BY <1>1 DEF PagingStrong, PagingShape, NextPageIsThere
<1> QED
  BY <1>2, <1>3, <1>4, <1>5 DEF PagingStrong

\* The inductive invariant of a reader.
THEOREM PagingInvariant == PagingSpec => []PagingStrong
<1>1. PagingInit => PagingStrong
  BY PagingStarts
<1>2. PagingStrong /\ [PagingNext]_pagingVars => PagingStrong'
  <2>1. ASSUME PagingStrong, UNCHANGED pagingVars PROVE PagingStrong'
    BY <2>1 DEF pagingVars, PagingStrong, PagingShape, TableTypeOK, ShownIsBehind, KeptIsSeen, NoRowTwice,
         NoRowSkipped, NextPageIsThere, After, Below, Matches, KeyOf
  <2> QED
    BY <2>1, FetchStep, RowsStep, MidnightStep DEF PagingNext
<1> QED
  BY <1>1, <1>2, PTL DEF PagingSpec

\* store/postgres, ListByOwner and ListByLink: whatever is added, removed or
\* brought back between two pages and whatever sizes are asked for, no row is
\* shown twice and none that stayed in the list is left out.
THEOREM PagingIsSafe == PagingSpec => []PagingInv
<1>1. PagingStrong => PagingInv
  BY DEF PagingStrong, PagingShape, PagingInv, PagingTypeOK, TableTypeOK, Cursors
<1> QED
  BY <1>1, PagingInvariant, PTL

-----------------------------------------------------------------------------
(* LinkStats.                                                               *)

Tables == SUBSET (BucketNames \X Nat)
AboveIn(S) == {p \in S \X S : Above(p[1], p[2])}

LEMMA RankIsPlace ==
  ASSUME NEW b \in BucketNames
  PROVE  Rank(b) \in Nat /\ Names[Rank(b)] = b
<1>1. \A i \in DOMAIN Names : i \in Nat
  BY DEF Names
<1>2. \E i \in DOMAIN Names : Names[i] = b
  BY DEF BucketNames
<1>3. Rank(b) \in DOMAIN Names /\ Names[Rank(b)] = b
  BY <1>2 DEF Rank
<1> QED
  BY <1>1, <1>3

LEMMA AboveOrders ==
  ASSUME NEW S \in Tables
  PROVE  Orders(AboveIn(S), S)
<1>1. \A x \in S : x[1] \in BucketNames /\ x[2] \in Nat /\ x = <<x[1], x[2]>>
  BY DEF Tables
<1>2. \A x \in S : Rank(x[1]) \in Nat /\ Names[Rank(x[1])] = x[1]
  BY <1>1, RankIsPlace
<1>3. \A x, y \in S : <<x, y>> \in AboveIn(S) <=>
        (x[2] > y[2] \/ (x[2] = y[2] /\ Rank(x[1]) < Rank(y[1])))
  BY DEF AboveIn, Above
<1>4. \A x, y \in S : Rank(x[1]) = Rank(y[1]) /\ x[2] = y[2] => x = y
  BY <1>1, <1>2
<1>5. ASSUME NEW x \in S, NEW y \in S, NEW z \in S, <<x, y>> \in AboveIn(S), <<y, z>> \in AboveIn(S)
      PROVE  <<x, z>> \in AboveIn(S)
  <2>1. /\ x[2] \in Nat /\ y[2] \in Nat /\ z[2] \in Nat
        /\ Rank(x[1]) \in Nat /\ Rank(y[1]) \in Nat /\ Rank(z[1]) \in Nat
    BY <1>1, <1>2
  <2> QED
    BY <1>3, <1>5, <2>1
<1>6. ASSUME NEW x \in S, NEW y \in S PROVE x = y \/ <<x, y>> \in AboveIn(S) \/ <<y, x>> \in AboveIn(S)
  <2>1. x[2] \in Nat /\ y[2] \in Nat /\ Rank(x[1]) \in Nat /\ Rank(y[1]) \in Nat
    BY <1>1, <1>2
  <2> QED
    BY <1>3, <1>4, <2>1
<1>7. \A x \in S : <<x, x>> \notin AboveIn(S)
  BY <1>1, <1>2, <1>3
<1> QED
  BY <1>5, <1>6, <1>7 DEF Orders

\* ORDER BY clicks DESC, bucket LIMIT TopN: at most TopN rows, all if they are fewer.
LEMMA TopIsShort ==
  ASSUME NEW S \in Tables, IsFiniteSet(S)
  PROVE  /\ Cardinality(Top(S)) <= TopN
         /\ Cardinality(Top(S)) < TopN => Top(S) = S
<1>1. Orders(AboveIn(S), S) /\ TopN \in Nat
  BY AboveOrders, StatsAssumption
<1>2. \A x \in S : Ahead(AboveIn(S), S, x) = {q \in S : Above(q, x)}
  BY DEF Ahead, AboveIn
<1>3. Top(S) = FirstIn(AboveIn(S), S, TopN)
  BY <1>2 DEF Top, FirstIn
<1>4. Cardinality(FirstIn(AboveIn(S), S, TopN)) <= TopN
  BY <1>1, FirstAreFew
<1>5. Cardinality(FirstIn(AboveIn(S), S, TopN)) < TopN => FirstIn(AboveIn(S), S, TopN) = S
  BY <1>1, FewAreAll
<1> QED
  BY <1>3, <1>4, <1>5

\* Total is a fold; g is the recursive function behind it.
Sums(B, g) ==
  g = [s \in SUBSET B |-> IF s = {} THEN 0 ELSE LET x == CHOOSE x \in s : TRUE IN x[2] + g[s \ {x}]]

LEMMA TotalIsFold ==
  ASSUME NEW B, \E g : Sums(B, g)
  PROVE  \E g : Sums(B, g) /\ Total(B) = g[B]
<1> DEFINE it == CHOOSE g : Sums(B, g)
<1>1. Sums(B, it)
  OBVIOUS
<1>2. Total(B) = it[B]
  BY DEF Total, FoldSet, MapThenFoldSet, Sums
<1> QED
  BY <1>1, <1>2

SumsTo(B, f, s) == f[s] = IF s = {} THEN 0 ELSE LET x == CHOOSE x \in s : TRUE IN x[2] + f[s \ {x}]

\* There is one such function on a finite set.
LEMMA SumsAreUnique ==
  ASSUME NEW B, IsFiniteSet(B), NEW f, Sums(B, f), NEW g, Sums(B, g)
  PROVE  f[B] = g[B]
<1>1. \A s \in SUBSET B : SumsTo(B, f, s) /\ SumsTo(B, g, s)
  BY DEF Sums, SumsTo
<1> DEFINE T == {s \in SUBSET B : f[s] # g[s]}
<1>2. SUFFICES ASSUME T # {} PROVE FALSE
  OBVIOUS
<1>3. FiniteSubsetsOf(B) = SUBSET B
  BY FS_FiniteSubsetsOfFinite
<1>4. PICK s \in T : \A y \in T : <<y, s>> \notin StrictSubsetOrdering(B)
  <2>1. T \subseteq FiniteSubsetsOf(B)
    BY <1>3
  <2> HIDE DEF T
  <2> QED
    BY <1>2, <2>1, FS_StrictSubsetOrderingWellFounded, WFMin
<1>5. s \in SUBSET B /\ f[s] # g[s]
  OBVIOUS
<1>6. s # {}
  BY <1>1, <1>5 DEF SumsTo
<1>7. PICK x \in s : f[s] = x[2] + f[s \ {x}] /\ g[s] = x[2] + g[s \ {x}]
  <2> DEFINE x == CHOOSE x \in s : TRUE
  <2>1. x \in s
    BY <1>6
  <2>2. f[s] = x[2] + f[s \ {x}] /\ g[s] = x[2] + g[s \ {x}]
    BY <1>1, <1>5, <1>6 DEF SumsTo
  <2> QED
    BY <2>1, <2>2
<1>8. <<s \ {x}, s>> \in StrictSubsetOrdering(B) /\ s \ {x} \in SUBSET B
  BY <1>5, <1>7 DEF StrictSubsetOrdering
<1>9. f[s \ {x}] = g[s \ {x}]
  BY <1>4, <1>8
<1> QED
  BY <1>5, <1>7, <1>9

\* GROUP BY counts every row once: the buckets' counts add up to the rows.
LEMMA BucketsCoverAll ==
  ASSUME NEW of, IsFiniteSet(DOMAIN of), \A c \in DOMAIN of : of[c] \in BucketNames
  PROVE  /\ Buckets(of) \in Tables /\ IsFiniteSet(Buckets(of))
         /\ Total(Buckets(of)) = Cardinality(DOMAIN of)
<1> DEFINE D == DOMAIN of
           In(b) == {c \in D : of[c] = b}
           Within(s) == {c \in D : \E r \in s : r[1] = of[c]}
           B == Buckets(of)
           F == [s \in SUBSET B |-> Cardinality(Within(s))]
<1>1. \A b : IsFiniteSet(In(b)) /\ Cardinality(In(b)) \in Nat
  BY FS_Subset, FS_CardinalityType
<1>2. \A r : r \in B <=> \E c \in D : r = <<of[c], Cardinality(In(of[c]))>>
  BY DEF Buckets
<1>3. B \in Tables
  <2>1. ASSUME NEW r \in B PROVE r \in BucketNames \X Nat
    <3>1. PICK c \in D : r = <<of[c], Cardinality(In(of[c]))>>
      BY <1>2
    <3>2. Cardinality(In(of[c])) \in Nat /\ of[c] \in BucketNames
      BY <1>1
    <3> HIDE DEF In, B
    <3> QED
      BY <3>1, <3>2
  <2> HIDE DEF B
  <2> QED
    BY <2>1 DEF Tables
<1>4. IsFiniteSet(B)
  <2> DEFINE f == [c \in D |-> <<of[c], Cardinality(In(of[c]))>>]
  <2>1. f \in Surjection(D, B)
    BY <1>2 DEF Surjection
  <2> HIDE DEF D, B, f
  <2> QED
    BY <2>1, FS_Surjection DEF D
<1>5. \A s \in SUBSET B : IsFiniteSet(Within(s)) /\ Cardinality(Within(s)) \in Nat
  BY FS_Subset, FS_CardinalityType
<1>6. ASSUME NEW s \in SUBSET B, NEW x \in s
      PROVE  Cardinality(Within(s)) = x[2] + Cardinality(Within(s \ {x}))
  <2>1. PICK b : x = <<b, Cardinality(In(b))>>
    BY <1>2
  <2>2. Within(s) = In(b) \cup Within(s \ {x})
    BY <2>1
  <2>3. In(b) \cap Within(s \ {x}) = {}
    <3>1. SUFFICES ASSUME NEW r \in s \ {x}, r[1] = b PROVE FALSE
      OBVIOUS
    <3>2. PICK c \in D : r = <<of[c], Cardinality(In(of[c]))>>
      BY <1>2
    <3>3. r[1] = of[c]
      BY <3>2
    <3> QED
      BY <2>1, <3>1, <3>2, <3>3
  <2>4. IsFiniteSet(In(b)) /\ IsFiniteSet(Within(s \ {x}))
    BY <1>1, <1>5
  <2>5. Cardinality(In(b)) \in Nat /\ Cardinality(Within(s \ {x})) \in Nat
    BY <1>1, <1>5
  <2> HIDE DEF In, Within
  <2>6. Cardinality(Within(s)) = Cardinality(In(b)) + Cardinality(Within(s \ {x})) - Cardinality({})
    BY <2>2, <2>3, <2>4, FS_Union, ZenonT(60)
  <2> QED
    BY <2>1, <2>5, <2>6, FS_EmptySet
<1>7. Sums(B, F)
  <2>1. ASSUME NEW s \in SUBSET B
        PROVE  F[s] = IF s = {} THEN 0 ELSE LET x == CHOOSE x \in s : TRUE IN x[2] + F[s \ {x}]
    <3>1. CASE s = {}
      <4>1. Within(s) = {}
        BY <3>1
      <4> QED
        BY <3>1, <4>1, FS_EmptySet
    <3>2. CASE s # {}
      <4> DEFINE x == CHOOSE x \in s : TRUE
      <4>1. x \in s
        BY <3>2
      <4>2. s \ {x} \in SUBSET B
        BY <2>1
      <4> HIDE DEF Within, B
      <4>3. F[s] = x[2] + F[s \ {x}]
        BY <1>6, <2>1, <4>1, <4>2
      <4> QED
        BY <3>2, <4>3
    <3> QED
      BY <3>1, <3>2
  <2> HIDE DEF Within, B
  <2> QED
    BY <2>1 DEF Sums
<1>8. Within(B) = D
  <2>1. ASSUME NEW c \in D PROVE \E r \in B : r[1] = of[c]
    <3>1. <<of[c], Cardinality(In(of[c]))>> \in B
      BY <1>2
    <3> QED
      BY <3>1
  <2> QED
    BY <2>1
<1>9. Total(B) = F[B]
  <2> HIDE DEF F, B
  <2>1. PICK g : Sums(B, g) /\ Total(B) = g[B]
    BY <1>7, TotalIsFold
  <2> QED
    BY <1>4, <1>7, <2>1, SumsAreUnique
<1> HIDE DEF Within
<1> QED
  BY <1>3, <1>4, <1>8, <1>9

Known == {"device", "country", "done"}

\* The fields of a report, and the window it began with.
ReportShape(R) ==
  /\ R = [pc |-> R.pc, since |-> R.since, days |-> R.days, today |-> R.today, seen |-> R.seen,
          curve |-> R.curve, device |-> R.device, country |-> R.country]
  /\ R.pc \in {"idle", "daily"} \cup Known
  /\ R.since \in Int /\ R.days \in Nat /\ R.today \in Nat
  /\ R.pc # "idle" => R.days \in 1..MaxDays /\ R.since + (R.days - 1) = R.today
  /\ R.pc \in Known => DOMAIN R.curve = 0..(R.days - 1)
  /\ Cardinality(R.device) <= TopN /\ Cardinality(R.country) <= TopN

StatsShape ==
  /\ half \in FirstHalf..(FirstHalf + MaxHalves) /\ zone \in {0, 1}
  /\ clicked \in [ClickIds -> ClickRows \cup {NotStored}]
  /\ report.seen \subseteq Stored

StatsStrong == StatsShape /\ ReportShape(report) /\ CurveIsExact /\ BreakdownCoversCurve

LEMMA RowsDiffer ==
  /\ NotStored \notin ClickRows
  /\ \A row \in ClickRows : row.at \in Nat /\ row.of \in Visits
<1>1. \A row \in ClickRows : row.at \in Nat
  BY StatsAssumption DEF ClickRows
<1>2. NotStored.at \notin Nat
  BY DEF NotStored
<1> QED
  BY <1>1, <1>2 DEF ClickRows

LEMMA StoredRows ==
  ASSUME StatsShape
  PROVE  /\ Stored \subseteq ClickIds /\ IsFiniteSet(Stored)
         /\ \A c \in Stored : clicked[c] \in ClickRows /\ clicked[c].at \in Nat /\ clicked[c].of \in Visits
<1>1. Stored \subseteq ClickIds
  BY DEF Stored
<1>2. IsFiniteSet(Stored)
  BY <1>1, StatsAssumption, FS_Subset
<1> QED
  BY <1>1, <1>2, RowsDiffer DEF StatsShape, Stored

LEMMA StatsStart == ASSUME StatsInit PROVE StatsStrong
<1>1. Cardinality({}) = 0 /\ 0 <= TopN
  BY FS_EmptySet, StatsAssumption
<1>2. ReportShape(report)
  BY <1>1 DEF StatsInit, NoReport, ReportShape, Known
<1>3. StatsShape
  BY StatsAssumption DEF StatsInit, StatsShape, NoReport
<1>4. report.pc = "idle"
  BY DEF StatsInit, NoReport
<1> QED
  BY <1>2, <1>3, <1>4 DEF StatsStrong, CurveIsExact, BreakdownCoversCurve

LEMMA WindowIsBounded ==
  ASSUME NEW asked \in DaysAsked
  PROVE  WindowDays(asked) \in 1..MaxDays /\ WindowDays(asked) \in Nat
BY StatsAssumption DEF WindowDays

LEMMA AskStep ==
  ASSUME StatsStrong, NEW asked \in DaysAsked, AskStats(asked) PROVE StatsStrong'
<1>1. PICK d : d = WindowDays(asked)
  OBVIOUS
<1>2. d \in Nat /\ d \in 1..MaxDays
  BY <1>1, WindowIsBounded
<1>3. PICK t : t = Today
  OBVIOUS
<1>4. t \in Nat
  BY <1>3, StatsAssumption DEF Today, StatsStrong, StatsShape
<1>5. /\ report' = [pc |-> "daily", since |-> t - (d - 1), days |-> d, today |-> t, seen |-> {},
                    curve |-> <<>>, device |-> {}, country |-> {}]
      /\ UNCHANGED <<half, zone, clicked>>
  BY <1>1, <1>3 DEF AskStats, NoReport, Since
<1>6. Cardinality({}) = 0 /\ 0 <= TopN
  BY FS_EmptySet, StatsAssumption
<1>7. ReportShape(report)'
  BY <1>2, <1>4, <1>5, <1>6 DEF ReportShape, Known
<1>8. StatsShape'
  BY <1>5 DEF StatsStrong, StatsShape, Stored
<1> QED
  BY <1>5, <1>7, <1>8 DEF StatsStrong, CurveIsExact, BreakdownCoversCurve

\* A report that gives up.
LEMMA StatsFailStep == ASSUME StatsStrong, StatsFails PROVE StatsStrong'
<1>1. Cardinality({}) = 0 /\ 0 <= TopN
  BY FS_EmptySet, StatsAssumption
<1>2. report' = NoReport /\ UNCHANGED <<half, zone, clicked>>
  BY DEF StatsFails
<1>3. ReportShape(report)'
  BY <1>1, <1>2 DEF NoReport, ReportShape, Known
<1>4. StatsShape' /\ report'.pc = "idle"
  BY <1>2 DEF StatsStrong, StatsShape, NoReport, Stored
<1> QED
  BY <1>3, <1>4 DEF StatsStrong, CurveIsExact, BreakdownCoversCurve

\* A row of the window's day d is in the window.
LEMMA CurveStep == ASSUME StatsStrong, ReadCurve PROVE StatsStrong'
<1> DEFINE first == report.since
           days  == report.days
           OnDay(d) == {c \in Stored : clicked[c].at \div 2 = d}
           curve == FillDaily(Daily, first, days)
<1>1. /\ first \in Int /\ days \in Nat /\ days \in 1..MaxDays /\ first + (days - 1) = report.today
      /\ report.today \in Nat /\ report.pc = "daily"
  BY DEF ReadCurve, StatsStrong, ReportShape
<1>2. Stored \subseteq ClickIds /\ \A c \in Stored : clicked[c].at \in Nat
  BY StoredRows DEF StatsStrong
<1>3. ASSUME NEW i \in 0..(days - 1) PROVE curve[i] = Cardinality(OnDay(first + i))
  <2>1. \A c \in Stored : clicked[c].at \div 2 = first + i => clicked[c].at >= 2 * first
    BY <1>1, <1>2
  <2>2. OnDay(first + i) = {c \in InWindow : DayOf(clicked[c].at) = first + i}
    BY <2>1 DEF InWindow, DayOf
  <2>3. CASE \E c \in InWindow : DayOf(clicked[c].at) = first + i
    BY <2>2, <2>3 DEF FillDaily, Daily
  <2>4. CASE ~\E c \in InWindow : DayOf(clicked[c].at) = first + i
    <3>1. OnDay(first + i) = {}
      BY <2>2, <2>4
    <3>2. curve[i] = 0
      BY <2>4 DEF FillDaily, Daily
    <3> QED
      BY <3>1, <3>2, FS_EmptySet
  <2> QED
    BY <2>3, <2>4
<1>4. DOMAIN curve = 0..(days - 1)
  BY DEF FillDaily
<1>5. PICK S : S = Stored
  OBVIOUS
<1>6. PICK f : f = curve
  OBVIOUS
<1>7. /\ report' = [report EXCEPT !.pc = "device", !.seen = S, !.curve = f]
      /\ UNCHANGED <<half, zone, clicked>>
  BY <1>5, <1>6 DEF ReadCurve
<1>8. \A i \in DOMAIN f : f[i] = Cardinality({c \in S : clicked[c].at \div 2 = first + i})
  BY <1>3, <1>4, <1>5, <1>6
<1>9. DOMAIN f = 0..(days - 1)
  BY <1>4, <1>6
<1>10. /\ report' = [pc |-> "device", since |-> first, days |-> days, today |-> report.today, seen |-> S,
                     curve |-> f, device |-> report.device, country |-> report.country]
  <2> HIDE DEF curve
  <2> QED
    BY <1>7 DEF StatsStrong, ReportShape
<1>11. ReportShape(report)'
  <2>1. Cardinality(report.device) <= TopN /\ Cardinality(report.country) <= TopN
    BY DEF StatsStrong, ReportShape
  <2> HIDE DEF curve
  <2> QED
    BY <1>1, <1>9, <1>10, <2>1 DEF ReportShape, Known
<1>12. StatsShape'
  BY <1>5, <1>7, <1>10, ZenonT(60) DEF StatsStrong, StatsShape, Stored
<1>13. CurveIsExact'
  BY <1>7, <1>8, <1>10 DEF CurveIsExact
<1>14. BreakdownCoversCurve'
  BY <1>10 DEF BreakdownCoversCurve
<1> QED
  BY <1>11, <1>12, <1>13, <1>14 DEF StatsStrong

\* The buckets of a column over the window.
LEMMA DeviceTable ==
  ASSUME StatsStrong
  PROVE  /\ Cardinality(Top(Buckets(DeviceOf(InWindow)))) <= TopN
         /\ Cardinality(Top(Buckets(DeviceOf(InWindow)))) < TopN =>
              Total(Top(Buckets(DeviceOf(InWindow)))) = Cardinality(InWindow)
<1> DEFINE of == DeviceOf(InWindow)
<1>1. InWindow \subseteq Stored /\ IsFiniteSet(InWindow)
  BY StoredRows, FS_Subset DEF StatsStrong, InWindow
<1>2. DOMAIN of = InWindow
  BY DEF DeviceOf
<1>3. "unknown" \in BucketNames
  <2>1. 5 \in DOMAIN Names /\ Names[5] = "unknown"
    BY DEF Names
  <2> QED
    BY <2>1 DEF BucketNames
<1>4. \A c \in InWindow : of[c] \in BucketNames
  BY <1>1, <1>3, StoredRows, VisitsAssumption DEF DeviceOf, StatsStrong
<1> HIDE DEF of
<1>5. Buckets(of) \in Tables /\ IsFiniteSet(Buckets(of)) /\ Total(Buckets(of)) = Cardinality(InWindow)
  BY <1>1, <1>2, <1>4, BucketsCoverAll
<1>6. Cardinality(Top(Buckets(of))) <= TopN /\ (Cardinality(Top(Buckets(of))) < TopN => Top(Buckets(of)) = Buckets(of))
  BY <1>5, TopIsShort
<1> QED
  BY <1>5, <1>6 DEF of

LEMMA CountryTable ==
  ASSUME StatsStrong
  PROVE  Cardinality(Top(Buckets(CountryOf(InWindow)))) <= TopN
<1> DEFINE of == CountryOf(InWindow)
           D  == {k \in InWindow : clicked[k].of.country # ""}
<1>1. D \subseteq Stored /\ IsFiniteSet(D)
  BY StoredRows, FS_Subset DEF StatsStrong, InWindow
<1>2. DOMAIN of = D
  BY DEF CountryOf
<1>3. \A c \in D : of[c] \in BucketNames
  BY <1>1, StoredRows, VisitsAssumption DEF CountryOf, StatsStrong
<1> HIDE DEF of, D
<1>4. Buckets(of) \in Tables /\ IsFiniteSet(Buckets(of))
  BY <1>1, <1>2, <1>3, BucketsCoverAll
<1> QED
  BY <1>4, TopIsShort DEF of

\* Every click that the curve counts is in the window of the later queries.
LEMMA CurveIsInWindow ==
  ASSUME StatsStrong
  PROVE  OfCurve \in Nat /\ Cardinality(InWindow) \in Nat /\ OfCurve <= Cardinality(InWindow)
<1>1. InWindow \subseteq Stored /\ IsFiniteSet(InWindow)
  BY StoredRows, FS_Subset DEF StatsStrong, InWindow
<1>2. {c \in report.seen : InDays(c)} \subseteq InWindow
  <2>1. SUFFICES ASSUME NEW c \in report.seen, InDays(c) PROVE c \in InWindow
    OBVIOUS
  <2>2. c \in Stored /\ clicked[c].at \in Nat /\ report.since \in Int /\ report.days \in Nat
    BY StoredRows DEF StatsStrong, StatsShape, ReportShape
  <2>3. clicked[c].at \div 2 >= report.since
    BY <2>1, <2>2 DEF InDays
  <2> QED
    BY <2>2, <2>3 DEF InWindow
<1> QED
  BY <1>1, <1>2, FS_Subset, FS_CardinalityType DEF OfCurve

LEMMA DevicesStep == ASSUME StatsStrong, ReadDevices PROVE StatsStrong'
<1>1. PICK T : T = Top(Buckets(DeviceOf(InWindow)))
  OBVIOUS
<1>2. /\ report' = [pc |-> "country", since |-> report.since, days |-> report.days, today |-> report.today,
                    seen |-> report.seen, curve |-> report.curve, device |-> T, country |-> report.country]
      /\ report.pc = "device" /\ UNCHANGED <<half, zone, clicked>>
  BY <1>1 DEF ReadDevices, StatsStrong, ReportShape
<1>3. Cardinality(T) <= TopN /\ (Cardinality(T) < TopN => Total(T) = Cardinality(InWindow))
  BY <1>1, DeviceTable
<1>4. ReportShape(report)'
  BY <1>2, <1>3 DEF StatsStrong, ReportShape, Known
<1>5. StatsShape' /\ CurveIsExact'
  BY <1>2 DEF StatsStrong, StatsShape, Stored, CurveIsExact
<1>6. OfCurve' = OfCurve
  BY <1>2 DEF OfCurve, InDays
<1>7. BreakdownCoversCurve'
  <2>1. report'.device = T
    BY <1>2
  <2>2. Total(report.device)' = Total(T)
    BY <2>1 DEF Total, FoldSet, MapThenFoldSet
  <2> QED
    BY <1>3, <1>6, <2>1, <2>2, CurveIsInWindow DEF BreakdownCoversCurve
<1> QED
  BY <1>4, <1>5, <1>7 DEF StatsStrong

LEMMA CountriesStep == ASSUME StatsStrong, ReadCountries PROVE StatsStrong'
<1>1. PICK T : T = Top(Buckets(CountryOf(InWindow)))
  OBVIOUS
<1>2. /\ report' = [pc |-> "done", since |-> report.since, days |-> report.days, today |-> report.today,
                    seen |-> report.seen, curve |-> report.curve, device |-> report.device, country |-> T]
      /\ report.pc = "country" /\ UNCHANGED <<half, zone, clicked>>
  BY <1>1 DEF ReadCountries, StatsStrong, ReportShape
<1>3. ReportShape(report)'
  BY <1>1, <1>2, CountryTable DEF StatsStrong, ReportShape, Known
<1>4. StatsShape' /\ CurveIsExact'
  BY <1>2 DEF StatsStrong, StatsShape, Stored, CurveIsExact
<1>5. OfCurve' = OfCurve /\ report'.device = report.device
  BY <1>2 DEF OfCurve, InDays
<1>6. Total(report.device)' = Total(report.device)
  BY <1>5 DEF Total, FoldSet, MapThenFoldSet
<1>7. BreakdownCoversCurve'
  BY <1>2, <1>5, <1>6 DEF StatsStrong, BreakdownCoversCurve
<1> QED
  BY <1>3, <1>4, <1>7 DEF StatsStrong

\* What comes in later, or a new day, changes nothing of what was read.
LEMMA LaterStep ==
  ASSUME StatsStrong, UNCHANGED <<zone, report>>, half' \in FirstHalf..(FirstHalf + MaxHalves),
         clicked' \in [ClickIds -> ClickRows \cup {NotStored}],
         \A c \in Stored : clicked'[c] = clicked[c]
  PROVE  StatsStrong'
<1>1. \A c \in report.seen : c \in Stored /\ clicked'[c] = clicked[c] /\ clicked[c] # NotStored /\ c \in ClickIds
  BY DEF StatsStrong, StatsShape, Stored
<1>2. StatsShape' /\ ReportShape(report)'
  BY <1>1 DEF StatsStrong, StatsShape, ReportShape, Stored
<1>3. CurveIsExact'
  <2>1. \A i \in DOMAIN report.curve : {c \in report.seen : clicked'[c].at \div 2 = report.since + i}
                                    = {c \in report.seen : clicked[c].at \div 2 = report.since + i}
    BY <1>1
  <2> QED
    BY <2>1 DEF StatsStrong, CurveIsExact
<1>4. OfCurve' = OfCurve
  BY <1>1 DEF OfCurve, InDays
<1>5. Total(report.device)' = Total(report.device)
  BY DEF Total, FoldSet, MapThenFoldSet
<1>6. BreakdownCoversCurve'
  BY <1>4, <1>5 DEF StatsStrong, BreakdownCoversCurve
<1> QED
  BY <1>2, <1>3, <1>6 DEF StatsStrong

LEMMA WorldStep ==
  ASSUME StatsStrong, HalfDay \/ \E c \in ClickIds, row \in ClickRows : InsertClick(c, row)
  PROVE  StatsStrong'
<1>1. CASE HalfDay
  <2>1. half' \in FirstHalf..(FirstHalf + MaxHalves) /\ UNCHANGED <<zone, clicked, report>>
    BY <1>1, StatsAssumption DEF HalfDay, StatsStrong, StatsShape
  <2> QED
    BY <2>1, LaterStep DEF StatsStrong, StatsShape
<1>2. ASSUME NEW c \in ClickIds, NEW row \in ClickRows, InsertClick(c, row) PROVE StatsStrong'
  <2>1. /\ clicked' = [clicked EXCEPT ![c] = row] /\ clicked[c] = NotStored
        /\ UNCHANGED <<half, zone, report>>
    BY <1>2 DEF InsertClick
  <2>2. /\ clicked' \in [ClickIds -> ClickRows \cup {NotStored}]
        /\ \A k \in Stored : clicked'[k] = clicked[k]
    BY <2>1 DEF StatsStrong, StatsShape, Stored
  <2> QED
    BY <2>1, <2>2, LaterStep DEF StatsStrong, StatsShape
<1> QED
  BY <1>1, <1>2

\* The inductive invariant of a report.
THEOREM StatsInvariant == StatsSpec => []StatsStrong
<1>1. StatsInit => StatsStrong
  BY StatsStart
<1>2. StatsStrong /\ [StatsNext]_statsVars => StatsStrong'
  <2>1. ASSUME StatsStrong, UNCHANGED statsVars PROVE StatsStrong'
    <3>1. UNCHANGED <<half, zone, clicked, report>>
      BY <2>1 DEF statsVars
    <3> QED
      BY <2>1, <3>1, LaterStep DEF StatsStrong, StatsShape
  <2> QED
    BY <2>1, AskStep, CurveStep, DevicesStep, CountriesStep, StatsFailStep, WorldStep DEF StatsNext
<1> QED
  BY <1>1, <1>2, PTL DEF StatsSpec

\* service/stats.go, ForLink: every click of the window is in the curve on its UTC
\* day, the day of the request included, and a breakdown that names all its
\* buckets counts no fewer clicks than the curve.
THEOREM StatsAreTrue == StatsSpec => []StatsInv
<1>1. ASSUME StatsStrong PROVE StatsInv
  <2>1. StatsTypeOK
    BY <1>1, StoredRows DEF StatsStrong, StatsShape, ReportShape, Known, StatsTypeOK
  <2>2. TodayIsIn
    <3>1. SUFFICES ASSUME report.pc \in Known, NEW c \in report.seen, clicked[c].at \div 2 = report.today
                   PROVE  report.curve[report.days - 1] > 0
      BY DEF TodayIsIn, Known
    <3>2. /\ report.days \in Nat /\ report.days >= 1 /\ report.since \in Int
          /\ report.since + (report.days - 1) = report.today /\ DOMAIN report.curve = 0..(report.days - 1)
      BY <1>1, <3>1 DEF StatsStrong, ReportShape, Known
    <3> DEFINE last == {k \in report.seen : clicked[k].at \div 2 = report.since + (report.days - 1)}
    <3>3. report.curve[report.days - 1] = Cardinality(last)
      <4>1. report.days - 1 \in DOMAIN report.curve
        BY <3>2
      <4>2. \A i \in DOMAIN report.curve : report.curve[i] =
              Cardinality({k \in report.seen : clicked[k].at \div 2 = report.since + i})
        BY <1>1, <3>1 DEF StatsStrong, CurveIsExact, Known
      <4> QED
        BY <4>1, <4>2
    <3>4. c \in last
      BY <3>1, <3>2
    <3>5. IsFiniteSet(last)
      <4>1. IsFiniteSet(report.seen)
        BY <1>1, StoredRows, FS_Subset DEF StatsStrong, StatsShape
      <4> QED
        BY <4>1, FS_Subset
    <3> HIDE DEF last
    <3> QED
      BY <3>3, <3>4, <3>5, FS_EmptySet, FS_CardinalityType
  <2> QED
    BY <1>1, <2>1, <2>2 DEF StatsStrong, StatsInv
<1> QED
  BY <1>1, StatsInvariant, PTL

=============================================================================
