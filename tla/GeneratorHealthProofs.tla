------------------------- MODULE GeneratorHealthProofs -------------------------
(***************************************************************************)
(* Proofs about GeneratorHealth, for every window and lists of any length: *)
(* the newest outcome moves the status its own way, and a streak of half   *)
(* the window decides it.                                                  *)
(***************************************************************************)
EXTENDS GeneratorHealth, FiniteSetTheorems, TLAPS

LEMMA TypeCorrect == Calls => [](l2_passes \in Seq(BOOLEAN))
<1>1. InitCalls => l2_passes \in Seq(BOOLEAN)
  BY DEF InitCalls
<1>2. l2_passes \in Seq(BOOLEAN) /\ [NextCall]_l2_passes => (l2_passes \in Seq(BOOLEAN))'
  <2> SUFFICES ASSUME l2_passes \in Seq(BOOLEAN), [NextCall]_l2_passes
               PROVE  l2_passes' \in Seq(BOOLEAN)
    OBVIOUS
  <2>1. CASE Another
    BY <2>1 DEF Another
  <2>2. ASSUME NEW passed \in BOOLEAN, Outcome(passed) PROVE l2_passes' \in Seq(BOOLEAN)
    <3>1. l2_passes' = Append(l2_passes, passed)
      BY <2>2 DEF Outcome
    <3>2. Append(l2_passes, passed) \in Seq(BOOLEAN)
      OBVIOUS
    <3> QED BY <3>1, <3>2
  <2>3. CASE UNCHANGED l2_passes
    BY <2>3
  <2> QED BY <2>1, <2>2, <2>3 DEF NextCall
<1> QED BY <1>1, <1>2, PTL DEF Calls

-----------------------------------------------------------------------------
(* What one more outcome does to the verdict over a sliding window.        *)

LEMMA RecentFinite ==
  ASSUME NEW s \in Seq(BOOLEAN)
  PROVE  /\ IsFiniteSet(Recent(s)) /\ IsFiniteSet(RecentPasses(s))
         /\ Cardinality(Recent(s)) \in Nat /\ Cardinality(RecentPasses(s)) \in Nat
         /\ Cardinality(RecentPasses(s)) <= Cardinality(Recent(s))
<1>1. IsFiniteSet(1..Len(s))
  BY FS_Interval
<1>2. Recent(s) \subseteq 1..Len(s)
  BY DEF Recent
<1>3. RecentPasses(s) \subseteq Recent(s)
  BY DEF RecentPasses
<1> QED BY <1>1, <1>2, <1>3, FS_Subset, FS_CardinalityType

(* The window gains the new position and, once it is full, loses its       *)
(* first.                                                                  *)
LEMMA WindowSlides ==
  ASSUME NEW s \in Seq(BOOLEAN), NEW ok \in BOOLEAN, NEW lost, lost = Len(s) + 1 - Window
  PROVE  LET t == Append(s, ok)
             last == Len(s) + 1 IN
         /\ last \notin Recent(s)
         /\ lost \in Recent(s) <=> Len(s) >= Window
         /\ Recent(t) = (Recent(s) \ {lost}) \cup {last}
         /\ RecentPasses(t) =
              (RecentPasses(s) \ {lost}) \cup (IF ok THEN {last} ELSE {})
<1> DEFINE t == Append(s, ok)
           last == Len(s) + 1
<1>1. /\ t \in Seq(BOOLEAN) /\ Len(t) = last /\ t[last] = ok
      /\ \A i \in 1..Len(s) : t[i] = s[i]
      /\ DOMAIN s = 1..Len(s) /\ DOMAIN t = 1..last
      /\ Len(s) \in Nat /\ Window \in Nat \ {0}
  BY WindowAssumption
<1>2. Recent(s) = {i \in 1..Len(s) : i + Window > Len(s)}
  BY <1>1 DEF Recent
<1>3. Recent(t) = {i \in 1..last : i + Window > last}
  BY <1>1 DEF Recent
<1> HIDE DEF t
<1>4. Recent(t) = (Recent(s) \ {lost}) \cup {last}
  BY <1>1, <1>2, <1>3
<1>5. last \notin Recent(s) /\ (lost \in Recent(s) <=> Len(s) >= Window)
  BY <1>1, <1>2
<1>6. RecentPasses(t) = (RecentPasses(s) \ {lost}) \cup (IF ok THEN {last} ELSE {})
  <2>1. last # lost
    BY <1>1
  <2>2. \A i \in Recent(s) : t[i] = s[i]
    BY <1>1, <1>2
  <2> QED BY <1>1, <1>4, <1>5, <2>1, <2>2 DEF RecentPasses
<1> QED BY <1>4, <1>5, <1>6 DEF t

(* In numbers: a full window keeps its size, and a pass never lowers its   *)
(* passes, a failure never raises them.                                    *)
LEMMA WindowCounts ==
  ASSUME NEW s \in Seq(BOOLEAN), NEW ok \in BOOLEAN
  PROVE  LET t == Append(s, ok)
             size == Cardinality(Recent(s))
             passes == Cardinality(RecentPasses(s)) IN
         \/ /\ Cardinality(Recent(t)) = size + 1
            /\ Cardinality(RecentPasses(t)) = IF ok THEN passes + 1 ELSE passes
         \/ /\ Cardinality(Recent(t)) = size
            /\ IF ok THEN Cardinality(RecentPasses(t)) >= passes
               ELSE Cardinality(RecentPasses(t)) <= passes
<1> DEFINE t == Append(s, ok)
           last == Len(s) + 1
           lost == Len(s) + 1 - Window
           kept == Recent(s) \ {lost}
           keptPasses == RecentPasses(s) \ {lost}
<1>1. /\ last \notin Recent(s)
      /\ Recent(t) = kept \cup {last}
      /\ RecentPasses(t) = keptPasses \cup (IF ok THEN {last} ELSE {})
  BY WindowSlides
<1>2. last \notin keptPasses /\ last \notin kept
  BY <1>1 DEF RecentPasses
<1>3. /\ IsFiniteSet(Recent(s)) /\ IsFiniteSet(RecentPasses(s))
      /\ Cardinality(Recent(s)) \in Nat /\ Cardinality(RecentPasses(s)) \in Nat
  BY RecentFinite
<1>4. /\ IsFiniteSet(kept)
      /\ Cardinality(kept) =
           IF lost \in Recent(s) THEN Cardinality(Recent(s)) - 1 ELSE Cardinality(Recent(s))
  BY <1>3, FS_RemoveElement
<1>5. /\ IsFiniteSet(keptPasses)
      /\ Cardinality(keptPasses) =
           IF lost \in RecentPasses(s) THEN Cardinality(RecentPasses(s)) - 1
           ELSE Cardinality(RecentPasses(s))
  BY <1>3, FS_RemoveElement
<1>6. Cardinality(Recent(t)) = Cardinality(kept) + 1
  BY <1>1, <1>2, <1>4, FS_AddElement
<1>7. Cardinality(RecentPasses(t)) =
        IF ok THEN Cardinality(keptPasses) + 1 ELSE Cardinality(keptPasses)
  <2>1. CASE ok
    BY <1>1, <1>2, <1>5, <2>1, FS_AddElement
  <2>2. CASE ~ok
    <3>1. RecentPasses(t) = keptPasses
      BY <1>1, <2>2
    <3> QED BY <2>2, <3>1
  <2> QED BY <2>1, <2>2
<1>8. lost \in RecentPasses(s) => lost \in Recent(s)
  BY DEF RecentPasses
<1> HIDE DEF t, kept, keptPasses, lost, last
<1> DEFINE size == Cardinality(Recent(s))
           passes == Cardinality(RecentPasses(s))
<1>9. size \in Nat /\ passes \in Nat
  BY <1>3
<1> HIDE DEF size, passes
<1>10. \/ /\ Cardinality(Recent(t)) = size + 1
          /\ Cardinality(RecentPasses(t)) = IF ok THEN passes + 1 ELSE passes
       \/ /\ Cardinality(Recent(t)) = size
          /\ IF ok THEN Cardinality(RecentPasses(t)) >= passes
             ELSE Cardinality(RecentPasses(t)) <= passes
  BY <1>4, <1>5, <1>6, <1>7, <1>8, <1>9 DEF size, passes
<1> QED BY <1>10 DEF t, size, passes

(* Hence the verdict moves only the outcome's way, and the first verdict   *)
(* is the outcome's.                                                       *)
LEMMA VerdictFollowsOutcome ==
  ASSUME NEW s \in Seq(BOOLEAN), NEW ok \in BOOLEAN,
         s = <<>> \/ Status(Append(s, ok)) # Status(s)
  PROVE  ok = (Status(Append(s, ok)) = "healthy")
<1> DEFINE size == Cardinality(Recent(s))
           passes == Cardinality(RecentPasses(s))
           newSize == Cardinality(Recent(Append(s, ok)))
           newPasses == Cardinality(RecentPasses(Append(s, ok)))
<1>1. /\ size \in Nat /\ passes \in Nat /\ newSize \in Nat /\ newPasses \in Nat
      /\ passes <= size
  <2>1. Append(s, ok) \in Seq(BOOLEAN)
    OBVIOUS
  <2> QED BY <2>1, RecentFinite
<1>2. \/ newSize = size + 1 /\ newPasses = IF ok THEN passes + 1 ELSE passes
      \/ newSize = size /\ IF ok THEN newPasses >= passes ELSE newPasses <= passes
  BY WindowCounts
<1>3. /\ Status(s) = IF 2 * passes < size THEN "generator_quarantine" ELSE "healthy"
      /\ Status(Append(s, ok)) =
           IF 2 * newPasses < newSize THEN "generator_quarantine" ELSE "healthy"
  BY DEF Status
<1>4. s = <<>> => size = 0 /\ passes = 0 /\ newSize = 1
  <2> SUFFICES ASSUME s = <<>> PROVE size = 0 /\ passes = 0 /\ newSize = 1
    OBVIOUS
  <2>1. Recent(s) = {} /\ RecentPasses(s) = {}
    BY DEF Recent, RecentPasses
  <2>2. Recent(Append(s, ok)) = {1}
    BY WindowAssumption DEF Recent
  <2> QED BY <2>1, <2>2, FS_EmptySet, FS_Singleton
<1> HIDE DEF size, passes, newSize, newPasses
<1> QED BY <1>1, <1>2, <1>3, <1>4

(* One outcome more never moves the status the other way, for any window   *)
(* and any lists of outcomes (tuning.py: evaluate).                        *)
THEOREM OutcomeMovesHealth == Calls => OutcomeMovesHealthItsWay
<1> DEFINE ItsWay == \A passed \in BOOLEAN : Outcome(passed) =>
      Status(l2_passes') \in
        {Status(l2_passes), IF passed THEN "healthy" ELSE "generator_quarantine"}
<1>1. ASSUME l2_passes \in Seq(BOOLEAN), [NextCall]_l2_passes PROVE [ItsWay]_l2_passes
  <2> SUFFICES ASSUME NEW passed \in BOOLEAN, Outcome(passed)
               PROVE Status(l2_passes') \in
                 {Status(l2_passes), IF passed THEN "healthy" ELSE "generator_quarantine"}
    OBVIOUS
  <2>1. l2_passes' = Append(l2_passes, passed)
    BY DEF Outcome
  <2>2. Status(l2_passes') # Status(l2_passes) => passed = (Status(l2_passes') = "healthy")
    BY <1>1, <2>1, VerdictFollowsOutcome
  <2>3. Status(l2_passes') \in {"healthy", "generator_quarantine"}
    BY DEF Status
  <2> QED BY <2>2, <2>3
<1> QED BY <1>1, TypeCorrect, PTL DEF Calls, OutcomeMovesHealthItsWay

-----------------------------------------------------------------------------
(* The k newest outcomes as positions, and the size of the window. *)
Newest(s, k) == {i \in 1..Len(s) : i + k > Len(s)}

LEMMA NewestCount ==
  ASSUME NEW s \in Seq(BOOLEAN), NEW k \in Nat, k <= Len(s)
  PROVE  IsFiniteSet(Newest(s, k)) /\ Cardinality(Newest(s, k)) = k
<1>1. Len(s) \in Nat
  OBVIOUS
<1>2. Newest(s, k) = (Len(s) - k + 1)..Len(s)
  BY <1>1 DEF Newest
<1> QED BY <1>1, <1>2, FS_Interval

LEMMA WindowSize ==
  ASSUME NEW s \in Seq(BOOLEAN)
  PROVE  /\ Recent(s) = Newest(s, Window)
         /\ Len(s) <= Window => Recent(s) = Newest(s, Len(s))
         /\ Cardinality(Recent(s)) = IF Len(s) <= Window THEN Len(s) ELSE Window
<1>1. Len(s) \in Nat /\ DOMAIN s = 1..Len(s) /\ Window \in Nat
  BY WindowAssumption
<1>2. Recent(s) = Newest(s, Window)
  BY <1>1 DEF Recent, Newest
<1>3. Len(s) <= Window => Newest(s, Window) = Newest(s, Len(s))
  BY <1>1 DEF Newest
<1> QED BY <1>1, <1>2, <1>3, NewestCount

(* As many passes in a row as make half the window clear a generator, more *)
(* failures in a row than that condemn it, whatever went before, for any   *)
(* window and any lists of outcomes (tuning.py: evaluate).                 *)
LEMMA StreakDecidesStatus ==
  ASSUME NEW s \in Seq(BOOLEAN), NEW k \in 1..Len(s)
  PROVE  /\ 2 * k >= Window /\ Streak(s, k, TRUE) => Status(s) = "healthy"
         /\ 2 * k > Window /\ Streak(s, k, FALSE) => Status(s) = "generator_quarantine"
<1> DEFINE size == Cardinality(Recent(s))
           passes == Cardinality(RecentPasses(s))
<1>1. ASSUME 2 * k >= Window, Streak(s, k, TRUE)
      PROVE  Status(s) = "healthy"
  <2>1. /\ Len(s) \in Nat /\ DOMAIN s = 1..Len(s) /\ Window \in Nat
        /\ size \in Nat /\ passes \in Nat /\ IsFiniteSet(RecentPasses(s))
    BY <1>1, WindowAssumption, RecentFinite
  <2>2. CASE k <= Window
    <3>1. Newest(s, k) \subseteq RecentPasses(s)
      BY <1>1, <2>1, <2>2 DEF Newest, Streak, Recent, RecentPasses
    <3>2. Cardinality(Newest(s, k)) = k
      BY <1>1, NewestCount
    <3>3. k <= passes
      BY <2>1, <3>1, <3>2, FS_Subset
    <3>4. size <= Window
      BY <1>1, <2>1, WindowSize
    <3> QED BY <1>1, <2>1, <3>3, <3>4 DEF Status
  <2>3. CASE k > Window
    <3>1. RecentPasses(s) = Recent(s)
      BY <1>1, <2>1, <2>3 DEF Streak, Recent, RecentPasses
    <3> QED BY <2>1, <3>1 DEF Status
  <2> QED BY <1>1, <2>1, <2>2, <2>3
<1>2. ASSUME 2 * k > Window, Streak(s, k, FALSE)
      PROVE  Status(s) = "generator_quarantine"
  <2>1. /\ Len(s) \in Nat \ {0} /\ DOMAIN s = 1..Len(s) /\ Window \in Nat \ {0}
        /\ size \in Nat /\ passes \in Nat /\ IsFiniteSet(Recent(s))
    BY <1>2, WindowAssumption, RecentFinite
  <2>2. size = IF Len(s) <= Window THEN Len(s) ELSE Window
    BY <1>2, WindowSize
  <2>3. CASE k <= Window
    <3>1. Newest(s, k) \subseteq Recent(s) /\ RecentPasses(s) \subseteq Recent(s) \ Newest(s, k)
      BY <1>2, <2>1, <2>3 DEF Newest, Streak, Recent, RecentPasses
    <3>2. IsFiniteSet(Newest(s, k)) /\ Cardinality(Newest(s, k)) = k
      BY <1>2, NewestCount
    <3>3. /\ IsFiniteSet(Recent(s) \ Newest(s, k))
          /\ Cardinality(Recent(s) \ Newest(s, k)) = size - k
      <4>1. Recent(s) \cap Newest(s, k) = Newest(s, k)
        BY <3>1
      <4>2. Cardinality(Recent(s) \ Newest(s, k)) =
              Cardinality(Recent(s)) - Cardinality(Recent(s) \cap Newest(s, k))
        BY <2>1, FS_Difference
      <4> QED BY <2>1, <3>2, <4>1, <4>2, FS_Subset
    <3>4. passes <= size - k
      BY <3>1, <3>3, FS_Subset
    <3> QED BY <1>2, <2>1, <2>2, <3>4 DEF Status
  <2>4. CASE k > Window
    <3>1. RecentPasses(s) = {}
      BY <1>2, <2>1, <2>4 DEF Streak, Recent, RecentPasses
    <3>2. passes = 0
      BY <3>1, FS_EmptySet
    <3> QED BY <2>1, <2>2, <3>2 DEF Status
  <2> QED BY <1>2, <2>1, <2>3, <2>4
<1> QED BY <1>1, <1>2

(* The verdict of every call obeys it (tuning.py: evaluate).               *)
THEOREM StreakDecides == Calls => []StreakDecidesHealth
<1>1. l2_passes \in Seq(BOOLEAN) => StreakDecidesHealth
  BY StreakDecidesStatus DEF StreakDecidesHealth
<1> QED BY <1>1, TypeCorrect, PTL
=============================================================================
