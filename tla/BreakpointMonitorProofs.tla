------------------------ MODULE BreakpointMonitorProofs ------------------------
(***************************************************************************)
(* Proofs about the breakpoint monitor of useBreakpoints, for every choice *)
(* of the four thresholds (in increasing order) and of the window widths:  *)
(* the type invariant, that a stale width always has a debounced re-read   *)
(* pending while the listener is registered, that the three flags          *)
(* partition every width in agreement with bp, and that the width the      *)
(* component holds is always classified consistently.                      *)
(***************************************************************************)
EXTENDS BreakpointMonitor, FiniteSetTheorems, TLAPS

USE BreakpointAssumption

LEMMA TypeInit == Init => TypeOK
<1> SUFFICES ASSUME Init PROVE TypeOK
  OBVIOUS
<1>1. innerWidth \in Widths /\ width \in Widths
  BY DEF Init
<1>2. listening \in BOOLEAN /\ debounce \in BOOLEAN
  BY Zenon DEF Init
<1>3. resizes \in 0..MaxResizes
  BY DEF Init
<1>. QED
  BY <1>1, <1>2, <1>3 DEF TypeOK

LEMMA TypeStep == TypeOK /\ [Next]_vars => TypeOK'
<1> SUFFICES ASSUME TypeOK, [Next]_vars PROVE TypeOK'
  OBVIOUS
<1>1. CASE Mount
  BY <1>1, Zenon DEF Mount, TypeOK
<1>2. CASE Unmount
  BY <1>2, Zenon DEF Unmount, TypeOK
<1>3. ASSUME NEW w \in Widths, Resize(w) PROVE TypeOK'
  BY <1>3 DEF Resize, TypeOK
<1>4. CASE DebounceFires
  BY <1>4, Zenon DEF DebounceFires, TypeOK
<1>5. CASE UNCHANGED vars
  BY <1>5 DEF vars, TypeOK
<1>. QED
  BY <1>1, <1>2, <1>3, <1>4, <1>5 DEF Next

(* The width ref of the monitor always holds a width of the window.        *)
THEOREM TypeCorrect == Spec => []TypeOK
BY TypeInit, TypeStep, PTL DEF Spec

(* PendingWhenStale is inductive: setup reads the window, a resize while  *)
(* listening arms the debounce, and only the debounced call that reads    *)
(* the window again or the removal of the listener disarm it.              *)
LEMMA PendingStep == PendingWhenStale /\ [Next]_vars => PendingWhenStale'
<1> SUFFICES ASSUME PendingWhenStale, [Next]_vars PROVE PendingWhenStale'
  OBVIOUS
<1>1. CASE Mount
  BY <1>1 DEF Mount, PendingWhenStale
<1>2. CASE Unmount
  BY <1>2 DEF Unmount, PendingWhenStale
<1>3. ASSUME NEW w \in Widths, Resize(w) PROVE PendingWhenStale'
  BY <1>3, Zenon DEF Resize, PendingWhenStale
<1>4. CASE DebounceFires
  BY <1>4 DEF DebounceFires, PendingWhenStale
<1>5. CASE UNCHANGED vars
  BY <1>5 DEF vars, PendingWhenStale
<1>. QED
  BY <1>1, <1>2, <1>3, <1>4, <1>5 DEF Next

(* While the resize listener of useBreakpoints is registered, a width ref *)
(* that differs from window.innerWidth always has its debounced           *)
(* onResizeEnd pending: no resize event is lost.                           *)
THEOREM StaleWidthPending == Spec => []PendingWhenStale
<1>1. Init => PendingWhenStale
  BY DEF Init, PendingWhenStale
<1>. QED
  BY <1>1, PendingStep, PTL DEF Spec

(* For every width, exactly one of isMobile, isTablet and isDesktop holds, *)
(* and isDesktop holds exactly when bp is LG or XL.                        *)
THEOREM FlagsPartition ==
  ASSUME NEW w \in Nat
  PROVE  /\ isMobile(w) \/ isTablet(w) \/ isDesktop(w)
         /\ ~(isMobile(w) /\ isTablet(w))
         /\ ~(isMobile(w) /\ isDesktop(w))
         /\ ~(isTablet(w) /\ isDesktop(w))
         /\ isDesktop(w) <=> bp(w) \in {"LG", "XL"}
<1>1. isMobile(w) \/ isTablet(w) \/ isDesktop(w)
  BY DEF isMobile, isTablet, isDesktop
<1>2. ~(isMobile(w) /\ isTablet(w)) /\ ~(isMobile(w) /\ isDesktop(w))
      /\ ~(isTablet(w) /\ isDesktop(w))
  BY DEF isMobile, isTablet, isDesktop
<1>3. isDesktop(w) <=> bp(w) \in {"LG", "XL"}
  BY DEF isDesktop, bp
<1>. QED
  BY <1>1, <1>2, <1>3


(* Adding a new element to a finite set adds one to its cardinality.      *)
LEMMA AddNew ==
  ASSUME NEW S, NEW x, IsFiniteSet(S), x \notin S
  PROVE  IsFiniteSet(S \cup {x}) /\ Cardinality(S \cup {x}) = Cardinality(S) + 1
BY FS_AddElement, Zenon

(* The number of thresholds reached, for each prefix of the increasing     *)
(* thresholds.                                                             *)
LEMMA ThresholdCounts ==
  /\ Cardinality({}) = 0
  /\ Cardinality({BREAKPOINT_SM}) = 1
  /\ Cardinality({BREAKPOINT_SM, BREAKPOINT_MD}) = 2
  /\ Cardinality({BREAKPOINT_SM, BREAKPOINT_MD, BREAKPOINT_LG}) = 3
  /\ Cardinality({BREAKPOINT_SM, BREAKPOINT_MD, BREAKPOINT_LG, BREAKPOINT_XL}) = 4
<1>0. Cardinality({}) = 0
  BY FS_EmptySet
<1>1. IsFiniteSet({BREAKPOINT_SM}) /\ Cardinality({BREAKPOINT_SM}) = 1
  BY FS_Singleton, Zenon
<1>2. IsFiniteSet({BREAKPOINT_SM, BREAKPOINT_MD})
      /\ Cardinality({BREAKPOINT_SM, BREAKPOINT_MD}) = 2
  <2>1. {BREAKPOINT_SM, BREAKPOINT_MD} = {BREAKPOINT_SM} \cup {BREAKPOINT_MD}
        /\ BREAKPOINT_MD \notin {BREAKPOINT_SM}
    OBVIOUS
  <2>2. IsFiniteSet({BREAKPOINT_SM} \cup {BREAKPOINT_MD})
        /\ Cardinality({BREAKPOINT_SM} \cup {BREAKPOINT_MD}) = Cardinality({BREAKPOINT_SM}) + 1
    BY <1>1, <2>1, AddNew
  <2>. QED
    BY <1>1, <2>1, <2>2
<1>3. IsFiniteSet({BREAKPOINT_SM, BREAKPOINT_MD, BREAKPOINT_LG})
      /\ Cardinality({BREAKPOINT_SM, BREAKPOINT_MD, BREAKPOINT_LG}) = 3
  <2>1. {BREAKPOINT_SM, BREAKPOINT_MD, BREAKPOINT_LG}
          = {BREAKPOINT_SM, BREAKPOINT_MD} \cup {BREAKPOINT_LG}
        /\ BREAKPOINT_LG \notin {BREAKPOINT_SM, BREAKPOINT_MD}
    OBVIOUS
  <2>2. IsFiniteSet({BREAKPOINT_SM, BREAKPOINT_MD} \cup {BREAKPOINT_LG})
        /\ Cardinality({BREAKPOINT_SM, BREAKPOINT_MD} \cup {BREAKPOINT_LG}) = Cardinality({BREAKPOINT_SM, BREAKPOINT_MD}) + 1
    BY <1>2, <2>1, AddNew
  <2>. QED
    BY <1>2, <2>1, <2>2
<1>4. Cardinality({BREAKPOINT_SM, BREAKPOINT_MD, BREAKPOINT_LG, BREAKPOINT_XL}) = 4
  <2>1. {BREAKPOINT_SM, BREAKPOINT_MD, BREAKPOINT_LG, BREAKPOINT_XL}
          = {BREAKPOINT_SM, BREAKPOINT_MD, BREAKPOINT_LG} \cup {BREAKPOINT_XL}
        /\ BREAKPOINT_XL \notin {BREAKPOINT_SM, BREAKPOINT_MD, BREAKPOINT_LG}
    OBVIOUS
  <2>2. IsFiniteSet({BREAKPOINT_SM, BREAKPOINT_MD, BREAKPOINT_LG} \cup {BREAKPOINT_XL})
        /\ Cardinality({BREAKPOINT_SM, BREAKPOINT_MD, BREAKPOINT_LG} \cup {BREAKPOINT_XL}) = Cardinality({BREAKPOINT_SM, BREAKPOINT_MD, BREAKPOINT_LG}) + 1
    BY <1>3, <2>1, AddNew
  <2>. QED
    BY <1>3, <2>1, <2>2
<1>. QED
  BY <1>0, <1>1, <1>2, <1>3, <1>4

(* bp ranks a width by the number of thresholds it reaches.                *)
LEMMA RankByThresholds ==
  ASSUME NEW w \in Nat
  PROVE  Rank[bp(w)] = Cardinality(ThresholdsReached(w))
<1>1. CASE w < BREAKPOINT_SM
  <2>1. ThresholdsReached(w) = {} /\ bp(w) = "XS"
    BY <1>1 DEF ThresholdsReached, bp
  <2>. QED
    BY <2>1, ThresholdCounts DEF Rank, Breakpoints
<1>2. CASE BREAKPOINT_SM <= w /\ w < BREAKPOINT_MD
  <2>1. ThresholdsReached(w) = {BREAKPOINT_SM} /\ bp(w) = "SM"
    BY <1>2 DEF ThresholdsReached, bp
  <2>. QED
    BY <2>1, ThresholdCounts DEF Rank, Breakpoints
<1>3. CASE BREAKPOINT_MD <= w /\ w < BREAKPOINT_LG
  <2>1. ThresholdsReached(w) = {BREAKPOINT_SM, BREAKPOINT_MD} /\ bp(w) = "MD"
    BY <1>3 DEF ThresholdsReached, bp
  <2>. QED
    BY <2>1, ThresholdCounts DEF Rank, Breakpoints
<1>4. CASE BREAKPOINT_LG <= w /\ w < BREAKPOINT_XL
  <2>1. ThresholdsReached(w) = {BREAKPOINT_SM, BREAKPOINT_MD, BREAKPOINT_LG}
        /\ bp(w) = "LG"
    BY <1>4 DEF ThresholdsReached, bp
  <2>. QED
    BY <2>1, ThresholdCounts DEF Rank, Breakpoints
<1>5. CASE BREAKPOINT_XL <= w
  <2>1. ThresholdsReached(w)
          = {BREAKPOINT_SM, BREAKPOINT_MD, BREAKPOINT_LG, BREAKPOINT_XL}
        /\ bp(w) = "XL"
    BY <1>5 DEF ThresholdsReached, bp
  <2>. QED
    BY <2>1, ThresholdCounts DEF Rank, Breakpoints
<1>. QED
  BY <1>1, <1>2, <1>3, <1>4, <1>5

(* Exactly one of the three flags holds for a width.                       *)
LEMMA OneFlag ==
  ASSUME NEW w \in Nat
  PROVE  Cardinality({i \in 1..3 : Flags(w)[i]}) = 1
<1>0. /\ Flags(w)[1] = isMobile(w)
      /\ Flags(w)[2] = isTablet(w)
      /\ Flags(w)[3] = isDesktop(w)
      /\ \A i \in 1..3 : i = 1 \/ i = 2 \/ i = 3
  BY DEF Flags
<1>1. \E k \in 1..3 : {i \in 1..3 : Flags(w)[i]} = {k}
  <2>1. CASE isMobile(w)
    <3>1. ~isTablet(w) /\ ~isDesktop(w)
      BY <2>1, FlagsPartition
    <3>2. ASSUME NEW i \in 1..3 PROVE Flags(w)[i] <=> i = 1
      <4>1. CASE i = 1
        BY <1>0, <2>1, <3>1, <4>1, Zenon
      <4>2. CASE i = 2
        BY <1>0, <2>1, <3>1, <4>2
      <4>3. CASE i = 3
        BY <1>0, <2>1, <3>1, <4>3
      <4>. QED
        BY <1>0, <4>1, <4>2, <4>3
    <3>3. {i \in 1..3 : Flags(w)[i]} = {1}
      BY <3>2
    <3>. QED
      BY <3>3
  <2>2. CASE isTablet(w)
    <3>1. ~isMobile(w) /\ ~isDesktop(w)
      BY <2>2, FlagsPartition
    <3>2. ASSUME NEW i \in 1..3 PROVE Flags(w)[i] <=> i = 2
      <4>1. CASE i = 1
        BY <1>0, <2>2, <3>1, <4>1
      <4>2. CASE i = 2
        BY <1>0, <2>2, <3>1, <4>2, Zenon
      <4>3. CASE i = 3
        BY <1>0, <2>2, <3>1, <4>3
      <4>. QED
        BY <1>0, <4>1, <4>2, <4>3
    <3>3. {i \in 1..3 : Flags(w)[i]} = {2}
      BY <3>2
    <3>. QED
      BY <3>3
  <2>3. CASE isDesktop(w)
    <3>1. ~isMobile(w) /\ ~isTablet(w)
      BY <2>3, FlagsPartition
    <3>2. ASSUME NEW i \in 1..3 PROVE Flags(w)[i] <=> i = 3
      <4>1. CASE i = 1
        BY <1>0, <2>3, <3>1, <4>1
      <4>2. CASE i = 2
        BY <1>0, <2>3, <3>1, <4>2
      <4>3. CASE i = 3
        BY <1>0, <2>3, <3>1, <4>3, Zenon
      <4>. QED
        BY <1>0, <4>1, <4>2, <4>3
    <3>3. {i \in 1..3 : Flags(w)[i]} = {3}
      BY <3>2
    <3>. QED
      BY <3>3
  <2>. QED
    BY <2>1, <2>2, <2>3, FlagsPartition
<1>. QED
  BY <1>1, FS_Singleton, Zenon

(* The width ref of useBreakpoints is classified consistently at all      *)
(* times: bp ranks it by the thresholds it reaches, exactly one of         *)
(* isMobile, isTablet and isDesktop holds, and isDesktop holds exactly on  *)
(* LG and XL (spec 4.1 and 8), for every choice of increasing thresholds.  *)
THEOREM ClassificationAlways == Spec => []ClassificationConsistent
<1>1. TypeOK => ClassificationConsistent
  <2> SUFFICES ASSUME TypeOK PROVE ClassificationConsistent
    OBVIOUS
  <2>1. width \in Nat
    BY DEF TypeOK
  <2>. QED
    BY <2>1, RankByThresholds, OneFlag, FlagsPartition DEF ClassificationConsistent
<1>. QED
  BY <1>1, TypeCorrect, PTL

=============================================================================
