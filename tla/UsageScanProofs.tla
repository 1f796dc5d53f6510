--------------------------- MODULE UsageScanProofs ---------------------------
(***************************************************************************)
(* Proofs about UsageScan.  First the bookkeeping of IndexMany: which      *)
(* dependencies are resolved, in which group they are and what they are    *)
(* answered.                                                               *)
(***************************************************************************)
EXTENDS UsageScan, Induction, SequenceTheorems

LEMMA TailOfDistinct ==
  ASSUME NEW S, NEW s \in Seq(S), s # <<>>,
         \A i, j \in DOMAIN s : s[i] = s[j] => i = j
  PROVE  /\ Tail(s) \in Seq(S)
         /\ \A i, j \in DOMAIN Tail(s) : Tail(s)[i] = Tail(s)[j] => i = j
         /\ Range(Tail(s)) = Range(s) \ {Head(s)}
<1> DEFINE t == Tail(s)
<1>1. /\ t \in Seq(S) /\ DOMAIN t = 1..(Len(s) - 1) /\ DOMAIN s = 1..Len(s)
      /\ Len(s) \in Nat \ {0} /\ Head(s) = s[1]
      /\ \A i \in 1..(Len(s) - 1) : t[i] = s[i + 1]
  <2>1. DOMAIN s = 1..Len(s) /\ Len(s) \in Nat \ {0} /\ Head(s) = s[1]
    OBVIOUS
  <2>2. t \in Seq(S) /\ Len(t) = Len(s) - 1 /\ \A i \in 1..Len(t) : t[i] = s[i + 1]
    BY HeadTailProperties
  <2>3. DOMAIN t = 1..Len(t)
    BY <2>2
  <2> HIDE DEF t
  <2> QED BY <2>1, <2>2, <2>3
<1> HIDE DEF t
<1>2. ASSUME NEW i \in DOMAIN t, NEW j \in DOMAIN t, t[i] = t[j] PROVE i = j
  <2>1. i + 1 \in DOMAIN s /\ j + 1 \in DOMAIN s /\ s[i + 1] = s[j + 1]
    BY <1>1, <1>2
  <2> QED BY <1>1, <2>1
<1>3. ASSUME NEW x \in Range(t) PROVE x \in Range(s) \ {Head(s)}
  <2>1. PICK i \in 1..(Len(s) - 1) : x = t[i]
    BY <1>1 DEF Range
  <2>2. i + 1 \in DOMAIN s /\ 1 \in DOMAIN s /\ i + 1 # 1 /\ x = s[i + 1]
    BY <2>1, <1>1
  <2> QED BY <2>2, <1>1 DEF Range
<1>4. ASSUME NEW x \in Range(s) \ {Head(s)} PROVE x \in Range(t)
  <2>1. PICK i \in 1..Len(s) : x = s[i] /\ i # 1
    BY <1>1 DEF Range
  <2>2. i - 1 \in DOMAIN t /\ t[i - 1] = x
    BY <2>1, <1>1
  <2> QED BY <2>2 DEF Range
<1> QED BY <1>1, <1>2, <1>3, <1>4 DEF t

LEMMA AppendOfNew ==
  ASSUME NEW S, NEW s \in Seq(S), NEW x \in S
  PROVE  /\ Append(s, x) \in Seq(S)
         /\ Range(Append(s, x)) = Range(s) \cup {x}
         /\ (x \notin Range(s) /\ \A i, j \in DOMAIN s : s[i] = s[j] => i = j) =>
              \A i, j \in DOMAIN Append(s, x) : Append(s, x)[i] = Append(s, x)[j] => i = j
<1> DEFINE t == Append(s, x)
<1>1. /\ t \in Seq(S) /\ DOMAIN t = 1..(Len(s) + 1) /\ DOMAIN s = 1..Len(s)
      /\ Len(s) \in Nat /\ t[Len(s) + 1] = x
      /\ \A i \in 1..Len(s) : t[i] = s[i]
  OBVIOUS
<1> HIDE DEF t
<1>2. Range(t) = Range(s) \cup {x}
  BY <1>1 DEF Range
<1>3. (x \notin Range(s) /\ \A i, j \in DOMAIN s : s[i] = s[j] => i = j) =>
         \A i, j \in DOMAIN t : t[i] = t[j] => i = j
  BY <1>1 DEF Range
<1> QED BY <1>1, <1>2, <1>3 DEF t

-----------------------------------------------------------------------------
(* The inductive invariant of the bookkeeping.                             *)

Walking == {"file", "imports", "activations", "refs"}

Asked(d) == \E i \in 1..(next - 1) : requests[i] = d

ScanTypes ==
  /\ requests \in Requests /\ tree \in Trees
  /\ groups \in [Ecosystems -> Seq(Deps)] /\ order \in Seq(Ecosystems)
  /\ pc \in {"imports", "activations", "refs"} => file \in 1..Len(tree)

(* A group has the resolved dependencies of its ecosystem, and order has   *)
(* every ecosystem with a group once, until its walk is over.              *)
GroupInv ==
  /\ \A d \in Deps, e \in Ecosystems :
       d \in Range(groups[e]) <=> Ecosystem[d] = e /\ d \notin Unresolvable /\ Asked(d)
  /\ \A i, j \in DOMAIN order : order[i] = order[j] => i = j
  /\ pc = "resolve" => \A e \in Ecosystems : e \in Range(order) <=> groups[e] # <<>>
  /\ pc \in Walking => order # <<>>
  /\ pc = "done" => order = <<>>

Answer(d) ==
  IF ~ Asked(d) THEN "none"
  ELSE IF d \in Unresolvable THEN "error"
  ELSE IF pc = "resolve" \/ Ecosystem[d] \in Range(order) THEN "none" ELSE "surface"

AnswerInv ==
  /\ pc # "stopped" => \A d \in Deps : results[d] = Answer(d)
  /\ pc \notin {"resolve", "stopped"} => next = Len(requests) + 1

ScanInv == TypeOK /\ ScanTypes /\ GroupInv /\ AnswerInv

LEMMA InputTypes ==
  ASSUME requests \in Requests, tree \in Trees
  PROVE  /\ requests \in Seq(Deps) /\ Len(requests) \in Nat
         /\ \A i \in 1..Len(requests) : requests[i] \in Deps
         /\ tree \in Seq(Range(tree)) /\ Len(tree) \in Nat /\ DOMAIN tree = 1..Len(tree)
<1>1. requests \in Seq(Deps) /\ tree \in Seq(Range(tree))
  BY UsageScanAssumption DEF IsSequence
<1> QED BY <1>1

LEMMA EcosystemType == \A d \in Deps : Ecosystem[d] \in Ecosystems
BY DEF Ecosystems

LEMMA ScanInit == Init => ScanInv
<1> SUFFICES ASSUME Init PROVE ScanInv
  OBVIOUS
<1> USE DEF Init
<1>1. Len(requests) \in Nat /\ Len(tree) \in Nat
  BY InputTypes
<1>2. TypeOK
  <2>1. 1 \in 1..(Len(requests) + 1) /\ 1 \in 1..(Len(tree) + 1)
    BY <1>1
  <2>2. \A e \in Ecosystems : groups[e] = <<>>
    OBVIOUS
  <2>3. \A e \in Ecosystems : \A i \in DOMAIN groups[e] : groups[e][i] \in Deps \ Unresolvable
    BY <2>2
  <2>4. results \in [Deps -> {"none", "error", "surface"}]
    OBVIOUS
  <2> QED BY <2>1, <2>3, <2>4 DEF TypeOK
<1>3. ScanTypes
  BY DEF ScanTypes
<1>4. ~ \E d : Asked(d)
  BY DEF Asked
<1>5. GroupInv
  BY <1>4 DEF GroupInv, Range, Walking
<1>6. AnswerInv
  BY <1>4 DEF AnswerInv, Answer
<1> QED BY <1>2, <1>3, <1>5, <1>6 DEF ScanInv

(* The steps that leave the bookkeeping alone.                             *)
LEMMA BookkeepingKept ==
  ASSUME ScanInv, UNCHANGED <<inputs, next, order, groups, results>>,
         cancelled' \in BOOLEAN, file' \in 1..(Len(tree) + 1),
         \/ pc \in Walking /\ pc' \in Walking
         \/ pc' = pc,
         pc' \in {"imports", "activations", "refs"} => file' \in 1..Len(tree)
  PROVE  ScanInv'
<1>0. requests' = requests /\ tree' = tree
  BY DEF inputs
<1>1. TypeOK'
  BY <1>0 DEF ScanInv, TypeOK, Walking
<1>2. ScanTypes'
  BY <1>0 DEF ScanInv, ScanTypes
<1>3. \A d : Asked(d)' = Asked(d)
  BY <1>0 DEF Asked
<1>4. GroupInv'
  BY <1>3 DEF ScanInv, GroupInv, Walking
<1>5. \A d : Answer(d)' = Answer(d)
  BY <1>3 DEF Answer, Walking
<1>6. AnswerInv'
  BY <1>0, <1>5 DEF ScanInv, AnswerInv, Walking
<1> QED BY <1>1, <1>2, <1>4, <1>6 DEF ScanInv

LEMMA StopStep ==
  ASSUME ScanInv, Stop
  PROVE  ScanInv'
<1>0. requests' = requests /\ tree' = tree /\ next' = next /\ order' = order /\ groups' = groups
  BY DEF Stop, inputs
<1>1. TypeOK'
  BY <1>0 DEF ScanInv, TypeOK, Stop
<1>2. ScanTypes'
  BY <1>0 DEF ScanInv, ScanTypes, Stop
<1>3. \A d : Asked(d)' = Asked(d)
  BY <1>0 DEF Asked
<1>4. GroupInv'
  BY <1>0, <1>3 DEF ScanInv, GroupInv, Walking, Stop
<1>5. AnswerInv'
  BY DEF AnswerInv, Stop
<1> QED BY <1>1, <1>2, <1>4, <1>5 DEF ScanInv

LEMMA ResolveStep ==
  ASSUME ScanInv, Resolve
  PROVE  ScanInv'
<1> DEFINE d == requests[next]
           e == Ecosystem[d]
<1>0. /\ requests' = requests /\ tree' = tree /\ pc' = pc /\ pc = "resolve" /\ file' = file
      /\ cancelled' = cancelled /\ next' = next + 1 /\ next \in 1..Len(requests)
  BY DEF Resolve, inputs, ScanInv, TypeOK
<1>1. d \in Deps /\ e \in Ecosystems /\ Len(requests) \in Nat
  BY <1>0, InputTypes, EcosystemType DEF ScanInv, ScanTypes
<1>2. (\E i \in 1..(next - 1) : requests[i] = d) <=> Asked(d)
  BY DEF Asked
<1>3. results' = IF d \in Unresolvable THEN [results EXCEPT ![d] = "error"] ELSE results
  BY DEF Resolve
<1>4. IF Asked(d) \/ d \in Unresolvable THEN UNCHANGED <<groups, order>>
      ELSE /\ groups' = [groups EXCEPT ![e] = Append(@, d)]
           /\ order' = IF groups[e] = <<>> THEN Append(order, e) ELSE order
  BY DEF Resolve, Asked
<1> HIDE DEF d, e
<1>5. ASSUME NEW x PROVE Asked(x)' <=> Asked(x) \/ x = d
  BY <1>0, <1>1 DEF Asked, d
<1>6. TypeOK' /\ ScanTypes' /\ GroupInv'
  <2>1. CASE Asked(d) \/ d \in Unresolvable
    <3>1. groups' = groups /\ order' = order
      BY <2>1, <1>4
    <3>2. TypeOK'
      BY <3>1, <1>0, <1>1, <1>3 DEF ScanInv, TypeOK
    <3>3. ScanTypes'
      BY <3>1, <1>0 DEF ScanInv, ScanTypes
    <3>4. GroupInv'
      BY <3>1, <2>1, <1>0, <1>5 DEF ScanInv, GroupInv, Walking
    <3> QED BY <3>2, <3>3, <3>4
  <2>2. CASE ~ (Asked(d) \/ d \in Unresolvable)
    <3>1. /\ groups \in [Ecosystems -> Seq(Deps)] /\ order \in Seq(Ecosystems)
          /\ groups' = [groups EXCEPT ![e] = Append(groups[e], d)]
          /\ order' = IF groups[e] = <<>> THEN Append(order, e) ELSE order
      BY <2>2, <1>4 DEF ScanInv, ScanTypes
    <3>2. /\ Append(groups[e], d) \in Seq(Deps) /\ Append(order, e) \in Seq(Ecosystems)
          /\ Range(Append(groups[e], d)) = Range(groups[e]) \cup {d}
          /\ Range(Append(order, e)) = Range(order) \cup {e}
          /\ Append(groups[e], d) # <<>>
      BY <3>1, <1>1, AppendOfNew
    <3>3. /\ groups' \in [Ecosystems -> Seq(Deps)]
          /\ groups'[e] = Append(groups[e], d)
          /\ \A x \in Ecosystems : x # e => groups'[x] = groups[x]
      BY <3>1, <3>2, <1>1
    <3>4. /\ order' \in Seq(Ecosystems)
          /\ Range(order') = IF groups[e] = <<>> THEN Range(order) \cup {e} ELSE Range(order)
          /\ \A i, j \in DOMAIN order' : order'[i] = order'[j] => i = j
      <4>1. CASE groups[e] = <<>>
        <5>1. e \notin Range(order) /\ \A i, j \in DOMAIN order : order[i] = order[j] => i = j
          BY <4>1, <1>0, <1>1 DEF ScanInv, GroupInv
        <5>2. order' = Append(order, e)
          BY <3>1, <4>1
        <5>3. \A i, j \in DOMAIN order' : order'[i] = order'[j] => i = j
          BY <5>1, <5>2, <3>1, <1>1, AppendOfNew
        <5> QED BY <5>2, <5>3, <3>2, <4>1
      <4>2. CASE groups[e] # <<>>
        BY <3>1, <4>2 DEF ScanInv, GroupInv
      <4> QED BY <4>1, <4>2
    <3>5. TypeOK'
      <4>1. \A x \in Ecosystems : \A i \in DOMAIN groups'[x] : groups'[x][i] \in Deps \ Unresolvable
        <5> SUFFICES ASSUME NEW x \in Ecosystems, NEW i \in DOMAIN groups'[x]
                     PROVE  groups'[x][i] \in Deps \ Unresolvable
          OBVIOUS
        <5>1. groups'[x][i] \in Range(groups'[x])
          BY DEF Range
        <5>2. Range(groups[x]) \subseteq Deps \ Unresolvable
          BY DEF ScanInv, TypeOK, Range
        <5> QED BY <5>1, <5>2, <3>2, <3>3, <2>2, <1>1
      <4>2. results' \in [Deps -> {"none", "error", "surface"}]
        BY <1>3 DEF ScanInv, TypeOK
      <4> QED BY <4>1, <4>2, <1>0, <1>1 DEF ScanInv, TypeOK
    <3>6. ScanTypes'
      BY <3>3, <3>4, <1>0 DEF ScanInv, ScanTypes
    <3>7. \A x \in Deps, y \in Ecosystems :
            x \in Range(groups'[y]) <=> Ecosystem[x] = y /\ x \notin Unresolvable /\ Asked(x)'
      <4> SUFFICES ASSUME NEW x \in Deps, NEW y \in Ecosystems
                   PROVE x \in Range(groups'[y]) <=>
                           Ecosystem[x] = y /\ x \notin Unresolvable /\ Asked(x)'
        OBVIOUS
      <4>1. x \in Range(groups[y]) <=> Ecosystem[x] = y /\ x \notin Unresolvable /\ Asked(x)
        BY DEF ScanInv, GroupInv
      <4>2. x \in Range(groups'[y]) <=> x \in Range(groups[y]) \/ (y = e /\ x = d)
        BY <3>2, <3>3
      <4>3. e = Ecosystem[d]
        BY DEF e
      <4> QED BY <4>1, <4>2, <4>3, <1>5, <2>2
    <3>8. \A x \in Ecosystems : x \in Range(order') <=> groups'[x] # <<>>
      BY <3>2, <3>3, <3>4, <1>0 DEF ScanInv, GroupInv
    <3>9. GroupInv'
      BY <3>4, <3>7, <3>8, <1>0 DEF GroupInv, Walking
    <3> QED BY <3>5, <3>6, <3>9
  <2> QED BY <2>1, <2>2
<1>7. AnswerInv'
  <2>1. ASSUME NEW x \in Deps PROVE results'[x] = Answer(x)'
    <3>1. results[x] = Answer(x) /\ results \in [Deps -> {"none", "error", "surface"}]
      BY <1>0 DEF ScanInv, AnswerInv, TypeOK
    <3>2. Answer(x)' = IF Asked(x)' /\ x \in Unresolvable THEN "error" ELSE "none"
      BY <1>0 DEF Answer
    <3>3. Answer(x) = IF Asked(x) /\ x \in Unresolvable THEN "error" ELSE "none"
      BY <1>0 DEF Answer
    <3>4. results'[x] = IF d \in Unresolvable /\ x = d THEN "error" ELSE results[x]
      BY <1>3, <3>1
    <3> QED BY <3>1, <3>2, <3>3, <3>4, <1>5
  <2> QED BY <2>1, <1>0 DEF AnswerInv
<1> QED BY <1>6, <1>7 DEF ScanInv

LEMMA StartWalkStep ==
  ASSUME ScanInv, StartWalk
  PROVE  ScanInv'
<1>0. /\ requests' = requests /\ tree' = tree /\ next' = next /\ order' = order
      /\ groups' = groups /\ results' = results /\ file' = file /\ cancelled' = cancelled
      /\ pc = "resolve" /\ pc' = IF order = <<>> THEN "done" ELSE "file"
      /\ next \in 1..(Len(requests) + 1) /\ next > Len(requests)
  BY DEF StartWalk, inputs, ScanInv, TypeOK
<1>1. TypeOK'
  BY <1>0 DEF ScanInv, TypeOK
<1>2. ScanTypes'
  BY <1>0 DEF ScanInv, ScanTypes
<1>3. \A d : Asked(d)' = Asked(d)
  BY <1>0 DEF Asked
<1>4. GroupInv'
  BY <1>0, <1>3 DEF ScanInv, GroupInv, Walking
<1>5. ASSUME NEW d \in Deps PROVE results'[d] = Answer(d)'
  <2>1. results[d] = Answer(d)
    BY <1>0 DEF ScanInv, AnswerInv
  <2>2. d \notin Unresolvable /\ Asked(d) => Ecosystem[d] \in Range(order)
    <3> SUFFICES ASSUME d \notin Unresolvable, Asked(d) PROVE Ecosystem[d] \in Range(order)
      OBVIOUS
    <3>1. d \in Range(groups[Ecosystem[d]])
      BY EcosystemType DEF ScanInv, GroupInv
    <3>2. groups[Ecosystem[d]] # <<>>
      BY <3>1 DEF Range
    <3> QED BY <3>2, <1>0, EcosystemType DEF ScanInv, GroupInv
  <2> QED BY <1>0, <1>3, <2>1, <2>2 DEF Answer
<1>6. Len(requests) \in Nat
  BY InputTypes DEF ScanInv, ScanTypes
<1>7. AnswerInv'
  BY <1>0, <1>5, <1>6 DEF AnswerInv
<1> QED BY <1>1, <1>2, <1>4, <1>7 DEF ScanInv

LEMMA EndWalkStep ==
  ASSUME ScanInv, EndWalk
  PROVE  ScanInv'
<1> DEFINE e == Head(order)
<1>0. /\ requests' = requests /\ tree' = tree /\ next' = next /\ order' = Tail(order)
      /\ groups' = groups /\ file' = 1 /\ cancelled' = cancelled
      /\ pc = "file" /\ pc' = IF order' = <<>> THEN "done" ELSE "file"
      /\ results' = [d \in Deps |-> IF d \in Targets THEN "surface" ELSE results[d]]
  BY DEF EndWalk, inputs
<1>1. order \in Seq(Ecosystems) /\ order # <<>>
      /\ \A i, j \in DOMAIN order : order[i] = order[j] => i = j
  BY <1>0 DEF ScanInv, ScanTypes, GroupInv, Walking
<1>2. /\ order' \in Seq(Ecosystems)
      /\ \A i, j \in DOMAIN order' : order'[i] = order'[j] => i = j
      /\ Range(order') = Range(order) \ {e}
  BY <1>0, <1>1, TailOfDistinct
<1>3. Targets = Range(groups[e]) /\ e \in Ecosystems /\ e \in Range(order)
  BY <1>1 DEF Targets, Range
<1> HIDE DEF e
<1>4. TypeOK'
  <2>1. results' \in [Deps -> {"none", "error", "surface"}]
    BY <1>0 DEF ScanInv, TypeOK
  <2>2. Len(tree) \in Nat
    BY InputTypes DEF ScanInv, ScanTypes
  <2> QED BY <1>0, <2>1, <2>2 DEF ScanInv, TypeOK
<1>5. ScanTypes'
  BY <1>0, <1>2 DEF ScanInv, ScanTypes
<1>6. \A d : Asked(d)' = Asked(d)
  BY <1>0 DEF Asked
<1>7. GroupInv'
  BY <1>0, <1>2, <1>6 DEF ScanInv, GroupInv, Walking
<1>8. ASSUME NEW d \in Deps PROVE results'[d] = Answer(d)'
  <2>1. results[d] = Answer(d)
    BY <1>0 DEF ScanInv, AnswerInv
  <2>2. d \in Targets <=> Ecosystem[d] = e /\ d \notin Unresolvable /\ Asked(d)
    BY <1>3 DEF ScanInv, GroupInv
  <2>3. results'[d] = IF d \in Targets THEN "surface" ELSE results[d]
    BY <1>0
  <2>4. pc # "resolve" /\ pc' # "resolve"
    BY <1>0
  <2> QED BY <2>1, <2>2, <2>3, <2>4, <1>2, <1>3, <1>6 DEF Answer
<1>9. AnswerInv'
  BY <1>0, <1>8 DEF ScanInv, AnswerInv
<1> QED BY <1>4, <1>5, <1>7, <1>9 DEF ScanInv

LEMMA ScanStep == ScanInv /\ [Next]_vars => ScanInv'
<1> SUFFICES ASSUME ScanInv, [Next]_vars PROVE ScanInv'
  OBVIOUS
<1>0. /\ Len(tree) \in Nat /\ file \in 1..(Len(tree) + 1) /\ cancelled \in BOOLEAN
      /\ pc \in {"imports", "activations", "refs"} => file \in 1..Len(tree)
  BY InputTypes DEF ScanInv, ScanTypes, TypeOK
<1>1. CASE Cancel
  BY <1>0, <1>1, BookkeepingKept DEF Cancel
<1>2. CASE SkipFile
  BY <1>0, <1>2, BookkeepingKept DEF SkipFile
<1>3. CASE OpenFile
  BY <1>0, <1>3, BookkeepingKept DEF OpenFile, Walking
<1>4. CASE RecordImports
  <2>1. pc = "imports" /\ pc' = "activations" /\ file' = file
    BY <1>4, Zenon DEF RecordImports
  <2>2. UNCHANGED <<inputs, next, order, groups, results>> /\ cancelled' = cancelled
    BY <1>4, Zenon DEF RecordImports
  <2> QED BY <1>0, <2>1, <2>2, BookkeepingKept DEF Walking
<1>5. CASE RecordActivations
  <2>1. /\ pc = "activations"
        /\ pc' = IF Current.status = "parsed" THEN "refs" ELSE "file"
        /\ file' = IF Current.status = "parsed" THEN file ELSE file + 1
    BY <1>5, Zenon DEF RecordActivations
  <2>2. UNCHANGED <<inputs, next, order, groups, results>> /\ cancelled' = cancelled
    BY <1>5, Zenon DEF RecordActivations
  <2> QED BY <1>0, <2>1, <2>2, BookkeepingKept DEF Walking
<1>6. CASE RecordRefs
  <2>1. pc = "refs" /\ pc' = "file" /\ file' = file + 1
    BY <1>6, Zenon DEF RecordRefs
  <2>2. UNCHANGED <<inputs, next, order, groups, results>> /\ cancelled' = cancelled
    BY <1>6, Zenon DEF RecordRefs
  <2> QED BY <1>0, <2>1, <2>2, BookkeepingKept DEF Walking
<1>7. CASE UNCHANGED vars
  BY <1>0, <1>7, BookkeepingKept DEF vars
<1> QED BY <1>1, <1>2, <1>3, <1>4, <1>5, <1>6, <1>7,
           StopStep, ResolveStep, StartWalkStep, EndWalkStep DEF Next, Finished

LEMMA ScanAlways == Spec => []ScanInv
BY ScanInit, ScanStep, PTL DEF Spec

(* Type correctness of every state of a scan.                              *)
THEOREM TypeCorrect == Spec => []TypeOK
<1>1. ScanInv => TypeOK
  BY DEF ScanInv
<1> QED BY <1>1, ScanAlways, PTL

(* Whatever was asked for, how often, and in whichever order, a scan that  *)
(* succeeds answers each request: with an error of its own when the        *)
(* dependency cannot be resolved, and else with a surface (IndexMany).     *)
THEOREM RequestsAnswered == Spec => []EveryRequestAnswered
<1>1. ScanInv => EveryRequestAnswered
  <2> SUFFICES ASSUME ScanInv, pc = "done", NEW d \in Deps
               PROVE  results[d] = IF d \notin Range(requests) THEN "none"
                                   ELSE IF d \in Unresolvable THEN "error" ELSE "surface"
    BY DEF EveryRequestAnswered
  <2>1. results[d] = Answer(d) /\ next = Len(requests) + 1 /\ order = <<>>
    BY DEF ScanInv, AnswerInv, GroupInv
  <2>2. Asked(d) <=> d \in Range(requests)
    <3>1. Len(requests) \in Nat /\ DOMAIN requests = 1..Len(requests)
      BY InputTypes DEF ScanInv, ScanTypes
    <3> QED BY <3>1, <2>1 DEF Asked, Range
  <2>3. Ecosystem[d] \notin Range(order)
    BY <2>1 DEF Range
  <2> QED BY <2>1, <2>2, <2>3 DEF Answer
<1> QED BY <1>1, ScanAlways, PTL
-----------------------------------------------------------------------------
(* The folds of the model, as the values their accumulators take.          *)

NamesBound(s, seq) == FoldLeft(LAMBDA b, name : BindName(b, name), s, seq)

BindingNames(g, V, s, seq) ==
  /\ g \in [0..Len(seq) -> V] /\ g[0] = s
  /\ \A k \in 1..Len(seq) : g[k] = BindName(g[k - 1], seq[k])
  /\ g[Len(seq)] = NamesBound(s, seq)

LEMMA NamesTrace ==
  ASSUME NEW V, NEW s \in V, NEW S, NEW seq \in Seq(S),
         \A t \in V, i \in 1..Len(seq) : BindName(t, seq[i]) \in V
  PROVE  \E g : BindingNames(g, V, s, seq)
<1> DEFINE n == Len(seq)
           step == [p \in V \X (1..n) |-> BindName(p[1], seq[p[2]])]
           Rec(f) == f = [u \in SUBSET (1..n) |-> IF u = {} THEN s
                            ELSE BindName(f[u \ {Max(u)}], seq[Max(u)])]
           iter == CHOOSE f : Rec(f)
<1>1. n \in Nat /\ DOMAIN seq = 1..n /\ step \in [V \X (1..n) -> V]
  OBVIOUS
<1>2. PICK g, f : Runs(g, f, V, s, n, step)
  <2> HIDE DEF step, n
  <2> QED BY <1>1, Loop
<1>3. Rec(f)
  BY <1>2 DEF Runs
<1>4. Rec(iter)
  <2> HIDE DEF Rec
  <2> QED BY <1>3
<1>5. NamesBound(s, seq) = iter[1..n]
  <2>1. NamesBound(s, seq) = iter[DOMAIN seq]
    BY <1>1, Zenon DEF NamesBound, FoldLeft, MapThenFoldSet
  <2> QED BY <2>1, <1>1
<1> HIDE DEF iter, n
<1>6. iter[1..n] = g[n]
  <2>1. iter[{}] = s
    BY <1>4
  <2>2. ASSUME NEW k \in 1..n, iter[1..(k - 1)] \in V
        PROVE  iter[1..k] = step[<<iter[1..(k - 1)], k>>]
    BY <1>1, <1>4, <2>2, FirstPositions
  <2> QED BY <2>1, <2>2, <1>2 DEF Runs
<1>7. \A k \in 1..n : g[k] = BindName(g[k - 1], seq[k])
  BY <1>2 DEF Runs
<1>8. BindingNames(g, V, s, seq)
  BY <1>2, <1>5, <1>6, <1>7 DEF n, Runs, BindingNames
<1> QED BY <1>8

ImportsBound(d, s, seq) == FoldLeft(LAMBDA b, import : BindImport(d, b, import), s, seq)

BindingImports(g, d, V, s, seq) ==
  /\ g \in [0..Len(seq) -> V] /\ g[0] = s
  /\ \A k \in 1..Len(seq) : g[k] = BindImport(d, g[k - 1], seq[k])
  /\ g[Len(seq)] = ImportsBound(d, s, seq)

LEMMA BindTrace ==
  ASSUME NEW d, NEW V, NEW s \in V, NEW S, NEW seq \in Seq(S),
         \A t \in V, i \in 1..Len(seq) : BindImport(d, t, seq[i]) \in V
  PROVE  \E g : BindingImports(g, d, V, s, seq)
<1> DEFINE n == Len(seq)
           step == [p \in V \X (1..n) |-> BindImport(d, p[1], seq[p[2]])]
           Rec(f) == f = [u \in SUBSET (1..n) |-> IF u = {} THEN s
                            ELSE BindImport(d, f[u \ {Max(u)}], seq[Max(u)])]
           iter == CHOOSE f : Rec(f)
<1>1. n \in Nat /\ DOMAIN seq = 1..n /\ step \in [V \X (1..n) -> V]
  OBVIOUS
<1>2. PICK g, f : Runs(g, f, V, s, n, step)
  <2> HIDE DEF step, n
  <2> QED BY <1>1, Loop
<1>3. Rec(f)
  BY <1>2 DEF Runs
<1>4. Rec(iter)
  <2> HIDE DEF Rec
  <2> QED BY <1>3
<1>5. ImportsBound(d, s, seq) = iter[1..n]
  <2>1. ImportsBound(d, s, seq) = iter[DOMAIN seq]
    BY <1>1, Zenon DEF ImportsBound, FoldLeft, MapThenFoldSet
  <2> QED BY <2>1, <1>1
<1> HIDE DEF iter, n
<1>6. iter[1..n] = g[n]
  <2>1. iter[{}] = s
    BY <1>4
  <2>2. ASSUME NEW k \in 1..n, iter[1..(k - 1)] \in V
        PROVE  iter[1..k] = step[<<iter[1..(k - 1)], k>>]
    BY <1>1, <1>4, <2>2, FirstPositions
  <2> QED BY <2>1, <2>2, <1>2 DEF Runs
<1>7. \A k \in 1..n : g[k] = BindImport(d, g[k - 1], seq[k])
  BY <1>2 DEF Runs
<1>8. BindingImports(g, d, V, s, seq)
  BY <1>2, <1>5, <1>6, <1>7 DEF n, Runs, BindingImports
<1> QED BY <1>8

ImportsAdded(d, s, seq) == FoldLeft(LAMBDA t, import : RecordImport(d, t, import), s, seq)

AddingImports(g, d, V, s, seq) ==
  /\ g \in [0..Len(seq) -> V] /\ g[0] = s
  /\ \A k \in 1..Len(seq) : g[k] = RecordImport(d, g[k - 1], seq[k])
  /\ g[Len(seq)] = ImportsAdded(d, s, seq)

LEMMA ImportsTrace ==
  ASSUME NEW d, NEW V, NEW s \in V, NEW S, NEW seq \in Seq(S),
         \A t \in V, i \in 1..Len(seq) : RecordImport(d, t, seq[i]) \in V
  PROVE  \E g : AddingImports(g, d, V, s, seq)
<1> DEFINE n == Len(seq)
           step == [p \in V \X (1..n) |-> RecordImport(d, p[1], seq[p[2]])]
           Rec(f) == f = [u \in SUBSET (1..n) |-> IF u = {} THEN s
                            ELSE RecordImport(d, f[u \ {Max(u)}], seq[Max(u)])]
           iter == CHOOSE f : Rec(f)
<1>1. n \in Nat /\ DOMAIN seq = 1..n /\ step \in [V \X (1..n) -> V]
  OBVIOUS
<1>2. PICK g, f : Runs(g, f, V, s, n, step)
  <2> HIDE DEF step, n
  <2> QED BY <1>1, Loop
<1>3. Rec(f)
  BY <1>2 DEF Runs
<1>4. Rec(iter)
  <2> HIDE DEF Rec
  <2> QED BY <1>3
<1>5. ImportsAdded(d, s, seq) = iter[1..n]
  <2>1. ImportsAdded(d, s, seq) = iter[DOMAIN seq]
    BY <1>1, Zenon DEF ImportsAdded, FoldLeft, MapThenFoldSet
  <2> QED BY <2>1, <1>1
<1> HIDE DEF iter, n
<1>6. iter[1..n] = g[n]
  <2>1. iter[{}] = s
    BY <1>4
  <2>2. ASSUME NEW k \in 1..n, iter[1..(k - 1)] \in V
        PROVE  iter[1..k] = step[<<iter[1..(k - 1)], k>>]
    BY <1>1, <1>4, <2>2, FirstPositions
  <2> QED BY <2>1, <2>2, <1>2 DEF Runs
<1>7. \A k \in 1..n : g[k] = RecordImport(d, g[k - 1], seq[k])
  BY <1>2 DEF Runs
<1>8. AddingImports(g, d, V, s, seq)
  BY <1>2, <1>5, <1>6, <1>7 DEF n, Runs, AddingImports
<1> QED BY <1>8

ConfiguredAdded(literal, s, seq) == FoldLeft(LAMBDA t, activation : AddIfConfigured(t, activation, literal), s, seq)

AddingConfigured(g, literal, V, s, seq) ==
  /\ g \in [0..Len(seq) -> V] /\ g[0] = s
  /\ \A k \in 1..Len(seq) : g[k] = AddIfConfigured(g[k - 1], seq[k], literal)
  /\ g[Len(seq)] = ConfiguredAdded(literal, s, seq)

LEMMA ConfiguredTrace ==
  ASSUME NEW literal, NEW V, NEW s \in V, NEW S, NEW seq \in Seq(S),
         \A t \in V, i \in 1..Len(seq) : AddIfConfigured(t, seq[i], literal) \in V
  PROVE  \E g : AddingConfigured(g, literal, V, s, seq)
<1> DEFINE n == Len(seq)
           step == [p \in V \X (1..n) |-> AddIfConfigured(p[1], seq[p[2]], literal)]
           Rec(f) == f = [u \in SUBSET (1..n) |-> IF u = {} THEN s
                            ELSE AddIfConfigured(f[u \ {Max(u)}], seq[Max(u)], literal)]
           iter == CHOOSE f : Rec(f)
<1>1. n \in Nat /\ DOMAIN seq = 1..n /\ step \in [V \X (1..n) -> V]
  OBVIOUS
<1>2. PICK g, f : Runs(g, f, V, s, n, step)
  <2> HIDE DEF step, n
  <2> QED BY <1>1, Loop
<1>3. Rec(f)
  BY <1>2 DEF Runs
<1>4. Rec(iter)
  <2> HIDE DEF Rec
  <2> QED BY <1>3
<1>5. ConfiguredAdded(literal, s, seq) = iter[1..n]
  <2>1. ConfiguredAdded(literal, s, seq) = iter[DOMAIN seq]
    BY <1>1, Zenon DEF ConfiguredAdded, FoldLeft, MapThenFoldSet
  <2> QED BY <2>1, <1>1
<1> HIDE DEF iter, n
<1>6. iter[1..n] = g[n]
  <2>1. iter[{}] = s
    BY <1>4
  <2>2. ASSUME NEW k \in 1..n, iter[1..(k - 1)] \in V
        PROVE  iter[1..k] = step[<<iter[1..(k - 1)], k>>]
    BY <1>1, <1>4, <2>2, FirstPositions
  <2> QED BY <2>1, <2>2, <1>2 DEF Runs
<1>7. \A k \in 1..n : g[k] = AddIfConfigured(g[k - 1], seq[k], literal)
  BY <1>2 DEF Runs
<1>8. AddingConfigured(g, literal, V, s, seq)
  BY <1>2, <1>5, <1>6, <1>7 DEF n, Runs, AddingConfigured
<1> QED BY <1>8

LiteralsAdded(d, s, seq) == FoldLeft(LAMBDA t, literal : RecordLiteral(d, t, literal), s, seq)

AddingLiterals(g, d, V, s, seq) ==
  /\ g \in [0..Len(seq) -> V] /\ g[0] = s
  /\ \A k \in 1..Len(seq) : g[k] = RecordLiteral(d, g[k - 1], seq[k])
  /\ g[Len(seq)] = LiteralsAdded(d, s, seq)

LEMMA LiteralsTrace ==
  ASSUME NEW d, NEW V, NEW s \in V, NEW S, NEW seq \in Seq(S),
         \A t \in V, i \in 1..Len(seq) : RecordLiteral(d, t, seq[i]) \in V
  PROVE  \E g : AddingLiterals(g, d, V, s, seq)
<1> DEFINE n == Len(seq)
           step == [p \in V \X (1..n) |-> RecordLiteral(d, p[1], seq[p[2]])]
           Rec(f) == f = [u \in SUBSET (1..n) |-> IF u = {} THEN s
                            ELSE RecordLiteral(d, f[u \ {Max(u)}], seq[Max(u)])]
           iter == CHOOSE f : Rec(f)
<1>1. n \in Nat /\ DOMAIN seq = 1..n /\ step \in [V \X (1..n) -> V]
  OBVIOUS
<1>2. PICK g, f : Runs(g, f, V, s, n, step)
  <2> HIDE DEF step, n
  <2> QED BY <1>1, Loop
<1>3. Rec(f)
  BY <1>2 DEF Runs
<1>4. Rec(iter)
  <2> HIDE DEF Rec
  <2> QED BY <1>3
<1>5. LiteralsAdded(d, s, seq) = iter[1..n]
  <2>1. LiteralsAdded(d, s, seq) = iter[DOMAIN seq]
    BY <1>1, Zenon DEF LiteralsAdded, FoldLeft, MapThenFoldSet
  <2> QED BY <2>1, <1>1
<1> HIDE DEF iter, n
<1>6. iter[1..n] = g[n]
  <2>1. iter[{}] = s
    BY <1>4
  <2>2. ASSUME NEW k \in 1..n, iter[1..(k - 1)] \in V
        PROVE  iter[1..k] = step[<<iter[1..(k - 1)], k>>]
    BY <1>1, <1>4, <2>2, FirstPositions
  <2> QED BY <2>1, <2>2, <1>2 DEF Runs
<1>7. \A k \in 1..n : g[k] = RecordLiteral(d, g[k - 1], seq[k])
  BY <1>2 DEF Runs
<1>8. AddingLiterals(g, d, V, s, seq)
  BY <1>2, <1>5, <1>6, <1>7 DEF n, Runs, AddingLiterals
<1> QED BY <1>8

RefsAdded(d, s, seq) == FoldLeft(LAMBDA t, ref : RecordRef(d, t, ref), s, seq)

AddingRefs(g, d, V, s, seq) ==
  /\ g \in [0..Len(seq) -> V] /\ g[0] = s
  /\ \A k \in 1..Len(seq) : g[k] = RecordRef(d, g[k - 1], seq[k])
  /\ g[Len(seq)] = RefsAdded(d, s, seq)

LEMMA RefsTrace ==
  ASSUME NEW d, NEW V, NEW s \in V, NEW S, NEW seq \in Seq(S),
         \A t \in V, i \in 1..Len(seq) : RecordRef(d, t, seq[i]) \in V
  PROVE  \E g : AddingRefs(g, d, V, s, seq)
<1> DEFINE n == Len(seq)
           step == [p \in V \X (1..n) |-> RecordRef(d, p[1], seq[p[2]])]
           Rec(f) == f = [u \in SUBSET (1..n) |-> IF u = {} THEN s
                            ELSE RecordRef(d, f[u \ {Max(u)}], seq[Max(u)])]
           iter == CHOOSE f : Rec(f)
<1>1. n \in Nat /\ DOMAIN seq = 1..n /\ step \in [V \X (1..n) -> V]
  OBVIOUS
<1>2. PICK g, f : Runs(g, f, V, s, n, step)
  <2> HIDE DEF step, n
  <2> QED BY <1>1, Loop
<1>3. Rec(f)
  BY <1>2 DEF Runs
<1>4. Rec(iter)
  <2> HIDE DEF Rec
  <2> QED BY <1>3
<1>5. RefsAdded(d, s, seq) = iter[1..n]
  <2>1. RefsAdded(d, s, seq) = iter[DOMAIN seq]
    BY <1>1, Zenon DEF RefsAdded, FoldLeft, MapThenFoldSet
  <2> QED BY <2>1, <1>1
<1> HIDE DEF iter, n
<1>6. iter[1..n] = g[n]
  <2>1. iter[{}] = s
    BY <1>4
  <2>2. ASSUME NEW k \in 1..n, iter[1..(k - 1)] \in V
        PROVE  iter[1..k] = step[<<iter[1..(k - 1)], k>>]
    BY <1>1, <1>4, <2>2, FirstPositions
  <2> QED BY <2>1, <2>2, <1>2 DEF Runs
<1>7. \A k \in 1..n : g[k] = RecordRef(d, g[k - 1], seq[k])
  BY <1>2 DEF Runs
<1>8. AddingRefs(g, d, V, s, seq)
  BY <1>2, <1>5, <1>6, <1>7 DEF n, Runs, AddingRefs
<1> QED BY <1>8

-----------------------------------------------------------------------------
(* The inductive invariant of the sites.                                   *)

FileSites(d, f) ==
  {[name |-> p[1], activation |-> FALSE, file |-> f, line |-> p[2]] :
     p \in NamesAt(d, f) \cup MembersAt(d, f)}
  \cup {[name |-> p[1], activation |-> TRUE, file |-> f, line |-> p[2]] :
     p \in ActivationsAt(d, f)}

Eligible(d) ==
  {f \in DOMAIN tree : /\ Ecosystem[d] \in tree[f].ecosystems
                       /\ tree[f].status \in {"unparsed", "parsed"}}

Scanned(d, k) == UNION {FileSites(d, f) : f \in {g \in Eligible(d) : g < k}}

(* What is recorded of the current file. *)
NameSites(d) == {Site(p[1], FALSE, p[2]) : p \in NamesAt(d, file)}
ActivationSites(d) == {Site(p[1], TRUE, p[2]) : p \in ActivationsAt(d, file)}
MemberSites(d) == {Site(p[1], FALSE, p[2]) : p \in MembersAt(d, file)}

Opened(d) ==
  CASE pc = "activations" -> NameSites(d)
    [] pc = "refs" -> NameSites(d) \cup ActivationSites(d)
    [] OTHER -> {}

Once(s) ==
  \A j \in DOMAIN s : s[j].activation =>
    \A i \in 1..(j - 1) : ~ \E kind \in BOOLEAN : s[i] = [s[j] EXCEPT !.activation = kind]

(* An open file belongs to the walk, and its imports have bound the locals *)
(* when its references are looked at.                                      *)
FileInv ==
  /\ pc = "resolve" => file = 1
  /\ pc \in {"imports", "activations", "refs"} =>
       Head(order) \in Current.ecosystems /\ Current.status \in {"unparsed", "parsed"}
  /\ pc \in {"imports", "refs"} => Current.status = "parsed"
  /\ pc = "imports" => \A d \in Targets : receivers[d] = SeedReceivers(d)
  /\ (pc = "activations" /\ Current.status = "parsed") \/ pc = "refs" =>
       \A d \in Targets : receivers[d] = [l \in Locals |-> StandsFor(d, file, l)]

SitesInv ==
  \A d \in Deps :
    /\ IsSequence(sites[d]) /\ Once(sites[d])
    /\ pc # "stopped" /\ results[d] = "none" /\ (pc = "resolve" \/ d \notin Targets) =>
         sites[d] = <<>>
    /\ pc \in Walking /\ d \in Targets => Range(sites[d]) = Scanned(d, file) \cup Opened(d)
    /\ results[d] = "surface" => Range(sites[d]) = ExpectedSites(d)

SurfaceInv == ScanInv /\ FileInv /\ SitesInv

LEMMA SequenceIn ==
  ASSUME NEW E, NEW t
  PROVE  t \in Seq(E) <=> IsSequence(t) /\ Range(t) \subseteq E
<1>1. ASSUME t \in Seq(E) PROVE IsSequence(t) /\ Range(t) \subseteq E
  <2>1. DOMAIN t = 1..Len(t) /\ Len(t) \in Nat /\ \A i \in 1..Len(t) : t[i] \in E
    BY <1>1
  <2>2. Range(t) \subseteq E
    BY <2>1 DEF Range
  <2>3. t = [i \in 1..Len(t) |-> t[i]] /\ \A i \in 1..Len(t) : t[i] \in Range(t)
    BY <1>1, <2>1 DEF Range
  <2>4. t \in Seq(Range(t))
    BY <2>1, <2>3
  <2> QED BY <2>2, <2>4 DEF IsSequence
<1>2. ASSUME IsSequence(t), Range(t) \subseteq E PROVE t \in Seq(E)
  BY <1>2 DEF IsSequence
<1> QED BY <1>1, <1>2

Grows(s, t, S) ==
  /\ IsSequence(t) /\ Len(s) <= Len(t)
  /\ \A j \in 1..Len(s) : t[j] = s[j]
  /\ \A j \in (Len(s) + 1)..Len(t) : ~ t[j].activation
  /\ Range(t) = Range(s) \cup S

LEMMA SequenceFacts ==
  ASSUME NEW s, IsSequence(s)
  PROVE  Len(s) \in Nat /\ DOMAIN s = 1..Len(s) /\ \A i \in 1..Len(s) : s[i] \in Range(s)
BY DEF IsSequence

LEMMA GrowsNot == ASSUME NEW s, IsSequence(s) PROVE Grows(s, s, {})
BY SequenceFacts DEF Grows

LEMMA GrowsOn ==
  ASSUME NEW s, NEW t, NEW u, NEW S, NEW U, IsSequence(s), Grows(s, t, S), Grows(t, u, U)
  PROVE  Grows(s, u, S \cup U)
<1>1. Len(s) \in Nat /\ Len(t) \in Nat /\ Len(u) \in Nat
  BY SequenceFacts DEF Grows
<1>2. \A j \in 1..Len(s) : u[j] = s[j]
  BY <1>1 DEF Grows
<1>3. ASSUME NEW j \in (Len(s) + 1)..Len(u) PROVE ~ u[j].activation
  <2>1. CASE j <= Len(t)
    <3>1. j \in 1..Len(t) /\ j \in (Len(s) + 1)..Len(t)
      BY <1>1, <2>1
    <3> QED BY <3>1 DEF Grows
  <2>2. CASE ~ (j <= Len(t))
    <3>1. j \in (Len(t) + 1)..Len(u)
      BY <1>1, <2>2
    <3> QED BY <3>1 DEF Grows
  <2> QED BY <2>1, <2>2
<1>4. Len(s) <= Len(u)
  BY <1>1 DEF Grows
<1> QED BY <1>2, <1>3, <1>4 DEF Grows

LEMMA GrowsOnce ==
  ASSUME NEW s, NEW t, NEW S, IsSequence(s), Grows(s, t, S), Once(s)
  PROVE  Once(t)
<1> SUFFICES ASSUME NEW j \in DOMAIN t, t[j].activation, NEW i \in 1..(j - 1), NEW kind \in BOOLEAN,
                    t[i] = [t[j] EXCEPT !.activation = kind]
             PROVE  FALSE
  BY DEF Once
<1>1. /\ Len(s) \in Nat /\ DOMAIN s = 1..Len(s) /\ Len(t) \in Nat /\ DOMAIN t = 1..Len(t)
      /\ \A k \in (Len(s) + 1)..Len(t) : ~ t[k].activation
      /\ \A k \in 1..Len(s) : t[k] = s[k]
  BY SequenceFacts DEF Grows
<1>2. j \in 1..Len(s) /\ i \in 1..Len(s)
  BY <1>1
<1>3. s[j].activation /\ s[i] = [s[j] EXCEPT !.activation = kind]
  BY <1>1, <1>2
<1> QED BY <1>1, <1>2, <1>3 DEF Once

AddedBy(added, n) == UNION {added[k] : k \in 1..n}

LEMMA GrowsTrace ==
  ASSUME NEW n \in Nat, NEW g, NEW added, IsSequence(g[0]),
         \A k \in 1..n : IsSequence(g[k - 1]) => Grows(g[k - 1], g[k], added[k])
  PROVE  Grows(g[0], g[n], AddedBy(added, n))
<1> DEFINE A(m) == UNION {added[k] : k \in 1..m}
           T == {m \in Nat : m <= n => Grows(g[0], g[m], A(m))}
<1>1. 0 \in T
  <2>1. A(0) = {}
    OBVIOUS
  <2> QED BY <2>1, GrowsNot
<1>2. ASSUME NEW m \in Nat, m \in T PROVE m + 1 \in T
  <2> SUFFICES ASSUME m + 1 <= n PROVE Grows(g[0], g[m + 1], A(m + 1))
    OBVIOUS
  <2>1. m + 1 \in 1..n /\ (m + 1) - 1 = m /\ Grows(g[0], g[m], A(m))
    BY <1>2
  <2>2. IsSequence(g[m])
    BY <2>1 DEF Grows
  <2>3. Grows(g[m], g[m + 1], added[m + 1])
    BY <2>1, <2>2
  <2>4. A(m + 1) = A(m) \cup added[m + 1]
    <3>1. 1..(m + 1) = (1..m) \cup {m + 1}
      OBVIOUS
    <3> QED BY <3>1
  <2> HIDE DEF A
  <2> QED BY <2>1, <2>3, <2>4, GrowsOn
<1>3. n \in T
  <2> HIDE DEF T
  <2> QED BY <1>1, <1>2, NextNumbers
<1> QED BY <1>3 DEF AddedBy

-----------------------------------------------------------------------------
(* What each fold adds to the sites of a dependency.                       *)

ImportSites(d, import) ==
  IF import.module \notin Provides[d] THEN {}
  ELSE {Site(name, FALSE, import.line) : name \in Range(ImportedNames(import))}

RefSites(d, ref) ==
  IF receivers[d][ref.receiver] = NoExport THEN {}
  ELSE {Site(Append(receivers[d][ref.receiver], ref.member), FALSE, ref.line)}

LEMMA AppendGrows ==
  ASSUME NEW s, IsSequence(s), NEW x
  PROVE  /\ IsSequence(Append(s, x)) /\ Range(Append(s, x)) = Range(s) \cup {x}
         /\ Len(Append(s, x)) = Len(s) + 1 /\ Append(s, x)[Len(s) + 1] = x
         /\ \A i \in 1..Len(s) : Append(s, x)[i] = s[i]
<1> DEFINE E == Range(s) \cup {x}
           t == Append(s, x)
<1>1. s \in Seq(E) /\ x \in E
  BY SequenceIn
<1>2. t \in Seq(E) /\ Len(t) = Len(s) + 1 /\ t[Len(s) + 1] = x /\ \A i \in 1..Len(s) : t[i] = s[i]
  <2> HIDE DEF E
  <2> QED BY <1>1
<1>3. Range(t) = E
  <2> HIDE DEF E
  <2>1. Range(t) = Range(s) \cup {x}
    BY <1>1, AppendOfNew
  <2> QED BY <2>1 DEF E
<1> QED BY <1>2, <1>3, SequenceIn

LEMMA RecordImportGrows ==
  ASSUME NEW d, NEW s, IsSequence(s), NEW import, IsSequence(import.names)
  PROVE  Grows(s, RecordImport(d, s, import), ImportSites(d, import))
<1>1. CASE import.module \notin Provides[d]
  BY <1>1, GrowsNot DEF RecordImport, ImportSites
<1>2. CASE import.module \in Provides[d]
  <2> DEFINE names == ImportedNames(import)
             added == [i \in DOMAIN names |-> Site(names[i], FALSE, import.line)]
             E == Range(s) \cup Range(added)
  <2>1. PICK m \in Nat : DOMAIN names = 1..m
    <3>1. CASE import.kind = "named"
      BY <3>1, SequenceFacts DEF ImportedNames
    <3>2. CASE import.kind # "named"
      <4>1. DOMAIN <<import.module>> = 1..1
        OBVIOUS
      <4> QED BY <3>2, <4>1 DEF ImportedNames
    <3> QED BY <3>1, <3>2
  <2>2. Range(added) = ImportSites(d, import)
    BY <1>2 DEF ImportSites, Range
  <2>3. \A i \in 1..m : ~ added[i].activation /\ added[i] \in Range(added)
    BY <2>1 DEF Site, Range
  <2>4. DOMAIN added = 1..m /\ added = [i \in 1..m |-> added[i]]
    BY <2>1
  <2> HIDE DEF added
  <2>5. s \in Seq(E) /\ added \in Seq(E) /\ Len(added) = m
    <3>1. added \in Seq(Range(added)) /\ Len(added) = m
      BY <2>3, <2>4
    <3> QED BY <3>1, SequenceIn DEF IsSequence
  <2>6. RecordImport(d, s, import) = s \o added
    BY <1>2 DEF RecordImport, added
  <2> DEFINE t == s \o added
  <2>7. /\ t \in Seq(E) /\ Len(t) = Len(s) + m /\ Len(s) \in Nat
        /\ \A j \in 1..Len(s) : t[j] = s[j]
        /\ \A j \in (Len(s) + 1)..Len(t) : t[j] = added[j - Len(s)]
    <3> HIDE DEF E
    <3> QED BY <2>5
  <2> HIDE DEF t
  <2>8. IsSequence(t) /\ Range(t) \subseteq E
    BY <2>7, SequenceIn
  <2>9. E \subseteq Range(t)
    <3>1. ASSUME NEW x \in Range(s) PROVE x \in Range(t)
      <4>1. PICK j \in 1..Len(s) : x = s[j]
        BY SequenceFacts DEF Range
      <4>2. j \in DOMAIN t /\ t[j] = x
        BY <4>1, <2>7
      <4> QED BY <4>2 DEF Range
    <3>2. ASSUME NEW x \in Range(added) PROVE x \in Range(t)
      <4>1. PICK j \in 1..m : x = added[j]
        BY <2>4 DEF Range
      <4>2. Len(s) + j \in DOMAIN t /\ t[Len(s) + j] = added[(Len(s) + j) - Len(s)]
        BY <4>1, <2>7
      <4>3. (Len(s) + j) - Len(s) = j
        BY <2>7, <4>1
      <4> QED BY <4>1, <4>2, <4>3 DEF Range
    <3> QED BY <3>1, <3>2
  <2>10. \A j \in (Len(s) + 1)..Len(t) : ~ t[j].activation
    <3> SUFFICES ASSUME NEW j \in (Len(s) + 1)..Len(t) PROVE ~ t[j].activation
      OBVIOUS
    <3>1. j - Len(s) \in 1..m
      BY <2>7
    <3> QED BY <3>1, <2>3, <2>7
  <2>11. Grows(s, t, ImportSites(d, import))
    BY <2>2, <2>7, <2>8, <2>9, <2>10 DEF Grows
  <2> QED BY <2>6, <2>11 DEF t
<1> QED BY <1>1, <1>2

LEMMA RecordRefGrows ==
  ASSUME NEW d, NEW s, IsSequence(s), NEW ref
  PROVE  Grows(s, RecordRef(d, s, ref), RefSites(d, ref))
<1> DEFINE export == receivers[d][ref.receiver]
           x == Site(Append(export, ref.member), FALSE, ref.line)
<1>1. CASE export = NoExport
  BY <1>1, GrowsNot DEF RecordRef, RefSites
<1>2. CASE export # NoExport
  <2>1. RecordRef(d, s, ref) = Append(s, x) /\ RefSites(d, ref) = {x} /\ ~ x.activation
    BY <1>2 DEF RecordRef, RefSites, Site
  <2> HIDE DEF x
  <2>2. Grows(s, Append(s, x), {x})
    BY <2>1, AppendGrows, SequenceFacts DEF Grows
  <2> QED BY <2>1, <2>2
<1> QED BY <1>1, <1>2

AllImportSites(d, imports) == UNION {ImportSites(d, imports[k]) : k \in 1..Len(imports)}

LEMMA ImportsRecorded ==
  ASSUME NEW d, NEW s, IsSequence(s), NEW S, NEW imports \in Seq(S),
         \A k \in 1..Len(imports) : IsSequence(imports[k].names)
  PROVE  Grows(s, ImportsAdded(d, s, imports), AllImportSites(d, imports))
<1> DEFINE n == Len(imports)
           added == [k \in 1..n |-> ImportSites(d, imports[k])]
           E == Range(s) \cup AddedBy(added, n)
<1>1. n \in Nat
  OBVIOUS
<1>2. s \in Seq(E)
  BY SequenceIn
<1>3. ASSUME NEW t \in Seq(E), NEW k \in 1..n PROVE RecordImport(d, t, imports[k]) \in Seq(E)
  <2>1. Grows(t, RecordImport(d, t, imports[k]), added[k]) /\ added[k] \subseteq E
    BY RecordImportGrows, SequenceIn DEF AddedBy
  <2>2. Range(t) \subseteq E
    BY SequenceIn
  <2> HIDE DEF E, added
  <2> QED BY <2>1, <2>2, SequenceIn DEF Grows
<1>4. PICK g : AddingImports(g, d, Seq(E), s, imports)
  <2> HIDE DEF E
  <2> QED BY <1>2, <1>3, ImportsTrace
<1>5. \A k \in 1..n : IsSequence(g[k - 1]) => Grows(g[k - 1], g[k], added[k])
  BY <1>4, RecordImportGrows DEF AddingImports
<1>6. Grows(g[0], g[n], AddedBy(added, n))
  <2> HIDE DEF added, n
  <2>1. IsSequence(g[0])
    BY <1>4 DEF AddingImports
  <2> QED BY <1>1, <1>5, <2>1, GrowsTrace
<1>7. AddedBy(added, n) = AllImportSites(d, imports)
  BY DEF AddedBy, AllImportSites
<1> QED BY <1>4, <1>6, <1>7 DEF AddingImports

AllRefSites(d, refs) == UNION {RefSites(d, refs[k]) : k \in 1..Len(refs)}

LEMMA RefsRecorded ==
  ASSUME NEW d, NEW s, IsSequence(s), NEW S, NEW refs \in Seq(S)
  PROVE  Grows(s, RefsAdded(d, s, refs), AllRefSites(d, refs))
<1> DEFINE n == Len(refs)
           added == [k \in 1..n |-> RefSites(d, refs[k])]
           E == Range(s) \cup AddedBy(added, n)
<1>1. n \in Nat
  OBVIOUS
<1>2. s \in Seq(E)
  BY SequenceIn
<1>3. ASSUME NEW t \in Seq(E), NEW k \in 1..n PROVE RecordRef(d, t, refs[k]) \in Seq(E)
  <2>1. Grows(t, RecordRef(d, t, refs[k]), added[k]) /\ added[k] \subseteq E
    BY RecordRefGrows, SequenceIn DEF AddedBy
  <2>2. Range(t) \subseteq E
    BY SequenceIn
  <2> HIDE DEF E, added
  <2> QED BY <2>1, <2>2, SequenceIn DEF Grows
<1>4. PICK g : AddingRefs(g, d, Seq(E), s, refs)
  <2> HIDE DEF E
  <2> QED BY <1>2, <1>3, RefsTrace
<1>5. \A k \in 1..n : IsSequence(g[k - 1]) => Grows(g[k - 1], g[k], added[k])
  BY <1>4, RecordRefGrows DEF AddingRefs
<1>6. Grows(g[0], g[n], AddedBy(added, n))
  <2> HIDE DEF added, n
  <2>1. IsSequence(g[0])
    BY <1>4 DEF AddingRefs
  <2> QED BY <1>1, <1>5, <2>1, GrowsTrace
<1>7. AddedBy(added, n) = AllRefSites(d, refs)
  BY DEF AddedBy, AllRefSites
<1> QED BY <1>4, <1>6, <1>7 DEF AddingRefs

(* A literal that is an activation of the dependency adds one site, unless *)
(* there is a site of that name on its line.                               *)

LEMMA AddActivationTwice ==
  ASSUME NEW s, IsSequence(s), NEW literal
  PROVE  /\ IsSequence(AddActivation(s, literal))
         /\ AddActivation(AddActivation(s, literal), literal) = AddActivation(s, literal)
<1> DEFINE x == Site(literal.text, TRUE, literal.line)
<1>1. CASE HasSite(s, literal)
  BY <1>1 DEF AddActivation
<1>2. CASE ~ HasSite(s, literal)
  <2>1. AddActivation(s, literal) = Append(s, x)
    BY <1>2 DEF AddActivation
  <2>2. IsSequence(Append(s, x)) /\ Len(s) + 1 \in DOMAIN Append(s, x) /\ Append(s, x)[Len(s) + 1] = x
    <3> HIDE DEF x
    <3>1. IsSequence(Append(s, x)) /\ Len(Append(s, x)) = Len(s) + 1 /\ Append(s, x)[Len(s) + 1] = x
      BY AppendGrows
    <3>2. DOMAIN Append(s, x) = 1..Len(Append(s, x)) /\ Len(s) \in Nat
      BY <3>1, SequenceFacts
    <3> QED BY <3>1, <3>2
  <2>3. HasSite(Append(s, x), literal)
    BY <2>2 DEF HasSite
  <2> QED BY <2>1, <2>2, <2>3 DEF AddActivation
<1> QED BY <1>1, <1>2

LEMMA RecordLiteralIs ==
  ASSUME NEW d \in Deps, NEW s, IsSequence(s), NEW literal
  PROVE  RecordLiteral(d, s, literal) =
           IF literal.text \in Range(Activations[d]) THEN AddActivation(s, literal) ELSE s
<1> DEFINE seq == Activations[d]
           n == Len(seq)
           V == {s, AddActivation(s, literal)}
<1>1. IsSequence(seq) /\ n \in Nat /\ DOMAIN seq = 1..n /\ seq \in Seq(Range(seq))
  <2>1. IsSequence(seq)
    BY UsageScanAssumption
  <2> QED BY <2>1, SequenceFacts DEF IsSequence
<1>2. s \in V /\ \A t \in V, i \in 1..n : AddIfConfigured(t, seq[i], literal) \in V
  BY AddActivationTwice DEF AddIfConfigured
<1>3. PICK g : AddingConfigured(g, literal, V, s, seq)
  <2> HIDE DEF V, seq
  <2> QED BY <1>1, <1>2, ConfiguredTrace
<1>4. RecordLiteral(d, s, literal) = g[n]
  BY <1>3, Zenon DEF RecordLiteral, AddingConfigured, ConfiguredAdded
<1> HIDE DEF seq
<1> DEFINE P(k) == g[k] = IF \E i \in 1..k : seq[i] = literal.text
                          THEN AddActivation(s, literal) ELSE s
           T == {k \in Nat : k <= n => P(k)}
<1>5. 0 \in T
  BY <1>3 DEF AddingConfigured
<1>6. ASSUME NEW k \in Nat, k \in T PROVE k + 1 \in T
  <2> SUFFICES ASSUME k + 1 <= n PROVE P(k + 1)
    OBVIOUS
  <2>1. k + 1 \in 1..n /\ (k + 1) - 1 = k /\ P(k)
    BY <1>1, <1>6
  <2>2. g[k + 1] = AddIfConfigured(g[k], seq[k + 1], literal)
    BY <2>1, <1>3 DEF AddingConfigured
  <2>3. (\E i \in 1..(k + 1) : seq[i] = literal.text)
          <=> (\E i \in 1..k : seq[i] = literal.text) \/ seq[k + 1] = literal.text
    <3>1. 1..(k + 1) = (1..k) \cup {k + 1}
      OBVIOUS
    <3> QED BY <3>1
  <2> QED BY <2>1, <2>2, <2>3, AddActivationTwice DEF AddIfConfigured
<1>7. P(n)
  <2> HIDE DEF T
  <2>1. n \in T
    BY <1>1, <1>5, <1>6, NextNumbers
  <2> QED BY <2>1, <1>1 DEF T
<1> QED BY <1>1, <1>4, <1>7 DEF Range, seq

(* What a sequence of sites has become when literals were recorded.        *)
Activated(s, t, added) ==
  /\ IsSequence(t) /\ (Once(s) => Once(t))
  /\ Range(t) = Range(s) \cup added
  /\ \A x \in added : x.activation

LiteralSites(d, s, literal) ==
  IF literal.text \in Range(Activations[d]) /\ Site(literal.text, FALSE, literal.line) \notin Range(s)
  THEN {Site(literal.text, TRUE, literal.line)} ELSE {}

LEMMA RecordLiteralActivates ==
  ASSUME NEW d \in Deps, NEW s, IsSequence(s), NEW literal
  PROVE  Activated(s, RecordLiteral(d, s, literal), LiteralSites(d, s, literal))
<1> DEFINE x == Site(literal.text, TRUE, literal.line)
           y == Site(literal.text, FALSE, literal.line)
           t == RecordLiteral(d, s, literal)
<1>1. HasSite(s, literal) <=> x \in Range(s) \/ y \in Range(s)
  BY DEF HasSite, Range
<1>2. x.activation /\ \A kind \in BOOLEAN : [x EXCEPT !.activation = kind] = Site(literal.text, kind, literal.line)
  BY DEF Site
<1>3. CASE literal.text \notin Range(Activations[d])
  BY <1>3, RecordLiteralIs DEF Activated, LiteralSites
<1>4. CASE literal.text \in Range(Activations[d]) /\ HasSite(s, literal)
  <2>1. t = s
    BY <1>4, RecordLiteralIs DEF AddActivation
  <2>2. LiteralSites(d, s, literal) \subseteq Range(s) \cap {x}
    BY <1>1, <1>4 DEF LiteralSites
  <2> HIDE DEF t, x, y
  <2>3. Activated(s, t, LiteralSites(d, s, literal))
    BY <2>1, <2>2, <1>2 DEF Activated
  <2> QED BY <2>3 DEF t
<1>5. CASE literal.text \in Range(Activations[d]) /\ ~ HasSite(s, literal)
  <2>1. t = Append(s, x) /\ LiteralSites(d, s, literal) = {x}
    BY <1>1, <1>5, RecordLiteralIs DEF AddActivation, LiteralSites
  <2> HIDE DEF t, x
  <2>2. /\ IsSequence(t) /\ Range(t) = Range(s) \cup {x} /\ Len(t) = Len(s) + 1 /\ t[Len(s) + 1] = x
        /\ \A i \in 1..Len(s) : t[i] = s[i]
        /\ Len(s) \in Nat /\ DOMAIN s = 1..Len(s) /\ DOMAIN t = 1..(Len(s) + 1)
    BY <2>1, AppendGrows, SequenceFacts
  <2>3. ASSUME Once(s) PROVE Once(t)
    <3> SUFFICES ASSUME NEW j \in DOMAIN t, t[j].activation, NEW i \in 1..(j - 1), NEW kind \in BOOLEAN,
                        t[i] = [t[j] EXCEPT !.activation = kind]
                 PROVE  FALSE
      BY DEF Once
    <3>1. i \in 1..Len(s) /\ t[i] = s[i]
      BY <2>2
    <3>2. CASE j = Len(s) + 1
      <4>1. s[i] = Site(literal.text, kind, literal.line)
        BY <3>1, <3>2, <2>2, <1>2
      <4> QED BY <4>1, <3>1, <2>2, <1>5 DEF HasSite
    <3>3. CASE j # Len(s) + 1
      <4>1. j \in DOMAIN s /\ t[j] = s[j]
        BY <3>3, <2>2
      <4> QED BY <4>1, <3>1, <2>3 DEF Once
    <3> QED BY <3>2, <3>3
  <2>4. Activated(s, t, LiteralSites(d, s, literal))
    BY <2>1, <2>2, <2>3, <1>2 DEF Activated
  <2> QED BY <2>4 DEF t
<1> QED BY <1>3, <1>4, <1>5

AllLiteralSites(d, s, literals) == UNION {LiteralSites(d, s, literals[k]) : k \in 1..Len(literals)}

LEMMA LiteralsRecorded ==
  ASSUME NEW d \in Deps, NEW s, IsSequence(s), NEW S, NEW literals \in Seq(S)
  PROVE  Activated(s, LiteralsAdded(d, s, literals),
                   AllLiteralSites(d, s, literals))
<1> DEFINE n == Len(literals)
           added == [k \in 1..n |-> LiteralSites(d, s, literals[k])]
           new == [k \in 1..n |-> {Site(literals[k].text, TRUE, literals[k].line)}]
           E == Range(s) \cup AddedBy(new, n)
<1>1. n \in Nat
  OBVIOUS
<1>2. s \in Seq(E)
  BY SequenceIn
<1>3. ASSUME NEW t \in Seq(E), NEW k \in 1..n PROVE RecordLiteral(d, t, literals[k]) \in Seq(E)
  <2>1. IsSequence(t) /\ Range(t) \subseteq E
    BY SequenceIn
  <2>2. LiteralSites(d, t, literals[k]) \subseteq new[k] /\ new[k] \subseteq E
    BY DEF LiteralSites, AddedBy
  <2>3. Activated(t, RecordLiteral(d, t, literals[k]), LiteralSites(d, t, literals[k]))
    BY <2>1, RecordLiteralActivates
  <2> HIDE DEF E, new
  <2> QED BY <2>1, <2>2, <2>3, SequenceIn DEF Activated
<1>4. PICK g : AddingLiterals(g, d, Seq(E), s, literals)
  <2> HIDE DEF E
  <2> QED BY <1>2, <1>3, LiteralsTrace
<1> HIDE DEF E, new
<1> DEFINE P(k) == Activated(s, g[k], AddedBy(added, k))
           T == {k \in Nat : k <= n => P(k)}
<1>5. 0 \in T
  <2>1. AddedBy(added, 0) = {} /\ g[0] = s
    BY <1>4 DEF AddedBy, AddingLiterals
  <2> QED BY <2>1 DEF Activated
<1>6. ASSUME NEW k \in Nat, k \in T PROVE k + 1 \in T
  <2> SUFFICES ASSUME k + 1 <= n PROVE P(k + 1)
    OBVIOUS
  <2> DEFINE literal == literals[k + 1]
             more == LiteralSites(d, s, literal)
  <2>1. k + 1 \in 1..n /\ (k + 1) - 1 = k /\ P(k)
    BY <1>1, <1>6
  <2>2. g[k + 1] = RecordLiteral(d, g[k], literal)
    BY <2>1, <1>4 DEF AddingLiterals
  <2>3. Site(literal.text, FALSE, literal.line) \in Range(g[k])
          <=> Site(literal.text, FALSE, literal.line) \in Range(s)
    <3>1. ~ Site(literal.text, FALSE, literal.line).activation
      BY DEF Site
    <3> HIDE DEF literal
    <3> QED BY <2>1, <3>1 DEF Activated
  <2>4. LiteralSites(d, g[k], literal) = more
    BY <2>3 DEF LiteralSites
  <2>5. Activated(g[k], g[k + 1], more)
    BY <2>1, <2>2, <2>4, RecordLiteralActivates DEF Activated
  <2>6. AddedBy(added, k + 1) = AddedBy(added, k) \cup more
    <3>1. 1..(k + 1) = (1..k) \cup {k + 1} /\ added[k + 1] = more
      BY <2>1
    <3> HIDE DEF more, added
    <3> QED BY <3>1 DEF AddedBy
  <2> HIDE DEF more, added
  <2> QED BY <2>1, <2>5, <2>6 DEF Activated
<1>7. P(n)
  <2> HIDE DEF T
  <2>1. n \in T
    BY <1>1, <1>5, <1>6, NextNumbers
  <2> QED BY <2>1, <1>1 DEF T
<1>8. AddedBy(added, n) = AllLiteralSites(d, s, literals)
  BY DEF AddedBy, AllLiteralSites
<1> QED BY <1>4, <1>7, <1>8 DEF AddingLiterals

-----------------------------------------------------------------------------
(* What the imports of a file bind its local identifiers to.               *)

IsBinding(b) == b = [l \in Locals |-> b[l]]

Exported(import, local) ==
  IF import.kind = "named" THEN <<import.names[Max(BoundNames(import, local))].name>>
  ELSE import.module

LEMMA NamesBind ==
  ASSUME NEW b, IsBinding(b), NEW S, NEW names \in Seq(S)
  PROVE  /\ IsBinding(NamesBound(b, names))
         /\ \A l \in Locals : NamesBound(b, names)[l] =
              LET binding == {i \in DOMAIN names : Local(names[i]) = l}
              IN IF binding # {} THEN <<names[Max(binding)].name>> ELSE b[l]
<1> DEFINE n == Len(names)
           E == Range(b) \cup {<<names[k].name>> : k \in 1..n}
           V == [Locals -> E]
<1>1. n \in Nat /\ DOMAIN names = 1..n
  OBVIOUS
<1>2. b \in V
  BY DEF IsBinding, Range
<1>3. ASSUME NEW c \in V, NEW k \in 1..n PROVE BindName(c, names[k]) \in V
  BY DEF BindName
<1>4. PICK g : BindingNames(g, V, b, names)
  <2> HIDE DEF V
  <2> QED BY <1>2, <1>3, NamesTrace
<1>5. \A k \in 0..n : g[k] \in V
  BY <1>4 DEF BindingNames
<1> HIDE DEF E
<1> SUFFICES ASSUME NEW l \in Locals
             PROVE  NamesBound(b, names)[l] =
                      LET binding == {i \in DOMAIN names : Local(names[i]) = l}
                      IN IF binding # {} THEN <<names[Max(binding)].name>> ELSE b[l]
  <2>1. n \in 0..n /\ g[n] = NamesBound(b, names)
    BY <1>1, <1>4 DEF BindingNames
  <2> QED BY <2>1, <1>5 DEF IsBinding
<1> DEFINE B(k) == {i \in 1..k : Local(names[i]) = l}
           P(k) == g[k][l] = IF B(k) # {} THEN <<names[Max(B(k))].name>> ELSE b[l]
           T == {k \in Nat : k <= n => P(k)}
<1>6. 0 \in T
  <2>1. B(0) = {} /\ g[0] = b
    BY <1>4 DEF BindingNames
  <2> QED BY <2>1
<1>7. ASSUME NEW k \in Nat, k \in T PROVE k + 1 \in T
  <2> SUFFICES ASSUME k + 1 <= n PROVE P(k + 1)
    OBVIOUS
  <2>1. k + 1 \in 1..n /\ (k + 1) - 1 = k /\ P(k) /\ g[k] \in V
    BY <1>1, <1>5, <1>7
  <2>2. g[k + 1] = [g[k] EXCEPT ![Local(names[k + 1])] = <<names[k + 1].name>>]
    BY <2>1, <1>4 DEF BindingNames, BindName
  <2>3. CASE Local(names[k + 1]) = l
    <3>1. k + 1 \in B(k + 1) /\ B(k + 1) \subseteq 1..(k + 1) /\ k + 1 \in Nat
      BY <2>3
    <3>2. Max(B(k + 1)) = k + 1 /\ B(k + 1) # {}
      <4> HIDE DEF B
      <4> QED BY <3>1, LargestOf
    <3>3. g[k + 1][l] = <<names[k + 1].name>>
      BY <2>1, <2>2, <2>3
    <3> HIDE DEF B
    <3> QED BY <3>2, <3>3
  <2>4. CASE Local(names[k + 1]) # l
    <3>1. B(k + 1) = B(k)
      BY <2>4
    <3>2. g[k + 1][l] = g[k][l]
      BY <2>1, <2>2, <2>4
    <3> HIDE DEF B
    <3> QED BY <2>1, <3>1, <3>2
  <2> QED BY <2>3, <2>4
<1>8. P(n)
  <2> HIDE DEF T
  <2>1. n \in T
    BY <1>1, <1>6, <1>7, NextNumbers
  <2> QED BY <2>1, <1>1 DEF T
<1>9. B(n) = {i \in DOMAIN names : Local(names[i]) = l} /\ g[n] = NamesBound(b, names)
  BY <1>1, <1>4 DEF BindingNames
<1> HIDE DEF B
<1> QED BY <1>8, <1>9

LEMMA ImportBinds ==
  ASSUME NEW b, IsBinding(b), NEW import, IsSequence(import.names)
  PROVE  /\ IsBinding(Bind(b, import))
         /\ \A l \in Locals : Bind(b, import)[l] =
              IF BoundNames(import, l) # {} THEN Exported(import, l) ELSE b[l]
<1>1. CASE import.kind = "named"
  <2>1. Bind(b, import) = NamesBound(b, import.names)
    BY <1>1, Zenon DEF Bind, NamesBound
  <2>2. import.names \in Seq(Range(import.names))
    BY DEF IsSequence
  <2>3. ASSUME NEW l \in Locals
        PROVE  NamesBound(b, import.names)[l] =
                 IF BoundNames(import, l) # {} THEN Exported(import, l) ELSE b[l]
    <3>1. BoundNames(import, l) = {i \in DOMAIN import.names : Local(import.names[i]) = l}
      BY <1>1 DEF BoundNames
    <3> QED BY <3>1, <2>2, <1>1, NamesBind DEF Exported
  <2>4. IsBinding(NamesBound(b, import.names))
    BY <2>2, NamesBind
  <2> QED BY <2>1, <2>3, <2>4
<1>2. CASE import.kind = "module" /\ ModuleAlias(import) # None
  <2>1. Bind(b, import) = [b EXCEPT ![ModuleAlias(import)] = import.module]
    BY <1>2, Zenon DEF Bind
  <2> QED BY <2>1, <1>2 DEF IsBinding, BoundNames, Exported
<1>3. CASE import.kind # "named" /\ ~ (import.kind = "module" /\ ModuleAlias(import) # None)
  <2>1. Bind(b, import) = b
    BY <1>3, Zenon DEF Bind
  <2>2. \A l \in Locals : BoundNames(import, l) = {}
    BY <1>3, UsageScanAssumption DEF BoundNames
  <2> QED BY <2>1, <2>2
<1> QED BY <1>1, <1>2, <1>3

(* The last import to bind a local decides what it stands for. *)
BoundBy(d, b, imports, r) ==
  /\ IsBinding(r)
  /\ \A l \in Locals : r[l] =
       LET binding == {i \in DOMAIN imports : /\ imports[i].module \in Provides[d]
                                              /\ BoundNames(imports[i], l) # {}}
       IN IF binding # {} THEN Exported(imports[Max(binding)], l) ELSE b[l]

LEMMA ImportsBind ==
  ASSUME NEW d, NEW b, IsBinding(b), NEW S, NEW imports \in Seq(S),
         \A k \in 1..Len(imports) : IsSequence(imports[k].names)
  PROVE  BoundBy(d, b, imports, ImportsBound(d, b, imports))
<1> DEFINE n == Len(imports)
           E == Range(b) \cup {Exported(imports[k], l) : k \in 1..n, l \in Locals}
           V == [Locals -> E]
<1>1. n \in Nat /\ DOMAIN imports = 1..n
  OBVIOUS
<1>2. b \in V
  BY DEF IsBinding, Range
<1>3. ASSUME NEW c \in V, NEW k \in 1..n
      PROVE  /\ BindImport(d, c, imports[k]) \in V
             /\ \A l \in Locals : BindImport(d, c, imports[k])[l] =
                  IF imports[k].module \in Provides[d] /\ BoundNames(imports[k], l) # {}
                  THEN Exported(imports[k], l) ELSE c[l]
  <2>1. CASE imports[k].module \notin Provides[d]
    BY <2>1 DEF BindImport
  <2>2. CASE imports[k].module \in Provides[d]
    <3>1. IsBinding(c)
      BY DEF IsBinding
    <3> DEFINE r == Bind(c, imports[k])
    <3>2. /\ IsBinding(r)
          /\ \A l \in Locals : r[l] = IF BoundNames(imports[k], l) # {}
                                      THEN Exported(imports[k], l) ELSE c[l]
      BY <3>1, ImportBinds
    <3>3. BindImport(d, c, imports[k]) = r
      BY <2>2 DEF BindImport
    <3> HIDE DEF r
    <3>4. \A l \in Locals : r[l] \in E
      BY <3>2
    <3>5. r \in V
      BY <3>2, <3>4 DEF IsBinding
    <3> QED BY <3>2, <3>3, <3>5, <2>2
  <2> QED BY <2>1, <2>2
<1>4. PICK g : BindingImports(g, d, V, b, imports)
  <2> HIDE DEF V
  <2> QED BY <1>2, <1>3, BindTrace
<1>5. \A k \in 0..n : g[k] \in V
  BY <1>4 DEF BindingImports
<1> HIDE DEF E
<1> SUFFICES ASSUME NEW l \in Locals
             PROVE  ImportsBound(d, b, imports)[l] =
                      LET binding == {i \in DOMAIN imports : /\ imports[i].module \in Provides[d]
                                                             /\ BoundNames(imports[i], l) # {}}
                      IN IF binding # {} THEN Exported(imports[Max(binding)], l) ELSE b[l]
  <2>1. n \in 0..n /\ g[n] = ImportsBound(d, b, imports)
    BY <1>1, <1>4 DEF BindingImports
  <2> QED BY <2>1, <1>5 DEF IsBinding, BoundBy
<1> DEFINE Binds(i) == imports[i].module \in Provides[d] /\ BoundNames(imports[i], l) # {}
           B(k) == {i \in 1..k : Binds(i)}
           P(k) == g[k][l] = IF B(k) # {} THEN Exported(imports[Max(B(k))], l) ELSE b[l]
           T == {k \in Nat : k <= n => P(k)}
<1>6. 0 \in T
  <2>1. B(0) = {} /\ g[0] = b
    BY <1>4 DEF BindingImports
  <2> QED BY <2>1
<1>7. ASSUME NEW k \in Nat, k \in T PROVE k + 1 \in T
  <2> SUFFICES ASSUME k + 1 <= n PROVE P(k + 1)
    <3> HIDE DEF P, n
    <3> QED OBVIOUS
  <2>1. k + 1 \in 1..n /\ (k + 1) - 1 = k /\ P(k) /\ g[k] \in V
    <3> HIDE DEF P, V, n
    <3> QED BY <1>1, <1>5, <1>7
  <2>2. g[k + 1] = BindImport(d, g[k], imports[k + 1])
    BY <2>1, <1>4 DEF BindingImports
  <2>3. g[k + 1][l] = IF Binds(k + 1) THEN Exported(imports[k + 1], l) ELSE g[k][l]
    <3>1. \A x \in Locals : BindImport(d, g[k], imports[k + 1])[x] =
            IF imports[k + 1].module \in Provides[d] /\ BoundNames(imports[k + 1], x) # {}
            THEN Exported(imports[k + 1], x) ELSE g[k][x]
      <4> HIDE DEF V
      <4> QED BY <2>1, <1>3
    <3> QED BY <3>1, <2>2
  <2>4. CASE Binds(k + 1)
    <3>1. k + 1 \in B(k + 1) /\ B(k + 1) \subseteq 1..(k + 1) /\ k + 1 \in Nat
      <4> HIDE DEF Binds
      <4> QED BY <2>4
    <3>2. Max(B(k + 1)) = k + 1 /\ B(k + 1) # {}
      <4> HIDE DEF B
      <4> QED BY <3>1, LargestOf
    <3> HIDE DEF B, Binds
    <3> QED BY <3>2, <2>3, <2>4
  <2>5. CASE ~ Binds(k + 1)
    <3>1. B(k + 1) = B(k)
      <4> HIDE DEF Binds
      <4> QED BY <2>5
    <3> HIDE DEF B, Binds
    <3> QED BY <2>1, <2>3, <2>5, <3>1
  <2> HIDE DEF Binds
  <2> QED BY <2>4, <2>5
<1>8. P(n)
  <2> HIDE DEF T
  <2>1. n \in T
    BY <1>1, <1>6, <1>7, NextNumbers
  <2> HIDE DEF P
  <2> QED BY <2>1, <1>1 DEF T
<1>9. /\ B(n) = {i \in DOMAIN imports : /\ imports[i].module \in Provides[d]
                                        /\ BoundNames(imports[i], l) # {}}
      /\ g[n] = ImportsBound(d, b, imports)
  BY <1>1, <1>4 DEF BindingImports
<1> HIDE DEF B
<1> QED BY <1>8, <1>9

-----------------------------------------------------------------------------
(* What the recorded sites are, and that every step keeps the invariant.   *)

LEMMA FileTypes ==
  ASSUME ScanInv, NEW f \in 1..Len(tree)
  PROVE  /\ f \in DOMAIN tree /\ tree[f].status \in Statuses
         /\ IsSequence(tree[f].imports) /\ IsSequence(tree[f].literals) /\ IsSequence(tree[f].refs)
         /\ \A i \in 1..Len(tree[f].imports) : IsSequence(tree[f].imports[i].names)
         /\ \A i \in 1..Len(tree[f].refs) : tree[f].refs[i].receiver \in Locals
<1>1. f \in DOMAIN tree /\ tree \in Trees
  BY InputTypes DEF ScanInv, ScanTypes
<1>2. /\ tree[f].status \in Statuses
      /\ IsSequence(tree[f].imports) /\ IsSequence(tree[f].literals) /\ IsSequence(tree[f].refs)
      /\ \A i \in DOMAIN tree[f].imports : IsSequence(tree[f].imports[i].names)
      /\ \A i \in DOMAIN tree[f].refs : tree[f].refs[i].receiver \in Locals
  BY <1>1, UsageScanAssumption
<1>3. DOMAIN tree[f].imports = 1..Len(tree[f].imports) /\ DOMAIN tree[f].refs = 1..Len(tree[f].refs)
  BY <1>2, SequenceFacts
<1> QED BY <1>1, <1>2, <1>3

Binding(d, f, l) == {i \in ImportsFound(d, f) : BoundNames(tree[f].imports[i], l) # {}}

(* StandsFor, in two steps. *)
Meaning(d, f, l, binding) ==
  IF binding # {} THEN Exported(tree[f].imports[Max(binding)], l)
  ELSE IF Ecosystem[d] \in Seeded /\ <<l>> \in Provides[d] THEN <<l>> ELSE NoExport

LEMMA TreeKept ==
  ASSUME tree' = tree, NEW d
  PROVE  /\ \A f : NamesAt(d, f)' = NamesAt(d, f) /\ MembersAt(d, f)' = MembersAt(d, f)
                   /\ ActivationsAt(d, f)' = ActivationsAt(d, f)
         /\ \A f, l : StandsFor(d, f, l)' = StandsFor(d, f, l)
         /\ \A k : Scanned(d, k)' = Scanned(d, k)
         /\ ExpectedSites(d)' = ExpectedSites(d)
<1>1. \A f : ImportsFound(d, f)' = ImportsFound(d, f)
  BY DEF ImportsFound
<1>2. \A f, l : StandsFor(d, f, l)' = StandsFor(d, f, l)
  <2> SUFFICES ASSUME NEW f, NEW l PROVE StandsFor(d, f, l)' = StandsFor(d, f, l)
    OBVIOUS
  <2>1. StandsFor(d, f, l) = Meaning(d, f, l, Binding(d, f, l))
    BY DEF StandsFor, Meaning, Binding, Exported
  <2>2. StandsFor(d, f, l)' = Meaning(d, f, l, Binding(d, f, l))'
    BY DEF StandsFor, Meaning, Binding, Exported
  <2>3. Binding(d, f, l)' = Binding(d, f, l)
    BY <1>1 DEF Binding
  <2>4. \A b : Meaning(d, f, l, b)' = Meaning(d, f, l, b)
    BY DEF Meaning
  <2> QED BY <2>1, <2>2, <2>3, <2>4
<1>3. \A f : NamesAt(d, f)' = NamesAt(d, f)
  BY <1>1 DEF NamesAt
<1>4. \A f : MembersAt(d, f)' = MembersAt(d, f)
  BY <1>2 DEF MembersAt
<1>5. \A f : ActivationsAt(d, f)' = ActivationsAt(d, f)
  BY <1>3 DEF ActivationsAt
<1>6. \A f : FileSites(d, f)' = FileSites(d, f)
  BY <1>3, <1>4, <1>5 DEF FileSites
<1>7. Eligible(d)' = Eligible(d)
  BY DEF Eligible
<1>8. \A k : Scanned(d, k)' = Scanned(d, k)
  BY <1>6, <1>7 DEF Scanned
<1>9. ExpectedSites(d)' = ExpectedSites(d)
  BY <1>3, <1>4, <1>5 DEF ExpectedSites
<1> QED BY <1>2, <1>3, <1>4, <1>5, <1>8, <1>9

LEMMA ScannedFacts ==
  ASSUME ScanInv, NEW d
  PROVE  /\ Scanned(d, 1) = {}
         /\ Scanned(d, Len(tree) + 1) = ExpectedSites(d)
         /\ \A k \in 1..Len(tree) :
              Scanned(d, k + 1) = Scanned(d, k) \cup (IF k \in Eligible(d) THEN FileSites(d, k) ELSE {})
<1>1. Len(tree) \in Nat /\ Eligible(d) \subseteq 1..Len(tree)
  BY InputTypes DEF ScanInv, ScanTypes, Eligible
<1>2. Scanned(d, 1) = {}
  <2>1. {g \in Eligible(d) : g < 1} = {}
    BY <1>1
  <2> QED BY <2>1 DEF Scanned
<1>3. Scanned(d, Len(tree) + 1) = ExpectedSites(d)
  <2>1. {g \in Eligible(d) : g < Len(tree) + 1} = Eligible(d)
    BY <1>1
  <2> QED BY <2>1 DEF Scanned, ExpectedSites, Eligible, FileSites
<1>4. ASSUME NEW k \in 1..Len(tree)
      PROVE  Scanned(d, k + 1) = Scanned(d, k) \cup (IF k \in Eligible(d) THEN FileSites(d, k) ELSE {})
  <2>1. {g \in Eligible(d) : g < k + 1} =
          {g \in Eligible(d) : g < k} \cup (IF k \in Eligible(d) THEN {k} ELSE {})
    BY <1>1
  <2> QED BY <2>1 DEF Scanned
<1> QED BY <1>2, <1>3, <1>4

LEMMA TargetsAre ==
  ASSUME ScanInv, order # <<>>
  PROVE  /\ Targets \subseteq Deps \ Unresolvable
         /\ \A d \in Deps : d \in Targets <=> /\ Ecosystem[d] = Head(order)
                                              /\ d \notin Unresolvable /\ Asked(d)
<1>1. order \in Seq(Ecosystems) /\ Head(order) \in Ecosystems
  BY DEF ScanInv, ScanTypes
<1>2. Targets = Range(groups[Head(order)])
  BY DEF Targets
<1>3. Range(groups[Head(order)]) \subseteq Deps \ Unresolvable
  BY <1>1 DEF ScanInv, TypeOK, Range
<1> QED BY <1>1, <1>2, <1>3 DEF ScanInv, GroupInv

LEMMA SurfaceInit == Init => SurfaceInv
<1> SUFFICES ASSUME Init PROVE SurfaceInv
  OBVIOUS
<1>1. ScanInv
  BY ScanInit
<1>2. FileInv
  BY DEF Init, FileInv
<1>3. IsSequence(<<>>) /\ Once(<<>>)
  BY DEF IsSequence, Once
<1>4. SitesInv
  BY <1>3 DEF Init, SitesInv, Walking
<1> QED BY <1>1, <1>2, <1>4 DEF SurfaceInv

LEMMA CancelSurface ==
  ASSUME SurfaceInv, ScanInv', Cancel \/ UNCHANGED vars
  PROVE  SurfaceInv'
<1>1. /\ tree' = tree /\ pc' = pc /\ order' = order /\ groups' = groups /\ file' = file
      /\ receivers' = receivers /\ sites' = sites /\ results' = results
  BY DEF Cancel, vars, inputs
<1>2. Targets' = Targets /\ \A d : SeedReceivers(d)' = SeedReceivers(d)
  BY <1>1 DEF Targets, SeedReceivers
<1>3. \A d : Opened(d)' = Opened(d)
  <2>1. \A d : NameSites(d)' = NameSites(d) /\ ActivationSites(d)' = ActivationSites(d)
    BY <1>1, TreeKept DEF NameSites, ActivationSites, Site
  <2> QED BY <1>1, <2>1, Zenon DEF Opened
<1>4. FileInv'
  BY <1>1, <1>2, TreeKept DEF SurfaceInv, FileInv, Current
<1>5. SitesInv'
  BY <1>1, <1>2, <1>3, TreeKept DEF SurfaceInv, SitesInv
<1> QED BY <1>4, <1>5 DEF SurfaceInv

LEMMA StopSurface ==
  ASSUME SurfaceInv, ScanInv', Stop
  PROVE  SurfaceInv'
<1>1. /\ tree' = tree /\ pc' = "stopped" /\ sites' = sites
      /\ results' = [d \in Deps |-> "none"]
  BY DEF Stop, inputs
<1>2. FileInv'
  BY <1>1 DEF FileInv
<1>3. SitesInv'
  BY <1>1 DEF SurfaceInv, SitesInv, Walking
<1> QED BY <1>2, <1>3 DEF SurfaceInv

LEMMA ResolveSurface ==
  ASSUME SurfaceInv, ScanInv', Resolve
  PROVE  SurfaceInv'
<1>1. /\ tree' = tree /\ pc = "resolve" /\ pc' = "resolve" /\ sites' = sites /\ file' = file
  BY DEF Resolve, inputs
<1>2. \A d \in Deps : results'[d] \in {"none", "error"} /\ (results'[d] = "none" => results[d] = "none")
  <2>1. \A d \in Deps : results'[d] = Answer(d)'
    BY <1>1 DEF ScanInv, AnswerInv
  <2>2. results \in [Deps -> {"none", "error", "surface"}]
    BY DEF SurfaceInv, ScanInv, TypeOK
  <2>3. results' = IF requests[next] \in Unresolvable
                   THEN [results EXCEPT ![requests[next]] = "error"] ELSE results
    BY DEF Resolve
  <2>4. \A d \in Deps : Answer(d)' \in {"none", "error"}
    BY <1>1 DEF Answer
  <2> QED BY <2>1, <2>2, <2>3, <2>4
<1>3. FileInv'
  BY <1>1 DEF SurfaceInv, FileInv
<1>4. SitesInv'
  BY <1>1, <1>2 DEF SurfaceInv, SitesInv, Walking
<1> QED BY <1>3, <1>4 DEF SurfaceInv

LEMMA StartSurface ==
  ASSUME SurfaceInv, ScanInv', StartWalk
  PROVE  SurfaceInv'
<1>1. /\ tree' = tree /\ pc = "resolve" /\ pc' \in {"done", "file"} /\ sites' = sites /\ file' = file
      /\ results' = results /\ order' = order /\ groups' = groups
  BY DEF StartWalk, inputs
<1>2. \A d \in Deps : results[d] \in {"none", "error"} /\ (d \notin Unresolvable => results[d] = "none")
  <2>1. \A d \in Deps : results[d] = Answer(d)
    BY <1>1 DEF SurfaceInv, ScanInv, AnswerInv
  <2> QED BY <2>1, <1>1 DEF Answer
<1>3. \A d \in Deps : results[d] = "none" => sites[d] = <<>>
  BY <1>1 DEF SurfaceInv, SitesInv
<1>4. FileInv'
  BY <1>1 DEF FileInv
<1>5. ASSUME NEW d \in Deps, pc' \in Walking, d \in Targets'
      PROVE  Range(sites'[d]) = Scanned(d, file)' \cup Opened(d)'
  <2>1. pc' = "file" /\ order' # <<>>
    BY <1>1, <1>5 DEF Walking, ScanInv, GroupInv
  <2>2. d \notin Unresolvable
    <3>1. Targets' = Targets /\ order # <<>>
      BY <1>1, <2>1 DEF Targets
    <3> QED BY <3>1, <1>5, TargetsAre DEF SurfaceInv
  <2>3. Range(sites'[d]) = {}
    BY <1>1, <1>2, <1>3, <2>2 DEF Range
  <2>4. Scanned(d, file)' = {}
    <3>1. file = 1
      BY <1>1 DEF SurfaceInv, FileInv
    <3> QED BY <3>1, <1>1, ScannedFacts, TreeKept DEF SurfaceInv
  <2>5. Opened(d)' = {}
    BY <2>1, Zenon DEF Opened
  <2> QED BY <2>3, <2>4, <2>5
<1>6. SitesInv'
  BY <1>1, <1>2, <1>3, <1>5 DEF SurfaceInv, SitesInv
<1> QED BY <1>4, <1>6 DEF SurfaceInv

LEMMA TargetsUnanswered ==
  ASSUME ScanInv, pc \in Walking, NEW d \in Targets
  PROVE  d \in Deps /\ results[d] = "none"
<1>1. order # <<>> /\ order \in Seq(Ecosystems) /\ pc # "stopped" /\ pc # "resolve"
  BY DEF ScanInv, GroupInv, ScanTypes, Walking
<1>2. d \in Deps /\ d \notin Unresolvable /\ Ecosystem[d] = Head(order)
  BY <1>1, TargetsAre
<1>3. Head(order) \in Range(order)
  BY <1>1 DEF Range
<1>4. results[d] = Answer(d)
  BY <1>1, <1>2 DEF ScanInv, AnswerInv
<1> QED BY <1>1, <1>2, <1>3, <1>4 DEF Answer

(* The steps within the walk of an ecosystem. *)
LEMMA WalkSurface ==
  ASSUME SurfaceInv, ScanInv', FileInv', pc \in Walking, pc' \in Walking, tree' = tree,
         order' = order, groups' = groups, results' = results,
         \A d \in Deps : d \notin Targets => sites'[d] = sites[d],
         \A d \in Targets : /\ IsSequence(sites'[d]) /\ Once(sites'[d])
                            /\ Range(sites'[d]) = Scanned(d, file') \cup Opened(d)'
  PROVE  SurfaceInv'
<1>1. Targets' = Targets
  BY DEF Targets
<1>2. \A d : Scanned(d, file)' = Scanned(d, file') /\ ExpectedSites(d)' = ExpectedSites(d)
  BY TreeKept
<1>3. \A d \in Targets : results[d] = "none"
  BY TargetsUnanswered DEF SurfaceInv
<1>4. pc # "resolve" /\ pc' # "resolve" /\ pc # "stopped" /\ pc' # "stopped"
  BY DEF Walking
<1>5. ASSUME NEW d \in Deps
      PROVE  /\ IsSequence(sites'[d]) /\ Once(sites'[d])
             /\ results'[d] = "none" /\ d \notin Targets => sites'[d] = <<>>
             /\ d \in Targets => Range(sites'[d]) = Scanned(d, file)' \cup Opened(d)'
             /\ results'[d] = "surface" => Range(sites'[d]) = ExpectedSites(d)'
  BY <1>2, <1>3, <1>4 DEF SurfaceInv, SitesInv
<1>6. SitesInv'
  BY <1>1, <1>4, <1>5 DEF SitesInv
<1> QED BY <1>6 DEF SurfaceInv

(* What is known of the targets of a walk. *)
LEMMA TargetSites ==
  ASSUME SurfaceInv, pc \in Walking, NEW d \in Targets
  PROVE  /\ d \in Deps /\ IsSequence(sites[d]) /\ Once(sites[d])
         /\ Range(sites[d]) = Scanned(d, file) \cup Opened(d)
         /\ Ecosystem[d] = Head(order)
<1>1. order # <<>>
  BY DEF SurfaceInv, ScanInv, GroupInv
<1> QED BY <1>1, TargetsAre DEF SurfaceInv, SitesInv

LEMMA FileSitesAre ==
  ASSUME NEW d
  PROVE  FileSites(d, file) = NameSites(d) \cup MemberSites(d) \cup ActivationSites(d)
BY DEF FileSites, NameSites, MemberSites, ActivationSites, Site

LEMMA SkipSurface ==
  ASSUME SurfaceInv, ScanInv', SkipFile
  PROVE  SurfaceInv'
<1>1. /\ tree' = tree /\ pc = "file" /\ pc' = "file" /\ sites' = sites /\ file' = file + 1
      /\ results' = results /\ order' = order /\ groups' = groups /\ file <= Len(tree)
      /\ Head(order) \notin tree[file].ecosystems \/ tree[file].status \in {"excluded", "unreadable"}
  BY DEF SkipFile, inputs, Current
<1>2. file \in 1..Len(tree)
  BY <1>1, InputTypes DEF SurfaceInv, ScanInv, ScanTypes, TypeOK
<1>3. FileInv'
  BY <1>1 DEF FileInv
<1>4. ASSUME NEW d \in Targets
      PROVE  /\ IsSequence(sites'[d]) /\ Once(sites'[d])
             /\ Range(sites'[d]) = Scanned(d, file') \cup Opened(d)'
  <2>1. Opened(d) = {} /\ Opened(d)' = {}
    BY <1>1, Zenon DEF Opened
  <2>2. /\ IsSequence(sites[d]) /\ Once(sites[d]) /\ Ecosystem[d] = Head(order)
        /\ Range(sites[d]) = Scanned(d, file) \cup Opened(d)
    BY <1>1, TargetSites DEF Walking
  <2>3. file \notin Eligible(d)
    BY <1>1, <2>2 DEF Eligible
  <2>4. Scanned(d, file + 1) = Scanned(d, file)
    <3>1. Scanned(d, file + 1) =
            Scanned(d, file) \cup (IF file \in Eligible(d) THEN FileSites(d, file) ELSE {})
      BY <1>2, ScannedFacts DEF SurfaceInv
    <3>2. (IF file \in Eligible(d) THEN FileSites(d, file) ELSE {}) = {}
      BY <2>3
    <3> QED BY <3>1, <3>2
  <2> QED BY <1>1, <2>1, <2>2, <2>4
<1>5. pc \in Walking /\ pc' \in Walking
  BY <1>1 DEF Walking
<1> QED BY <1>1, <1>3, <1>4, <1>5, WalkSurface

LEMMA OpenSurface ==
  ASSUME SurfaceInv, ScanInv', OpenFile
  PROVE  SurfaceInv'
<1>1. /\ tree' = tree /\ pc = "file" /\ sites' = sites /\ file' = file
      /\ pc' = IF tree[file].status = "parsed" THEN "imports" ELSE "activations"
      /\ results' = results /\ order' = order /\ groups' = groups /\ file <= Len(tree)
      /\ Head(order) \in tree[file].ecosystems /\ tree[file].status \in {"unparsed", "parsed"}
      /\ receivers' = [d \in Deps |-> IF d \in Targets THEN SeedReceivers(d) ELSE Unbound]
  BY DEF OpenFile, inputs, Current
<1>2. Targets' = Targets /\ (\A d : SeedReceivers(d)' = SeedReceivers(d))
  BY <1>1 DEF Targets, SeedReceivers
<1>3. Targets \subseteq Deps
  BY <1>1, TargetSites DEF Walking
<1>4. FileInv'
  BY <1>1, <1>2, <1>3 DEF FileInv, Current
<1>5. ASSUME NEW d \in Targets
      PROVE  /\ IsSequence(sites'[d]) /\ Once(sites'[d])
             /\ Range(sites'[d]) = Scanned(d, file') \cup Opened(d)'
  <2>1. Opened(d) = {}
    BY <1>1, Zenon DEF Opened
  <2>2. Opened(d)' = {}
    <3>1. CASE tree[file].status = "parsed"
      <4>1. pc' = "imports"
        BY <1>1, <3>1
      <4> QED BY <4>1, Zenon DEF Opened
    <3>2. CASE tree[file].status # "parsed"
      <4>1. ImportsFound(d, file)' = {}
        BY <1>1, <3>2 DEF ImportsFound
      <4>2. NamesAt(d, file)' = {}
        BY <4>1 DEF NamesAt
      <4>3. NameSites(d)' = {}
        BY <4>2 DEF NameSites
      <4>4. pc' = "activations"
        BY <1>1, <3>2
      <4> QED BY <4>3, <4>4, Zenon DEF Opened
    <3> QED BY <3>1, <3>2
  <2>3. /\ IsSequence(sites[d]) /\ Once(sites[d])
        /\ Range(sites[d]) = Scanned(d, file) \cup Opened(d)
    BY <1>1, TargetSites DEF Walking
  <2> QED BY <1>1, <2>1, <2>2, <2>3
<1>6. pc \in Walking /\ pc' \in Walking
  BY <1>1 DEF Walking
<1> QED BY <1>1, <1>4, <1>5, <1>6, WalkSurface

LEMMA NamesRecorded ==
  ASSUME SurfaceInv, pc = "imports", NEW d \in Targets
  PROVE  AllImportSites(d, Current.imports) = NameSites(d)
<1> DEFINE imports == Current.imports
           U == AllImportSites(d, imports)
<1>1. DOMAIN imports = 1..Len(imports) /\ tree[file].status = "parsed" /\ imports = tree[file].imports
  <2>1. file \in 1..Len(tree) /\ tree[file].status = "parsed"
    BY DEF SurfaceInv, ScanInv, ScanTypes, FileInv, Current
  <2>2. IsSequence(tree[file].imports)
    BY <2>1, FileTypes DEF SurfaceInv
  <2> QED BY <2>1, <2>2, SequenceFacts DEF Current
<1> HIDE DEF imports
<1>2. ImportsFound(d, file) = {i \in 1..Len(imports) : imports[i].module \in Provides[d]}
  BY <1>1 DEF ImportsFound
<1>3. ASSUME NEW x \in U PROVE x \in NameSites(d)
  <2>1. PICK k \in 1..Len(imports) : x \in ImportSites(d, imports[k])
    BY DEF AllImportSites
  <2>2. /\ imports[k].module \in Provides[d]
        /\ \E name \in Range(ImportedNames(imports[k])) : x = Site(name, FALSE, imports[k].line)
    BY <2>1 DEF ImportSites
  <2>3. PICK name \in Range(ImportedNames(imports[k])) : x = Site(name, FALSE, imports[k].line)
    BY <2>2
  <2>4. <<name, imports[k].line>> \in NamesAt(d, file)
    BY <2>2, <1>1, <1>2 DEF NamesAt
  <2> DEFINE p == <<name, imports[k].line>>
  <2>5. p[1] = name /\ p[2] = imports[k].line
    OBVIOUS
  <2> HIDE DEF p
  <2>6. x = Site(p[1], FALSE, p[2]) /\ p \in NamesAt(d, file)
    BY <2>3, <2>4, <2>5 DEF p
  <2> QED BY <2>6 DEF NameSites
<1>4. ASSUME NEW x \in NameSites(d) PROVE x \in U
  <2>1. PICK p \in NamesAt(d, file) : x = Site(p[1], FALSE, p[2])
    BY DEF NameSites
  <2>2. PICK k \in ImportsFound(d, file) :
          p \in Range(ImportedNames(imports[k])) \X {imports[k].line}
    BY <1>1 DEF NamesAt
  <2>3. x \in ImportSites(d, imports[k])
    BY <2>1, <2>2, <1>2 DEF ImportSites
  <2> QED BY <2>2, <2>3, <1>2 DEF AllImportSites
<1> QED BY <1>3, <1>4 DEF imports

LEMMA ImportsSurface ==
  ASSUME SurfaceInv, ScanInv', RecordImports
  PROVE  SurfaceInv'
<1>1. tree' = tree /\ pc = "imports" /\ pc' = "activations" /\ file' = file
  BY Zenon DEF RecordImports, inputs
<1>2. results' = results /\ order' = order /\ groups' = groups
  BY Zenon DEF RecordImports, inputs
<1>3. sites' = [d \in Deps |-> IF d \notin Targets THEN sites[d]
                             ELSE ImportsAdded(d, sites[d], Current.imports)]
  BY Zenon DEF RecordImports, ImportsAdded
<1>4. receivers' = [d \in Deps |-> IF d \notin Targets THEN receivers[d]
                                 ELSE ImportsBound(d, receivers[d], Current.imports)]
  BY Zenon DEF RecordImports, ImportsBound
<1>5. /\ file \in 1..Len(tree) /\ Current = tree[file] /\ Current.status = "parsed"
      /\ Head(order) \in Current.ecosystems
      /\ \A d \in Targets : receivers[d] = SeedReceivers(d)
  BY <1>1 DEF SurfaceInv, ScanInv, ScanTypes, FileInv, Current
<1>6. /\ IsSequence(Current.imports) /\ Current.imports \in Seq(Range(Current.imports))
      /\ \A i \in 1..Len(Current.imports) : IsSequence(Current.imports[i].names)
      /\ DOMAIN Current.imports = 1..Len(Current.imports)
  <2>1. /\ IsSequence(Current.imports)
        /\ \A i \in 1..Len(Current.imports) : IsSequence(Current.imports[i].names)
    BY <1>5, FileTypes DEF SurfaceInv
  <2> QED BY <2>1, SequenceFacts DEF IsSequence
<1>7. Targets' = Targets /\ Current' = Current
  BY <1>1, <1>2 DEF Targets, Current
<1>8. ASSUME NEW d \in Targets
      PROVE  /\ d \in Deps /\ IsSequence(sites'[d]) /\ Once(sites'[d])
             /\ Range(sites'[d]) = Scanned(d, file') \cup Opened(d)'
  <2>1. /\ d \in Deps /\ IsSequence(sites[d]) /\ Once(sites[d])
        /\ Range(sites[d]) = Scanned(d, file) \cup Opened(d)
    BY <1>1, TargetSites DEF Walking
  <2>2. sites'[d] = ImportsAdded(d, sites[d], Current.imports)
    BY <1>3, <2>1
  <2>3. Grows(sites[d], sites'[d], NameSites(d))
    <3> DEFINE imports == Current.imports
    <3>1. imports \in Seq(Range(imports)) /\ \A i \in 1..Len(imports) : IsSequence(imports[i].names)
      BY <1>6
    <3>2. AllImportSites(d, imports) = NameSites(d)
      BY <1>1, NamesRecorded
    <3>3. sites'[d] = ImportsAdded(d, sites[d], imports)
      BY <2>2
    <3> HIDE DEF imports
    <3>4. Grows(sites[d], ImportsAdded(d, sites[d], imports), AllImportSites(d, imports))
      BY <2>1, <3>1, ImportsRecorded
    <3> QED BY <3>2, <3>3, <3>4
  <2>4. Opened(d) = {}
    BY <1>1, Zenon DEF Opened
  <2>5. Opened(d)' = NameSites(d)
    <3>1. NameSites(d)' = NameSites(d)
      BY <1>1, TreeKept DEF NameSites, Site
    <3> QED BY <3>1, <1>1, Zenon DEF Opened
  <2> QED BY <2>1, <2>3, <2>4, <2>5, <1>1, GrowsOnce DEF Grows
<1>9. ASSUME NEW d \in Targets
      PROVE  receivers'[d] = [l \in Locals |-> StandsFor(d, file, l)]
  <2> DEFINE b == receivers[d]
             r == ImportsBound(d, b, Current.imports)
  <2>1. receivers'[d] = r
    BY <1>4, <1>8
  <2>2. b = [l \in Locals |-> IF Ecosystem[d] \in Seeded /\ <<l>> \in Provides[d]
                             THEN <<l>> ELSE NoExport]
    BY <1>1, <1>5, TargetSites DEF SeedReceivers, Walking
  <2> HIDE DEF b
  <2>3. IsBinding(b)
    BY <2>2 DEF IsBinding
  <2>4. /\ IsBinding(r)
        /\ \A l \in Locals : r[l] =
             LET binding == {i \in DOMAIN Current.imports :
                               /\ Current.imports[i].module \in Provides[d]
                               /\ BoundNames(Current.imports[i], l) # {}}
             IN IF binding # {} THEN Exported(Current.imports[Max(binding)], l) ELSE b[l]
    <3> DEFINE imports == Current.imports
    <3>1. imports \in Seq(Range(imports)) /\ \A i \in 1..Len(imports) : IsSequence(imports[i].names)
      BY <1>6
    <3> HIDE DEF imports
    <3>2. BoundBy(d, b, imports, ImportsBound(d, b, imports))
      BY <2>3, <3>1, ImportsBind
    <3> QED BY <3>2 DEF imports, BoundBy
  <2>5. ASSUME NEW l \in Locals PROVE r[l] = StandsFor(d, file, l)
    <3>1. Binding(d, file, l) = {i \in DOMAIN Current.imports :
                                   /\ Current.imports[i].module \in Provides[d]
                                   /\ BoundNames(Current.imports[i], l) # {}}
      BY <1>5 DEF Binding, ImportsFound
    <3>2. r[l] = Meaning(d, file, l, Binding(d, file, l))
      BY <3>1, <2>2, <2>4, <1>5 DEF Meaning
    <3>3. StandsFor(d, file, l) = Meaning(d, file, l, Binding(d, file, l))
      BY DEF StandsFor, Meaning, Binding, Exported
    <3> QED BY <3>2, <3>3
  <2> HIDE DEF r
  <2> QED BY <2>1, <2>4, <2>5 DEF IsBinding
<1>10. FileInv'
  <2>1. \A d \in Targets' : receivers'[d] = [l \in Locals |-> StandsFor(d, file, l)']
    BY <1>1, <1>7, <1>9, TreeKept
  <2> QED BY <2>1, <1>1, <1>2, <1>5, <1>7 DEF FileInv
<1>11. pc \in Walking /\ pc' \in Walking /\ \A d \in Deps : d \notin Targets => sites'[d] = sites[d]
  BY <1>1, <1>3 DEF Walking
<1> QED BY <1>1, <1>2, <1>8, <1>10, <1>11, WalkSurface

LEMMA ScannedBefore ==
  ASSUME NEW d, NEW k, NEW x \in Scanned(d, k)
  PROVE  x.file < k
<1>1. PICK f \in {g \in Eligible(d) : g < k} : x \in FileSites(d, f)
  BY DEF Scanned
<1>2. x.file = f
  BY <1>1 DEF FileSites
<1> QED BY <1>1, <1>2

LEMMA LiteralsActivate ==
  ASSUME SurfaceInv, pc = "activations", NEW d \in Targets
  PROVE  AllLiteralSites(d, sites[d], Current.literals) = ActivationSites(d)
<1> DEFINE literals == Current.literals
           s == sites[d]
           U == AllLiteralSites(d, s, literals)
           Text(l) == <<l.text, l.line>>
<1>1. file \in 1..Len(tree) /\ file \in Nat
  BY InputTypes DEF SurfaceInv, ScanInv, ScanTypes
<1>2. DOMAIN literals = 1..Len(literals) /\ literals = tree[file].literals
  <2>1. IsSequence(tree[file].literals)
    BY <1>1, FileTypes DEF SurfaceInv
  <2> QED BY <2>1, SequenceFacts DEF Current
<1>3. Range(s) = Scanned(d, file) \cup NameSites(d)
  <2>1. Opened(d) = NameSites(d)
    BY Zenon DEF Opened
  <2> QED BY <2>1, TargetSites DEF Walking
<1> HIDE DEF literals, s
<1>4. ASSUME NEW l
      PROVE  Site(l.text, FALSE, l.line) \in Range(s) <=> Text(l) \in NamesAt(d, file)
  <2> DEFINE x == Site(l.text, FALSE, l.line)
  <2>1. x.file = file /\ x.name = l.text /\ x.line = l.line
    BY DEF Site
  <2>2. x \notin Scanned(d, file)
    <3> HIDE DEF x
    <3> QED BY <1>1, <2>1, ScannedBefore
  <2>3. ASSUME x \in NameSites(d) PROVE Text(l) \in NamesAt(d, file)
    <3>1. PICK p \in NamesAt(d, file) : x = Site(p[1], FALSE, p[2])
      BY <2>3 DEF NameSites
    <3>2. p[1] = l.text /\ p[2] = l.line
      BY <3>1, <2>1 DEF Site
    <3>3. PICK i \in ImportsFound(d, file) :
            p \in Range(ImportedNames(tree[file].imports[i])) \X {tree[file].imports[i].line}
      BY DEF NamesAt
    <3>4. p = <<p[1], p[2]>>
      BY <3>3
    <3> QED BY <3>2, <3>4
  <2>4. ASSUME Text(l) \in NamesAt(d, file) PROVE x \in NameSites(d)
    <3> DEFINE p == Text(l)
    <3>1. p[1] = l.text /\ p[2] = l.line /\ p \in NamesAt(d, file)
      BY <2>4
    <3> HIDE DEF p
    <3>2. x = Site(p[1], FALSE, p[2])
      BY <3>1
    <3> QED BY <3>1, <3>2 DEF NameSites
  <2> QED BY <1>3, <2>2, <2>3, <2>4
<1>5. ASSUME NEW x \in U PROVE x \in ActivationSites(d)
  <2>1. PICK k \in 1..Len(literals) : x \in LiteralSites(d, s, literals[k])
    BY DEF AllLiteralSites
  <2> DEFINE l == literals[k]
             p == Text(l)
  <2>2. /\ l.text \in Range(Activations[d]) /\ p \notin NamesAt(d, file)
        /\ x = Site(l.text, TRUE, l.line)
    BY <2>1, <1>4 DEF LiteralSites
  <2>3. l \in Range(tree[file].literals)
    BY <1>2 DEF Range
  <2>4. p[1] = l.text /\ p[2] = l.line
    OBVIOUS
  <2> HIDE DEF l
  <2>5. p \in ActivationsAt(d, file)
    BY <2>2, <2>3 DEF ActivationsAt
  <2> HIDE DEF p
  <2>6. x = Site(p[1], TRUE, p[2])
    BY <2>2, <2>4
  <2> QED BY <2>5, <2>6 DEF ActivationSites
<1>6. ASSUME NEW x \in ActivationSites(d) PROVE x \in U
  <2>1. PICK p \in ActivationsAt(d, file) : x = Site(p[1], TRUE, p[2])
    BY DEF ActivationSites
  <2>2. PICK l \in {y \in Range(tree[file].literals) : y.text \in Range(Activations[d])} :
          p = Text(l) /\ p \notin NamesAt(d, file)
    BY DEF ActivationsAt
  <2>3. PICK k \in 1..Len(literals) : l = literals[k]
    BY <2>2, <1>2 DEF Range
  <2>4. x = Site(l.text, TRUE, l.line)
    BY <2>1, <2>2
  <2>5. x \in LiteralSites(d, s, literals[k])
    BY <2>2, <2>3, <2>4, <1>4 DEF LiteralSites
  <2> QED BY <2>5 DEF AllLiteralSites
<1> QED BY <1>5, <1>6 DEF literals, s

LEMMA ActivationsSurface ==
  ASSUME SurfaceInv, ScanInv', RecordActivations
  PROVE  SurfaceInv'
<1>1. /\ tree' = tree /\ pc = "activations"
      /\ pc' = IF Current.status = "parsed" THEN "refs" ELSE "file"
      /\ file' = IF Current.status = "parsed" THEN file ELSE file + 1
  BY Zenon DEF RecordActivations, inputs
<1>2. results' = results /\ order' = order /\ groups' = groups /\ receivers' = receivers
  BY Zenon DEF RecordActivations, inputs
<1>3. sites' = [d \in Deps |-> IF d \notin Targets THEN sites[d]
                             ELSE LiteralsAdded(d, sites[d], Current.literals)]
  BY Zenon DEF RecordActivations, LiteralsAdded
<1>4. /\ file \in 1..Len(tree) /\ Current = tree[file] /\ Current.status \in {"unparsed", "parsed"}
      /\ Head(order) \in Current.ecosystems
      /\ Current.status = "parsed" =>
           \A d \in Targets : receivers[d] = [l \in Locals |-> StandsFor(d, file, l)]
  BY <1>1 DEF SurfaceInv, ScanInv, ScanTypes, FileInv, Current
<1>5. Current.literals \in Seq(Range(Current.literals))
  BY <1>4, FileTypes DEF SurfaceInv, IsSequence
<1>6. Targets' = Targets /\ pc \in Walking /\ pc' \in Walking
  BY <1>1, <1>2 DEF Targets, Walking
<1>7. ASSUME NEW d \in Targets
      PROVE  /\ d \in Deps /\ IsSequence(sites'[d]) /\ Once(sites'[d])
             /\ Range(sites'[d]) = Scanned(d, file') \cup Opened(d)'
  <2>1. /\ d \in Deps /\ IsSequence(sites[d]) /\ Once(sites[d]) /\ Ecosystem[d] = Head(order)
        /\ Range(sites[d]) = Scanned(d, file) \cup Opened(d)
    BY <1>6, TargetSites
  <2>2. Activated(sites[d], sites'[d], ActivationSites(d))
    <3> DEFINE literals == Current.literals
    <3>1. literals \in Seq(Range(literals)) /\ sites'[d] = LiteralsAdded(d, sites[d], literals)
          /\ AllLiteralSites(d, sites[d], literals) = ActivationSites(d)
      BY <1>1, <1>3, <1>5, <2>1, LiteralsActivate
    <3> HIDE DEF literals
    <3>2. Activated(sites[d], LiteralsAdded(d, sites[d], literals), AllLiteralSites(d, sites[d], literals))
      BY <2>1, <3>1, LiteralsRecorded
    <3> QED BY <3>1, <3>2
  <2>3. Opened(d) = NameSites(d)
    BY <1>1, Zenon DEF Opened
  <2>4. Range(sites'[d]) = Scanned(d, file) \cup NameSites(d) \cup ActivationSites(d)
    BY <2>1, <2>2, <2>3 DEF Activated
  <2>5. CASE Current.status = "parsed"
    <3>1. NameSites(d)' = NameSites(d) /\ ActivationSites(d)' = ActivationSites(d)
      BY <2>5, <1>1, TreeKept DEF NameSites, ActivationSites, Site
    <3>2. pc' = "refs" /\ file' = file
      BY <2>5, <1>1
    <3>3. Opened(d)' = NameSites(d) \cup ActivationSites(d)
      BY <3>1, <3>2, Zenon DEF Opened
    <3> QED BY <3>2, <3>3, <2>1, <2>2, <2>4 DEF Activated
  <2>6. CASE Current.status # "parsed"
    <3>1. pc' = "file" /\ file' = file + 1
      BY <2>6, <1>1
    <3>2. Opened(d)' = {}
      BY <3>1, Zenon DEF Opened
    <3>3. MemberSites(d) = {}
      <4>1. MembersAt(d, file) = {}
        BY <1>4, <2>6 DEF MembersAt
      <4> QED BY <4>1 DEF MemberSites
    <3>4. FileSites(d, file) = NameSites(d) \cup ActivationSites(d)
      BY <3>3, FileSitesAre
    <3>5. file \in Eligible(d)
      BY <1>4, <2>1, FileTypes DEF Eligible, SurfaceInv
    <3>6. Scanned(d, file + 1) = Scanned(d, file) \cup FileSites(d, file)
      BY <1>4, <3>5, ScannedFacts DEF SurfaceInv
    <3> QED BY <3>1, <3>2, <3>4, <3>6, <2>1, <2>2, <2>4 DEF Activated
  <2> QED BY <2>5, <2>6
<1>8. FileInv'
  <2>1. CASE Current.status = "parsed"
    <3>1. pc' = "refs" /\ file' = file /\ Current' = Current
      BY <2>1, <1>1 DEF Current
    <3>2. \A d \in Targets' : receivers'[d] = [l \in Locals |-> StandsFor(d, file, l)']
      <4> SUFFICES ASSUME NEW d \in Targets
                   PROVE  receivers'[d] = [l \in Locals |-> StandsFor(d, file, l)']
        BY <1>6
      <4>1. \A l : StandsFor(d, file, l)' = StandsFor(d, file, l)
        BY <3>1, <1>1, TreeKept
      <4>2. receivers'[d] = [l \in Locals |-> StandsFor(d, file, l)]
        BY <2>1, <1>2, <1>4
      <4> QED BY <4>1, <4>2
    <3> QED BY <2>1, <3>1, <3>2, <1>2, <1>4 DEF FileInv
  <2>2. CASE Current.status # "parsed"
    <3>1. pc' = "file"
      BY <2>2, <1>1
    <3> QED BY <3>1 DEF FileInv
  <2> QED BY <2>1, <2>2
<1>9. \A d \in Deps : d \notin Targets => sites'[d] = sites[d]
  BY <1>3
<1> QED BY <1>1, <1>2, <1>6, <1>7, <1>8, <1>9, WalkSurface

LEMMA MembersRecorded ==
  ASSUME SurfaceInv, pc = "refs", NEW d \in Targets
  PROVE  AllRefSites(d, Current.refs) = MemberSites(d)
<1> DEFINE refs == Current.refs
           U == AllRefSites(d, refs)
           For(x) == StandsFor(d, file, x.receiver)
<1>1. /\ file \in 1..Len(tree) /\ tree[file].status = "parsed" /\ refs = tree[file].refs
      /\ receivers[d] = [l \in Locals |-> StandsFor(d, file, l)]
  BY DEF SurfaceInv, ScanInv, ScanTypes, FileInv, Current
<1>2. /\ DOMAIN refs = 1..Len(refs) /\ \A k \in 1..Len(refs) : refs[k].receiver \in Locals
  BY <1>1, FileTypes, SequenceFacts DEF SurfaceInv
<1>3. \A k \in 1..Len(refs) : receivers[d][refs[k].receiver] = For(refs[k])
  BY <1>1, <1>2
<1> HIDE DEF refs, For
<1>4. MembersAt(d, file) = {<<Append(For(r), r.member), r.line>> : r \in {x \in Range(refs) : For(x) # NoExport}}
  BY <1>1 DEF MembersAt, For
<1>5. ASSUME NEW x \in U PROVE x \in MemberSites(d)
  <2>1. PICK k \in 1..Len(refs) : x \in RefSites(d, refs[k])
    BY DEF AllRefSites
  <2> DEFINE r == refs[k]
             p == <<Append(For(r), r.member), r.line>>
  <2>2. For(r) # NoExport /\ x = Site(Append(For(r), r.member), FALSE, r.line) /\ r \in Range(refs)
    BY <2>1, <1>2, <1>3 DEF RefSites, Range
  <2>3. p \in MembersAt(d, file)
    BY <2>2, <1>4
  <2>4. p[1] = Append(For(r), r.member) /\ p[2] = r.line
    OBVIOUS
  <2> HIDE DEF p
  <2>5. x = Site(p[1], FALSE, p[2])
    BY <2>2, <2>4
  <2> QED BY <2>3, <2>5 DEF MemberSites
<1>6. ASSUME NEW x \in MemberSites(d) PROVE x \in U
  <2>1. PICK p \in MembersAt(d, file) : x = Site(p[1], FALSE, p[2])
    BY DEF MemberSites
  <2>2. PICK r \in {y \in Range(refs) : For(y) # NoExport} : p = <<Append(For(r), r.member), r.line>>
    BY <1>4
  <2>3. PICK k \in 1..Len(refs) : r = refs[k]
    BY <2>2, <1>2 DEF Range
  <2>4. x = Site(Append(For(r), r.member), FALSE, r.line)
    BY <2>1, <2>2
  <2>5. x \in RefSites(d, refs[k])
    BY <2>2, <2>3, <2>4, <1>3 DEF RefSites
  <2> QED BY <2>5 DEF AllRefSites
<1> QED BY <1>5, <1>6 DEF refs

LEMMA RefsSurface ==
  ASSUME SurfaceInv, ScanInv', RecordRefs
  PROVE  SurfaceInv'
<1>1. tree' = tree /\ pc = "refs" /\ pc' = "file" /\ file' = file + 1
  BY Zenon DEF RecordRefs, inputs
<1>2. results' = results /\ order' = order /\ groups' = groups
  BY Zenon DEF RecordRefs, inputs
<1>3. sites' = [d \in Deps |-> IF d \notin Targets THEN sites[d]
                             ELSE RefsAdded(d, sites[d], Current.refs)]
  BY Zenon DEF RecordRefs, RefsAdded
<1>4. /\ file \in 1..Len(tree) /\ Current = tree[file] /\ Current.status = "parsed"
      /\ Head(order) \in Current.ecosystems
  BY <1>1 DEF SurfaceInv, ScanInv, ScanTypes, FileInv, Current
<1>5. Current.refs \in Seq(Range(Current.refs))
  BY <1>4, FileTypes DEF SurfaceInv, IsSequence
<1>6. pc \in Walking /\ pc' \in Walking /\ FileInv'
  BY <1>1 DEF Walking, FileInv
<1>7. ASSUME NEW d \in Targets
      PROVE  /\ d \in Deps /\ IsSequence(sites'[d]) /\ Once(sites'[d])
             /\ Range(sites'[d]) = Scanned(d, file') \cup Opened(d)'
  <2>1. /\ d \in Deps /\ IsSequence(sites[d]) /\ Once(sites[d]) /\ Ecosystem[d] = Head(order)
        /\ Range(sites[d]) = Scanned(d, file) \cup Opened(d)
    BY <1>6, TargetSites
  <2>2. Grows(sites[d], sites'[d], MemberSites(d))
    <3> DEFINE refs == Current.refs
    <3>1. refs \in Seq(Range(refs)) /\ sites'[d] = RefsAdded(d, sites[d], refs)
          /\ AllRefSites(d, refs) = MemberSites(d)
      BY <1>1, <1>3, <1>5, <2>1, MembersRecorded
    <3> HIDE DEF refs
    <3>2. Grows(sites[d], RefsAdded(d, sites[d], refs), AllRefSites(d, refs))
      BY <2>1, <3>1, RefsRecorded
    <3> QED BY <3>1, <3>2
  <2>3. IsSequence(sites'[d]) /\ Once(sites'[d])
    BY <2>1, <2>2, GrowsOnce DEF Grows
  <2>4. Opened(d) = NameSites(d) \cup ActivationSites(d) /\ Opened(d)' = {}
    BY <1>1, Zenon DEF Opened
  <2>5. file \in Eligible(d)
    BY <1>4, <2>1, FileTypes DEF Eligible, SurfaceInv
  <2>6. Scanned(d, file + 1) = Scanned(d, file) \cup FileSites(d, file)
    BY <1>4, <2>5, ScannedFacts DEF SurfaceInv
  <2>7. Range(sites'[d]) = Range(sites[d]) \cup MemberSites(d)
    BY <2>2 DEF Grows
  <2> QED BY <2>1, <2>3, <2>4, <2>6, <2>7, <1>1, FileSitesAre
<1>8. \A d \in Deps : d \notin Targets => sites'[d] = sites[d]
  BY <1>3
<1> QED BY <1>1, <1>2, <1>6, <1>7, <1>8, WalkSurface

LEMMA EndSurface ==
  ASSUME SurfaceInv, ScanInv', EndWalk
  PROVE  SurfaceInv'
<1>1. /\ tree' = tree /\ pc = "file" /\ pc' \in {"file", "done"} /\ file' = 1 /\ sites' = sites
      /\ groups' = groups /\ order' = Tail(order) /\ file > Len(tree)
      /\ results' = [d \in Deps |-> IF d \in Targets THEN "surface" ELSE results[d]]
  BY DEF EndWalk, inputs
<1>2. pc \in Walking /\ order # <<>> /\ order \in Seq(Ecosystems) /\ file = Len(tree) + 1
  <2>1. pc \in Walking /\ Len(tree) \in Nat /\ file \in 1..(Len(tree) + 1)
    BY <1>1, InputTypes DEF Walking, SurfaceInv, ScanInv, ScanTypes, TypeOK
  <2> QED BY <2>1, <1>1 DEF SurfaceInv, ScanInv, ScanTypes, GroupInv
<1>3. FileInv'
  BY <1>1 DEF FileInv
<1>4. ASSUME NEW d \in Targets
      PROVE  /\ d \in Deps /\ IsSequence(sites[d]) /\ Once(sites[d])
             /\ Range(sites[d]) = ExpectedSites(d)
  <2>1. Opened(d) = {}
    BY <1>1, Zenon DEF Opened
  <2> QED BY <2>1, <1>2, TargetSites, ScannedFacts DEF SurfaceInv
<1>5. ASSUME NEW d \in Deps, d \notin Targets
      PROVE  /\ IsSequence(sites[d]) /\ Once(sites[d])
             /\ results[d] = "none" => sites[d] = <<>>
             /\ results[d] = "surface" => Range(sites[d]) = ExpectedSites(d)
  BY <1>1, <1>5 DEF SurfaceInv, SitesInv
<1>6. ASSUME NEW d \in Deps, pc' \in Walking, d \in Targets'
      PROVE  Range(sites'[d]) = Scanned(d, file)' \cup Opened(d)'
  <2>1. pc' = "file" /\ order' # <<>>
    BY <1>1, <1>6 DEF Walking, ScanInv, GroupInv
  <2>2. order' \in Seq(Ecosystems) /\ Head(order') \in Range(order')
    BY <2>1 DEF ScanInv, ScanTypes, Range
  <2>3. Range(order') = Range(order) \ {Head(order)}
    BY <1>1, <1>2, TailOfDistinct DEF SurfaceInv, ScanInv, GroupInv
  <2>4. Targets' = Range(groups[Head(order')])
    BY <1>1, <2>1 DEF Targets
  <2>5. Ecosystem[d] = Head(order') /\ d \notin Unresolvable /\ Asked(d)
    BY <2>2, <2>4, <1>6 DEF SurfaceInv, ScanInv, GroupInv, ScanTypes
  <2>6. d \notin Targets
    BY <1>2, <2>2, <2>3, <2>5, TargetsAre DEF SurfaceInv
  <2>7. results[d] = "none"
    <3>1. results[d] = Answer(d)
      BY <1>1 DEF SurfaceInv, ScanInv, AnswerInv
    <3> QED BY <3>1, <2>2, <2>3, <2>5 DEF Answer
  <2>8. Range(sites'[d]) = {}
    BY <1>1, <1>5, <2>6, <2>7 DEF Range
  <2>9. Scanned(d, file)' = {}
    BY <1>1, ScannedFacts, TreeKept DEF SurfaceInv
  <2>10. Opened(d)' = {}
    BY <2>1, Zenon DEF Opened
  <2> QED BY <2>8, <2>9, <2>10
<1>7. SitesInv'
  <2> SUFFICES ASSUME NEW d \in Deps
               PROVE  /\ IsSequence(sites'[d]) /\ Once(sites'[d])
                      /\ results'[d] = "none" => sites'[d] = <<>>
                      /\ results'[d] = "surface" => Range(sites'[d]) = ExpectedSites(d)'
    BY <1>6 DEF SitesInv
  <2>1. ExpectedSites(d)' = ExpectedSites(d)
    BY <1>1, TreeKept
  <2>2. CASE d \in Targets
    BY <2>1, <2>2, <1>1, <1>4
  <2>3. CASE d \notin Targets
    BY <2>1, <2>3, <1>1, <1>5
  <2> QED BY <2>2, <2>3
<1> QED BY <1>3, <1>7 DEF SurfaceInv

LEMMA SurfaceStep == SurfaceInv /\ [Next]_vars => SurfaceInv'
<1> SUFFICES ASSUME SurfaceInv, [Next]_vars PROVE SurfaceInv'
  OBVIOUS
<1>1. ScanInv'
  BY ScanStep DEF SurfaceInv
<1> QED BY <1>1, CancelSurface, StopSurface, ResolveSurface, StartSurface, SkipSurface, OpenSurface,
           ImportsSurface, ActivationsSurface, RefsSurface, EndSurface DEF Next, Finished

LEMMA SurfaceAlways == Spec => []SurfaceInv
BY SurfaceInit, SurfaceStep, PTL DEF Spec

(* Whatever the files hold and whichever dependencies are scanned with it, *)
(* the surface that IndexMany returns for a dependency is the one that a   *)
(* scan of every file for this dependency alone would give.                *)
THEOREM SurfacesComplete == Spec => []SurfaceComplete
<1>1. SurfaceInv => SurfaceComplete
  BY DEF SurfaceInv, SitesInv, SurfaceComplete
<1> QED BY <1>1, SurfaceAlways, PTL

(* However often a string is quoted and configured as an activation,       *)
(* recordActivations adds it once per line, and never where an import of   *)
(* that line has the same name.                                            *)
THEOREM ActivationsOnce == Spec => []ActivationSitesOnce
<1>1. SurfaceInv => ActivationSitesOnce
  BY DEF SurfaceInv, SitesInv, Once, ActivationSitesOnce
<1> QED BY <1>1, SurfaceAlways, PTL
=============================================================================
