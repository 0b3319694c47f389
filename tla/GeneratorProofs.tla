--------------------------- MODULE GeneratorProofs ---------------------------
(***************************************************************************)
(* Proofs about modules Generator and Layout for every JHN_MAX_DEPTH,      *)
(* width of depth and length of output: state[] and depth mirror the       *)
(* nesting of what a disciplined client has begun, and so do the lines     *)
(* that are printed for it.                                                *)
(***************************************************************************)
EXTENDS Layout, GeneratorGrammar, GrammarProofs, FiniteSetTheorems

IInv == TypeOK /\ DepthMirrorsNesting

Cells == 0..(JHN_MAX_DEPTH - 1)

-----------------------------------------------------------------------------
(* Reading and writing the cell of the current depth. *)

LEMMA CellTypes ==
  ASSUME TypeOK
  PROVE  /\ Here \subseteq States
         /\ \A d \in Nat, s \in States : Store(d, s) \in [Cells -> States]
         /\ \A s \in States : Appended(s) \in States
         /\ \A s \in States : Valid(s) \in Statuses /\ NotKey(s) \in Statuses
         /\ \A s \in States : /\ Valid(s) # "max_depth_exceeded"
                              /\ NotKey(s) # "max_depth_exceeded"
<1>1. JHN_MAX_DEPTH \in Nat /\ UINT_MAX \in Nat
  BY GeneratorAssumption
<1>2. Here \subseteq States
  <2>1. depth < JHN_MAX_DEPTH => depth \in Cells
    BY <1>1 DEF TypeOK, Cells
  <2> QED BY <2>1 DEF Here, TypeOK, Cells
<1>3. \A d \in Nat, s \in States : Store(d, s) \in [Cells -> States]
  BY <1>1 DEF Store, TypeOK, Cells
<1>4. \A s \in States : Appended(s) \in States
  BY DEF Appended, States
<1>5. \A s \in States : /\ Valid(s) \in Statuses /\ Valid(s) # "max_depth_exceeded"
                        /\ NotKey(s) \in Statuses /\ NotKey(s) # "max_depth_exceeded"
  BY DEF Valid, NotKey, Statuses
<1> QED BY <1>2, <1>3, <1>4, <1>5

LEMMA DepthTypes ==
  ASSUME TypeOK
  PROVE  Incremented \in 0..UINT_MAX /\ Decremented \in 0..UINT_MAX
BY GeneratorAssumption DEF TypeOK, Incremented, Decremented

(* While a disciplined client generates, depth indexes state[]. *)
LEMMA Steady ==
  ASSUME IInv, Disciplined, status # "max_depth_exceeded"
  PROVE  /\ Len(open) \in Nat /\ depth = Len(open) /\ depth < JHN_MAX_DEPTH
         /\ depth \in Cells /\ Here = {state[depth]}
<1>1. Len(open) \in Nat /\ depth = Len(open) /\ depth < JHN_MAX_DEPTH
  BY LenProperties DEF IInv, TypeOK, DepthMirrorsNesting
<1>2. depth \in Cells
  BY <1>1, GeneratorAssumption DEF Cells
<1> QED BY <1>1, <1>2 DEF Here

LEMMA SeparatorType == ASSUME NEW s PROVE Separator(s) \in Seq(Words)
<1>1. "comma" \in Words /\ "colon" \in Words
  BY DEF Words
<1>2. <<>> \in Seq(Words) /\ <<"comma">> \in Seq(Words) /\ <<"colon">> \in Seq(Words)
  BY <1>1
<1> QED BY <1>2 DEF Separator

-----------------------------------------------------------------------------
(* One lemma for each thing a call can do. *)

LEMMA RefusedKeeps ==
  ASSUME IInv, MayGenerate, NEW why \in Statuses, why # "max_depth_exceeded", Refused(why)
  PROVE  IInv'
<1>1. TypeOK'
  BY DEF IInv, TypeOK, Refused, document
<1>2. ASSUME Disciplined PROVE status # "max_depth_exceeded"
  BY <1>2 DEF MayGenerate
<1>3. DepthMirrorsNesting'
  BY <1>2 DEF IInv, DepthMirrorsNesting, Refused, document
<1> QED BY <1>1, <1>3 DEF IInv

LEMMA AppendKeeps ==
  ASSUME IInv, MayGenerate, NEW s \in Here, NEW word \in {"string", "scalar"},
         Valid(s) = "ok", word = "scalar" => NotKey(s) = "ok", Append1(word, s)
  PROVE  IInv'
<1>1. TypeOK'
  <2>1. s \in States /\ Appended(s) \in States /\ depth \in Nat
    BY CellTypes, GeneratorAssumption DEF IInv, TypeOK
  <2>2. state' \in [Cells -> States]
    BY <2>1, CellTypes DEF IInv, Append1
  <2>3. printed' \in Seq(Words)
    <3>1. <<word>> \in Seq(Words)
      BY DEF Words
    <3>2. printed \o Separator(s) \in Seq(Words)
      BY SeparatorType, ConcatProperties DEF IInv, TypeOK
    <3> QED BY <3>1, <3>2, ConcatProperties DEF Append1
  <2>4. owes' \in BOOLEAN /\ status' \in Statuses
    BY DEF Append1, Statuses
  <2> QED BY <2>2, <2>3, <2>4 DEF IInv, TypeOK, Append1, Cells
<1>2. ASSUME Disciplined PROVE DepthMirrorsNesting'
  <2>1. status # "max_depth_exceeded"
    BY <1>2 DEF MayGenerate
  <2> DEFINE n == Len(open)
  <2>2. n \in Nat /\ depth = n /\ n \in Cells /\ s = state[n]
    BY <1>2, <2>1, Steady
  <2>3. /\ state' = [state EXCEPT ![n] = Appended(s)]
        /\ open' = open /\ depth' = depth /\ status' = "ok"
        /\ owes' = (word = "string" /\ InMap /\ ~owes)
    BY <1>2, <2>1, Steady DEF Append1, Store
  <2>4. \A i \in Cells : state'[i] = IF i = n THEN Appended(s) ELSE state[i]
    BY <2>2, <2>3 DEF IInv, TypeOK, Cells
  <2>5. /\ open # <<>> => state[0] = "start"
        /\ open = <<>> => state[0] \in {"start", "complete"}
        /\ \A i \in 1..n : state[i] \in StatesOf(open[i], i < n \/ owes)
    BY <1>2 DEF IInv, DepthMirrorsNesting
  <2>6. 0 \in Cells /\ (open = <<>> <=> n = 0) /\ 1..n \subseteq Cells
    BY <2>2, EmptySeq, LenProperties, GeneratorAssumption DEF IInv, TypeOK, Cells
  <2>7. CASE n = 0
    <3>1. s = "start"
      BY <2>2, <2>5, <2>6, <2>7 DEF Valid
    <3> QED BY <2>2, <2>3, <2>4, <2>6, <2>7, <3>1 DEF DepthMirrorsNesting, Appended
  <2>8. CASE n # 0
    <3>1. n \in 1..n /\ s \in StatesOf(open[n], owes) /\ open[n] \in {"map", "array"}
      BY <2>2, <2>5, <2>8, ElementOfSeq DEF IInv, TypeOK
    <3>2. InMap <=> open[n] = "map"
      BY <2>6, <2>8 DEF InMap
    <3>3. Appended(s) \in StatesOf(open[n], owes')
      <4>1. CASE open[n] = "array"
        BY <3>1, <4>1 DEF StatesOf, Appended
      <4>2. CASE open[n] = "map" /\ owes
        BY <2>3, <3>1, <4>2 DEF StatesOf, Appended
      <4>3. CASE open[n] = "map" /\ ~owes
        <5>1. s \in {"map_start", "map_key"}
          BY <3>1, <4>3 DEF StatesOf
        <5>2. word = "string"
          BY <5>1 DEF NotKey
        <5> QED BY <2>3, <3>2, <4>3, <5>1, <5>2 DEF StatesOf, Appended
      <4> QED BY <3>1, <4>1, <4>2, <4>3
    <3>4. ASSUME NEW i \in 1..n PROVE state'[i] \in StatesOf(open[i], i < n \/ owes')
      <4>1. CASE i = n
        <5>1. state'[i] = Appended(s) /\ ~(i < n)
          BY <2>2, <2>4, <2>6, <4>1
        <5>2. StatesOf(open[i], i < n \/ owes') = StatesOf(open[n], owes')
          BY <4>1, <5>1 DEF StatesOf
        <5> QED BY <3>3, <5>1, <5>2
      <4>2. CASE i # n
        <5>1. state'[i] = state[i] /\ i < n
          BY <2>2, <2>4, <2>6, <4>2
        <5> QED BY <2>5, <5>1
      <4> QED BY <4>1, <4>2
    <3>5. state'[0] = state[0]
      BY <2>4, <2>6, <2>8
    <3> QED BY <2>2, <2>3, <2>5, <2>6, <2>8, <3>4, <3>5 DEF DepthMirrorsNesting
  <2> QED BY <2>2, <2>7, <2>8
<1>3. DepthMirrorsNesting'
  BY <1>2 DEF DepthMirrorsNesting
<1> QED BY <1>1, <1>3 DEF IInv

LEMMA OpenKeeps ==
  ASSUME IInv, NEW container \in {"map", "array"}, OpenContainer(container)
  PROVE  IInv'
<1>1. PICK s \in Here :
        IF NotKey(s) # "ok" THEN Refused(NotKey(s))
        ELSE
          /\ depth' = Incremented
          /\ UNCHANGED validate_utf8
          /\ IF TooDeep(Incremented)
               THEN /\ printed' = printed \o Separator(s)
                    /\ status' = "max_depth_exceeded"
                    /\ UNCHANGED <<state, open, owes>>
               ELSE /\ printed' = printed \o Separator(s) \o <<Opener(container)>>
                    /\ state' = Store(Incremented, IF container = "map" THEN "map_start"
                                                   ELSE "array_start")
                    /\ status' = "ok"
                    /\ open' = Append(open, container) /\ owes' = FALSE
  BY DEF OpenContainer
<1>2. MayGenerate
  BY DEF OpenContainer
<1>3. s \in States
  BY CellTypes DEF IInv
<1> DEFINE n == Len(open)
           start == IF container = "map" THEN "map_start" ELSE "array_start"
<1>4. n \in Nat /\ Incremented \in 0..UINT_MAX /\ start \in States
  BY DepthTypes, LenProperties DEF IInv, TypeOK, States
<1>5. printed \o Separator(s) \in Seq(Words)
  BY SeparatorType, ConcatProperties DEF IInv, TypeOK
<1>6. Disciplined => /\ n \in Cells /\ s = state[n] /\ n < JHN_MAX_DEPTH
                     /\ depth = n /\ Incremented = n + 1
                     /\ n + 1 < UINT_MAX + 1
  <2>1. Disciplined => n \in Cells /\ s = state[n] /\ n < JHN_MAX_DEPTH /\ depth = n
    BY <1>2, Steady DEF MayGenerate
  <2> QED BY <2>1, <1>4, GeneratorAssumption DEF Incremented
<1>7. CASE NotKey(s) # "ok"
  BY <1>1, <1>2, <1>3, <1>7, CellTypes, RefusedKeeps DEF IInv
<1>8. CASE NotKey(s) = "ok" /\ TooDeep(Incremented)
  <2>1. /\ depth' = Incremented /\ printed' = printed \o Separator(s)
        /\ status' = "max_depth_exceeded" /\ UNCHANGED <<state, open, owes, validate_utf8>>
    BY <1>1, <1>8
  <2>2. TypeOK'
    BY <1>4, <1>5, <2>1 DEF IInv, TypeOK, Statuses
  <2>3. DepthMirrorsNesting'
    BY <1>6, <2>1 DEF IInv, DepthMirrorsNesting
  <2> QED BY <2>2, <2>3 DEF IInv
<1>9. CASE NotKey(s) = "ok" /\ ~TooDeep(Incremented)
  <2>1. /\ depth' = Incremented /\ printed' = printed \o Separator(s) \o <<Opener(container)>>
        /\ state' = Store(Incremented, start) /\ status' = "ok"
        /\ open' = Append(open, container) /\ owes' = FALSE /\ UNCHANGED validate_utf8
    BY <1>1, <1>9
  <2>2. /\ open' \in Seq({"map", "array"}) /\ Len(open') = n + 1
        /\ \A i \in 1..n : open'[i] = open[i]
        /\ open'[n + 1] = container
    BY <2>1, AppendProperties DEF IInv, TypeOK
  <2>3. Incremented < JHN_MAX_DEPTH
    BY <1>4, <1>9, GeneratorAssumption DEF TooDeep
  <2>4. TypeOK'
    <3>1. state' \in [Cells -> States]
      BY <1>4, <2>1, CellTypes DEF IInv
    <3>2. printed' \in Seq(Words)
      <4>1. <<Opener(container)>> \in Seq(Words)
        BY DEF Opener, Words
      <4> QED BY <1>5, <2>1, <4>1, ConcatProperties
    <3>3. Disciplined => Len(open') < JHN_MAX_DEPTH
      BY <1>6, <2>2, <2>3
    <3> QED BY <1>4, <2>1, <2>2, <3>1, <3>2, <3>3 DEF IInv, TypeOK, Statuses, Cells
  <2>5. ASSUME Disciplined PROVE DepthMirrorsNesting'
    <3>1. /\ open # <<>> => state[0] = "start"
          /\ open = <<>> => state[0] \in {"start", "complete"}
          /\ \A i \in 1..n : state[i] \in StatesOf(open[i], i < n \/ owes)
      BY <2>5 DEF IInv, DepthMirrorsNesting
    <3>2. state' = [state EXCEPT ![n + 1] = start] /\ n + 1 \in Cells
      <4> HIDE DEF start, n
      <4>1. Incremented = n + 1 /\ n + 1 < JHN_MAX_DEPTH
        BY <1>6, <2>3, <2>5
      <4>2. Store(n + 1, start) = [state EXCEPT ![n + 1] = start]
        BY <4>1 DEF Store
      <4>3. n + 1 \in Cells
        BY <1>4, <4>1, GeneratorAssumption DEF Cells
      <4> QED BY <2>1, <4>1, <4>2, <4>3
    <3>3. \A i \in Cells : state'[i] = IF i = n + 1 THEN start ELSE state[i]
      BY <3>2 DEF IInv, TypeOK, Cells
    <3>4. (open = <<>> <=> n = 0) /\ 0 \in Cells /\ 1..(n + 1) \subseteq Cells /\ open' # <<>>
      BY <1>4, <2>2, <3>2, EmptySeq, LenProperties, GeneratorAssumption DEF IInv, TypeOK, Cells
    <3>5. state'[0] = "start"
      <4>1. state[0] = "start"
        <5>1. n = 0 => s = state[0]
          BY <1>6, <2>5
        <5>2. s # "complete"
          BY <1>9 DEF NotKey, Valid
        <5> QED BY <3>1, <3>4, <5>1, <5>2
      <4> QED BY <1>4, <3>3, <3>4, <4>1
    <3>6. ASSUME NEW i \in 1..(n + 1)
          PROVE  state'[i] \in StatesOf(open'[i], i < n + 1 \/ owes')
      <4>1. CASE i = n + 1
        <5>1. state'[i] = start /\ ~(i < n + 1) /\ open'[i] = container
          <6> HIDE DEF start, n
          <6>1. ~(n + 1 < n + 1)
            BY <1>4
          <6>2. state'[n + 1] = start
            BY <3>2, <3>3
          <6>3. open'[n + 1] = container
            BY <2>2
          <6> QED BY <4>1, <6>1, <6>2, <6>3, Zenon
        <5>2. start \in StatesOf(container, FALSE)
          BY DEF StatesOf
        <5>3. StatesOf(open'[i], i < n + 1 \/ owes') = StatesOf(container, FALSE)
          BY <2>1, <5>1 DEF StatesOf
        <5> QED BY <5>1, <5>2, <5>3
      <4>2. CASE i = n /\ i # n + 1
        <5>1. i \in 1..n /\ i < n + 1 /\ n # 0
          BY <1>4, <4>2
        <5>2. state'[i] = s /\ open'[i] = open[n]
          BY <1>6, <2>2, <2>5, <3>3, <4>2, <5>1
        <5>3. s \in StatesOf(open[n], owes)
          <6>1. s = state[i] /\ state[i] \in StatesOf(open[i], i < n \/ owes)
            BY <1>6, <2>5, <3>1, <4>2, <5>1
          <6>2. StatesOf(open[i], i < n \/ owes) = StatesOf(open[n], owes)
            <7> HIDE DEF n
            <7>1. ~(i < n)
              BY <1>4, <4>2
            <7> QED BY <4>2, <7>1 DEF StatesOf
          <6> QED BY <6>1, <6>2
        <5>4. open[n] = "map" => s \notin {"map_start", "map_key"}
          BY <1>9 DEF NotKey
        <5>5. s \in StatesOf(open[n], TRUE)
          BY <5>3, <5>4 DEF StatesOf
        <5>6. StatesOf(open'[i], i < n + 1 \/ owes') = StatesOf(open[n], TRUE)
          BY <5>1, <5>2 DEF StatesOf
        <5> QED BY <5>2, <5>5, <5>6
      <4>3. CASE i # n /\ i # n + 1
        <5>1. i \in 1..n /\ i < n /\ i < n + 1
          BY <1>4, <4>3
        <5>2. state'[i] = state[i] /\ open'[i] = open[i]
          BY <2>2, <3>3, <3>4, <4>3, <5>1
        <5>3. StatesOf(open'[i], i < n + 1 \/ owes') = StatesOf(open[i], i < n \/ owes)
          BY <5>1, <5>2 DEF StatesOf
        <5> QED BY <3>1, <5>1, <5>2, <5>3
      <4> QED BY <4>1, <4>2, <4>3
    <3>7. depth' = Len(open') /\ status' = "ok"
      BY <1>6, <2>1, <2>2, <2>5
    <3> QED BY <2>2, <3>4, <3>5, <3>6, <3>7 DEF DepthMirrorsNesting
  <2>6. DepthMirrorsNesting'
    BY <2>5 DEF DepthMirrorsNesting
  <2> QED BY <2>4, <2>6 DEF IInv
<1> QED BY <1>7, <1>8, <1>9

LEMMA CloseKeeps ==
  ASSUME IInv, NEW container \in {"map", "array"}, CloseContainer(container)
  PROVE  IInv'
<1>1. PICK s \in Here :
        IF Valid(s) # "ok" THEN Refused(Valid(s))
        ELSE
          /\ depth' = Decremented
          /\ UNCHANGED validate_utf8
          /\ IF Decremented >= JHN_MAX_DEPTH
               THEN /\ status' = "generation_complete"
                    /\ UNCHANGED <<state, document>>
               ELSE /\ state' = Store(Decremented, Appended(state[Decremented]))
                    /\ printed' = Append(printed, Closer(container))
                    /\ status' = "ok"
                    /\ open' = IF open = <<>> THEN open ELSE SubSeq(open, 1, Len(open) - 1)
                    /\ owes' = FALSE
  BY DEF CloseContainer
<1>2. MayGenerate /\ (Disciplined => open # <<>> /\ ~owes)
  BY DEF CloseContainer, MayClose
<1>3. s \in States
  BY CellTypes DEF IInv
<1> DEFINE n == Len(open)
<1>4. n \in Nat /\ Decremented \in 0..UINT_MAX /\ (open # <<>> => n >= 1)
  BY DepthTypes, LenProperties, EmptySeq DEF IInv, TypeOK
<1>5. Disciplined => /\ n >= 1 /\ n < JHN_MAX_DEPTH /\ Decremented = n - 1
                     /\ n - 1 < JHN_MAX_DEPTH
  <2>1. Disciplined => n < JHN_MAX_DEPTH /\ depth = n /\ n >= 1
    BY <1>2, <1>4, Steady DEF MayGenerate
  <2> QED BY <2>1, <1>4, GeneratorAssumption DEF Decremented
<1>6. CASE Valid(s) # "ok"
  BY <1>1, <1>2, <1>3, <1>6, CellTypes, RefusedKeeps DEF IInv
<1>7. CASE Valid(s) = "ok" /\ Decremented >= JHN_MAX_DEPTH
  <2>1. depth' = Decremented /\ status' = "generation_complete"
        /\ UNCHANGED <<state, printed, open, owes, validate_utf8>>
    BY <1>1, <1>7 DEF document
  <2>2. ~Disciplined
    <3> HIDE DEF n
    <3> QED BY <1>4, <1>5, <1>7, GeneratorAssumption
  <2>3. TypeOK'
    BY <1>4, <2>1 DEF IInv, TypeOK, Statuses
  <2> QED BY <2>2, <2>3 DEF IInv, DepthMirrorsNesting
<1>8. CASE Valid(s) = "ok" /\ ~(Decremented >= JHN_MAX_DEPTH)
  <2>1. /\ depth' = Decremented /\ status' = "ok" /\ owes' = FALSE /\ UNCHANGED validate_utf8
        /\ state' = Store(Decremented, Appended(state[Decremented]))
        /\ printed' = Append(printed, Closer(container))
        /\ open' = IF open = <<>> THEN open ELSE SubSeq(open, 1, n - 1)
    BY <1>1, <1>8
  <2>2. Decremented \in Cells /\ Decremented < JHN_MAX_DEPTH
    BY <1>4, <1>8, GeneratorAssumption DEF Cells
  <2>3. open # <<>> => /\ open' \in Seq({"map", "array"}) /\ Len(open') = n - 1
                       /\ \A i \in 1..(n - 1) : open'[i] = open[i]
    <3>1. \A i \in 1..(n - 1) : i \in 1..n /\ open[i] \in {"map", "array"}
      BY <1>4, ElementOfSeq DEF IInv, TypeOK
    <3>2. open # <<>> => /\ open' = SubSeq(open, 1, n - 1)
                         /\ n - 1 \in Int /\ 1 <= n - 1 + 1 /\ n - 1 <= n
      BY <1>4, <2>1
    <3>3. open # <<>> => /\ SubSeq(open, 1, n - 1) \in Seq({"map", "array"})
                         /\ Len(SubSeq(open, 1, n - 1)) = n - 1
                         /\ \A i \in 1..(n - 1) : SubSeq(open, 1, n - 1)[i] = open[i]
      <4> HIDE DEF n
      <4> QED BY <1>4, <3>1, <3>2, SubSeqProperties
    <3> QED BY <3>2, <3>3, Zenon
  <2>4. TypeOK'
    <3>1. state[Decremented] \in States
      BY <2>2 DEF IInv, TypeOK, Cells
    <3>2. state' \in [Cells -> States]
      BY <1>4, <2>1, <3>1, CellTypes DEF IInv
    <3>3. printed' \in Seq(Words)
      <4>1. Closer(container) \in Words
        BY DEF Closer, Words
      <4> QED BY <2>1, <4>1, AppendProperties DEF IInv, TypeOK
    <3>4. open' \in Seq({"map", "array"})
      BY <2>1, <2>3 DEF IInv, TypeOK
    <3>5. Disciplined => Len(open') < JHN_MAX_DEPTH
      <4>1. Disciplined => Len(open') = n - 1
        BY <1>2, <2>3
      <4> HIDE DEF n
      <4> QED BY <1>5, <4>1
    <3> QED BY <1>4, <2>1, <3>2, <3>3, <3>4, <3>5 DEF IInv, TypeOK, Statuses, Cells
  <2>5. ASSUME Disciplined PROVE DepthMirrorsNesting'
    <3> DEFINE m == n - 1
    <3>1. /\ state[0] = "start"
          /\ \A i \in 1..n : state[i] \in StatesOf(open[i], i < n \/ owes)
      BY <1>2, <2>5 DEF IInv, DepthMirrorsNesting
    <3>2. /\ m \in Nat /\ n = m + 1 /\ m < n /\ Decremented = m
          /\ Len(open') = m /\ \A i \in 1..m : open'[i] = open[i]
      <4>1. n >= 1 /\ Decremented = m
        BY <1>5, <2>5
      <4>2. Len(open') = m /\ \A i \in 1..m : open'[i] = open[i]
        BY <1>2, <2>3, <2>5
      <4>3. m \in Nat /\ n = m + 1 /\ m < n
        <5> HIDE DEF n
        <5> QED BY <1>4, <4>1
      <4> QED BY <4>1, <4>2, <4>3
    <3> HIDE DEF m, n
    <3>3. state' = [state EXCEPT ![m] = Appended(state[m])] /\ m \in Cells
      BY <2>1, <2>2, <3>2 DEF Store
    <3>4. \A i \in Cells : state'[i] = IF i = m THEN Appended(state[m]) ELSE state[i]
      BY <3>3 DEF IInv, TypeOK, Cells
    <3>5. 0 \in Cells /\ 1..m \subseteq Cells /\ (open' = <<>> <=> m = 0)
      BY <2>4, <3>2, <3>3, EmptySeq, LenProperties, GeneratorAssumption DEF TypeOK, Cells
    <3>6. \A i \in 1..m : i \in 1..n /\ i < n
      BY <3>2
    <3>7. \A i \in 1..m : state[i] \in StatesOf(open[i], TRUE)
      <4>1. \A i \in 1..m : StatesOf(open[i], i < n \/ owes) = StatesOf(open[i], TRUE)
        BY <3>6 DEF StatesOf
      <4> QED BY <3>1, <3>6, <4>1
    <3>8. IF m = 0 THEN state'[0] = "complete" ELSE state'[0] = "start"
      <4>1. CASE m = 0
        BY <3>1, <3>4, <3>5, <4>1 DEF Appended
      <4>2. CASE m # 0
        BY <3>1, <3>4, <3>5, <4>2
      <4> QED BY <4>1, <4>2
    <3>9. ASSUME NEW i \in 1..m PROVE state'[i] \in StatesOf(open'[i], i < m \/ owes')
      <4>1. open'[i] = open[i] /\ state[i] \in StatesOf(open[i], TRUE)
        BY <3>2, <3>7
      <4>2. CASE i = m
        <5>1. state'[i] = Appended(state[i]) /\ ~(i < m)
          BY <3>2, <3>4, <3>5, <4>2
        <5>2. StatesOf(open'[i], i < m \/ owes') = StatesOf(open[i], FALSE)
          BY <2>1, <4>1, <5>1 DEF StatesOf
        <5>3. Appended(state[i]) \in StatesOf(open[i], FALSE)
          BY <4>1 DEF StatesOf, Appended
        <5> QED BY <5>1, <5>2, <5>3
      <4>3. CASE i # m
        <5>1. state'[i] = state[i] /\ i < m
          BY <3>2, <3>4, <3>5, <4>3
        <5>2. StatesOf(open'[i], i < m \/ owes') = StatesOf(open[i], TRUE)
          BY <4>1, <5>1 DEF StatesOf
        <5> QED BY <4>1, <5>1, <5>2
      <4> QED BY <4>2, <4>3
    <3>10. depth' = Len(open') /\ status' = "ok"
      BY <2>1, <3>2
    <3> QED BY <3>2, <3>5, <3>8, <3>9, <3>10 DEF DepthMirrorsNesting
  <2>6. DepthMirrorsNesting'
    BY <2>5 DEF DepthMirrorsNesting
  <2> QED BY <2>4, <2>6 DEF IInv
<1> QED BY <1>6, <1>7, <1>8

-----------------------------------------------------------------------------
(* The invariant is inductive. *)

(* The states of a new document, in jhn_gen_alloc() and jhn_gen_reset(). *)
LEMMA FreshStates ==
  LET fresh == [d \in Cells |-> "start"]
  IN fresh \in [Cells -> States] /\ 0 \in Cells /\ fresh[0] = "start"
BY GeneratorAssumption DEF Cells, States

LEMMA InitHolds == ASSUME Init PROVE IInv
<1>1. Len(open) = 0 /\ open \in Seq({"map", "array"}) /\ printed \in Seq(Words)
  BY DEF Init
<1>2. TypeOK
  BY <1>1, FreshStates, GeneratorAssumption DEF Init, TypeOK, Statuses, Cells
<1>3. DepthMirrorsNesting
  BY <1>1, FreshStates DEF Init, DepthMirrorsNesting, Cells
<1> QED BY <1>2, <1>3 DEF IInv

LEMMA ResetKeeps == ASSUME IInv, Reset PROVE IInv'
<1>1. Len(open') = 0 /\ open' \in Seq({"map", "array"}) /\ printed' \in Seq(Words)
  BY DEF Reset
<1>2. TypeOK'
  <2>1. state' \in [0..(JHN_MAX_DEPTH - 1) -> States]
    BY FreshStates DEF Reset, Cells
  <2>2. depth' \in 0..UINT_MAX /\ Len(open') < JHN_MAX_DEPTH
    BY <1>1, GeneratorAssumption DEF Reset
  <2>3. owes' \in BOOLEAN /\ status' \in Statuses /\ validate_utf8' \in BOOLEAN
    BY DEF Reset, IInv, TypeOK, Statuses
  <2> QED BY <1>1, <2>1, <2>2, <2>3 DEF TypeOK
<1>3. DepthMirrorsNesting'
  BY <1>1, FreshStates DEF Reset, DepthMirrorsNesting, Cells
<1> QED BY <1>2, <1>3 DEF IInv

LEMMA StepKeeps == ASSUME IInv, [Next]_vars PROVE IInv'
<1>1. \A s \in States : /\ Valid(s) \in Statuses /\ Valid(s) # "max_depth_exceeded"
                        /\ NotKey(s) \in Statuses /\ NotKey(s) # "max_depth_exceeded"
                        /\ NotKey(s) = "ok" => Valid(s) = "ok"
  <2>1. \A s \in States : NotKey(s) = "ok" => Valid(s) = "ok"
    BY DEF NotKey
  <2> QED BY <2>1, CellTypes DEF IInv
<1>2. Here \subseteq States
  BY CellTypes DEF IInv
<1>3. "invalid_number" \in Statuses /\ "invalid_string" \in Statuses
  BY DEF Statuses
<1>4. CASE Scalar
  BY <1>1, <1>2, <1>4, RefusedKeeps, AppendKeeps DEF Scalar
<1>5. ASSUME NEW good \in BOOLEAN, Double(good) PROVE IInv'
  <2>1. PICK s \in Here :
          \/ NotKey(s) # "ok" /\ Refused(NotKey(s))
          \/ Refused("invalid_number")
          \/ NotKey(s) = "ok" /\ Append1("scalar", s)
    BY <1>5 DEF Double
  <2>2. MayGenerate
    BY <1>5 DEF Double
  <2> QED BY <1>1, <1>2, <1>3, <2>1, <2>2, RefusedKeeps, AppendKeeps
<1>6. ASSUME NEW good \in BOOLEAN, String(good) PROVE IInv'
  <2>1. PICK s \in Here :
          \/ Refused("invalid_string")
          \/ Valid(s) # "ok" /\ Refused(Valid(s))
          \/ Valid(s) = "ok" /\ Append1("string", s)
    BY <1>6 DEF String
  <2>2. MayGenerate
    BY <1>6 DEF String
  <2> QED BY <1>1, <1>2, <1>3, <2>1, <2>2, RefusedKeeps, AppendKeeps
<1>7. ASSUME NEW container \in {"map", "array"}, OpenContainer(container) PROVE IInv'
  BY <1>7, OpenKeeps
<1>8. ASSUME NEW container \in {"map", "array"}, CloseContainer(container) PROVE IInv'
  BY <1>8, CloseKeeps
<1>9. CASE Reset
  BY <1>9, ResetKeeps
<1>10. CASE Config
  BY <1>10 DEF Config, document, IInv, TypeOK, DepthMirrorsNesting
<1>11. CASE UNCHANGED vars
  BY <1>11 DEF vars, document, IInv, TypeOK, DepthMirrorsNesting
<1> QED BY <1>4, <1>5, <1>6, <1>7, <1>8, <1>9, <1>10, <1>11 DEF Next

(* For every JHN_MAX_DEPTH the fields keep their types, and a disciplined   *)
(* client never has more containers open than state[] has room for.         *)
THEOREM TypeCorrect == Spec => []TypeOK
<1>1. IInv /\ [Next]_vars => IInv'
  BY StepKeeps
<1>2. IInv => TypeOK
  BY DEF IInv
<1> QED BY InitHolds, <1>1, <1>2, PTL DEF Spec

(* For every JHN_MAX_DEPTH and documents of any length, depth counts the    *)
(* open containers and state[] tells how far each has got.                  *)
THEOREM DepthMirrors == Spec => []DepthMirrorsNesting
<1>1. IInv /\ [Next]_vars => IInv'
  BY StepKeeps
<1>2. IInv => DepthMirrorsNesting
  BY DEF IInv
<1> QED BY InitHolds, <1>1, <1>2, PTL DEF Spec
-----------------------------------------------------------------------------
(* What is laid out, as a sequence of words and white space.  Place        *)
(* Len(s) + 1 is where s goes on.                                          *)
LaidWords == Words \cup WhiteSpace

Space(s) == SpaceBefore(s, Len(s) + 1)
Nest(s) == Nesting(s, Len(s) + 1)
Started(s) == \E i \in 1..Len(s) : s[i] \notin WhiteSpace
AfterColon(s) == Len(s) + 1 > 2 /\ s[Len(s) - 1] = "colon"

(* The last word before place n is at k; it is the first when k is 0.       *)
LastWord(s, n, k) ==
  /\ k \in 0..(n - 1)
  /\ k # 0 => s[k] \notin WhiteSpace
  /\ \A i \in (k + 1)..(n - 1) : s[i] \in WhiteSpace

LaidRight(s) ==
  /\ s \in Seq(LaidWords)
  /\ \A n \in 1..(Len(s) + 1) : \E k \in 0..(n - 1) : LastWord(s, n, k)
  /\ \A n \in 1..Len(s) : InItsPlace(s, n)

Openers == {Opener("map"), Opener("array")}
Closers == {Closer("map"), Closer("array")}
ValueWords == {"scalar", "string", Opener("map"), Opener("array")}

(* word may be put behind s. *)
Fits(s, word) ==
  /\ word \in {"comma", "colon"} => Space(s) = <<>>
  /\ word \in Closers => \E i \in 1..Len(Space(s)) :
       SubSeq(Space(s), i, Len(Space(s))) = <<"newline">> \o Indented(Nest(s) - 1)
  /\ word \in ValueWords =>
       Space(s) = IF ~Started(s) THEN <<>> ELSE IF AfterColon(s) THEN <<"blank">>
                  ELSE <<"newline">> \o Indented(Nest(s))

LEMMA WordKinds ==
  /\ Openers = {"left_bracket", "left_brace"} /\ Closers = {"right_bracket", "right_brace"}
  /\ ValueWords = {"scalar", "string", "left_bracket", "left_brace"}
  /\ \A w \in Words : w \notin WhiteSpace
  /\ \A w \in WhiteSpace : w \notin Openers /\ w \notin Closers /\ w \notin ValueWords
                           /\ w \notin {"comma", "colon"}
BY DEF Openers, Closers, ValueWords, Opener, Closer, Words, WhiteSpace

LEMMA SpaceIs ==
  ASSUME NEW s, NEW n \in Nat, NEW k, LastWord(s, n, k), n >= 1
  PROVE  /\ SpaceBefore(s, n) = SubSeq(s, k + 1, n - 1)
         /\ k = 0 <=> \A i \in 1..(n - 1) : s[i] \in WhiteSpace
<1> DEFINE before == {i \in 1..n - 1 : s[i] \notin WhiteSpace}
           last == IF before = {} THEN 0 ELSE CHOOSE i \in before : \A j \in before : j <= i
<1>1. k \in 0..(n - 1) /\ (k # 0 => s[k] \notin WhiteSpace)
      /\ \A i \in (k + 1)..(n - 1) : s[i] \in WhiteSpace
  BY DEF LastWord
<1>2. last = k /\ (k = 0 <=> \A i \in 1..(n - 1) : s[i] \in WhiteSpace)
  <2>1. CASE k = 0
    <3>1. \A i \in 1..(n - 1) : s[i] \in WhiteSpace
      BY <1>1, <2>1
    <3> QED BY <2>1, <3>1
  <2>2. CASE k # 0
    <3>1. k \in before /\ k \in 1..(n - 1) /\ s[k] \notin WhiteSpace
      BY <1>1, <2>2
    <3>2. \A j \in before : j <= k
      BY <1>1
    <3>3. \A i \in before : (\A j \in before : j <= i) => i = k
      BY <3>1, <3>2
    <3>4. (CHOOSE i \in before : \A j \in before : j <= i) = k
      <4> HIDE DEF before
      <4> QED BY <3>1, <3>2, <3>3
    <3> QED BY <2>2, <3>1, <3>4
  <2> QED BY <2>1, <2>2
<1>3. SpaceBefore(s, n) = SubSeq(s, last + 1, n - 1)
  BY Zenon DEF SpaceBefore
<1> QED BY <1>2, <1>3

LEMMA SpaceBehind ==
  ASSUME NEW s, NEW e \in Nat, NEW k, LastWord(s, e + 1, k)
  PROVE  SpaceBefore(s, e + 1) = SubSeq(s, k + 1, e)
<1>1. e + 1 \in Nat /\ e + 1 >= 1 /\ e + 1 - 1 = e
  OBVIOUS
<1>2. SpaceBefore(s, e + 1) = SubSeq(s, k + 1, e + 1 - 1)
  BY <1>1, SpaceIs
<1> QED BY <1>1, <1>2

LEMMA JoinedParts ==
  ASSUME NEW S, NEW t \in Seq(S), NEW a \in Nat, NEW b \in Nat, NEW c \in Nat,
         a <= b, b <= c, c <= Len(t)
  PROVE  SubSeq(t, a + 1, c) = SubSeq(t, a + 1, b) \o SubSeq(t, b + 1, c)
<1> DEFINE m == a + 1
<1>1. Len(t) \in Nat
  BY LenProperties
<1>2. m \in 1..(Len(t) + 1) /\ b \in (m - 1)..Len(t) /\ c \in b..Len(t)
  BY <1>1
<1> HIDE DEF m
<1>3. SubSeq(t, m, b) \o SubSeq(t, b + 1, c) = SubSeq(t, m, c)
  BY <1>2, ConcatAdjacentSubSeq
<1> QED BY <1>3 DEF m

(* What is behind the first n. *)
LEMMA BehindConcat ==
  ASSUME NEW S, NEW s \in Seq(S), NEW w \in Seq(S)
  PROVE  SubSeq(s \o w, Len(s) + 1, Len(s \o w)) = w
<1>1. Len(s) \in Nat /\ Len(w) \in Nat /\ Len(s \o w) = Len(s) + Len(w) /\ s \o w \in Seq(S)
      /\ \A i \in 1..(Len(s) + Len(w)) :
            (s \o w)[i] = IF i <= Len(s) THEN s[i] ELSE w[i - Len(s)]
  BY LenProperties, ConcatProperties
<1>2. CASE Len(w) = 0
  <2>1. w = <<>>
    BY <1>2, EmptySeq
  <2>2. Len(s) + 1 \in Int /\ Len(s \o w) \in Int /\ Len(s \o w) < Len(s) + 1
    BY <1>1, <1>2
  <2> QED BY <2>1, <2>2, SubSeqEmpty
<1>3. CASE Len(w) # 0
  <2>1. /\ Len(s) + 1 \in (Len(s) + 1)..(Len(s) + Len(w))
        /\ Len(s) + Len(w) \in (Len(s) + 1)..(Len(s) + Len(w))
        /\ Len(s) + 1 - Len(s) = 1 /\ Len(s) + Len(w) - Len(s) = Len(w)
    BY <1>1, <1>3
  <2>2. SubSeq(s \o w, Len(s) + 1, Len(s) + Len(w))
        = SubSeq(w, Len(s) + 1 - Len(s), Len(s) + Len(w) - Len(s))
    BY <2>1, SubSeqOfConcat2
  <2>3. SubSeq(w, 1, Len(w)) = w
    BY SubSeqFull
  <2> QED BY <1>1, <2>1, <2>2, <2>3
<1> QED BY <1>2, <1>3

(* Equal elements, equal part. *)
LEMMA EqualParts ==
  ASSUME NEW s \in Seq(LaidWords), NEW t \in Seq(LaidWords), NEW a \in Nat, NEW b \in Nat,
         a >= 1, b <= Len(s), b <= Len(t), \A i \in a..b : t[i] = s[i]
  PROVE  SubSeq(t, a, b) = SubSeq(s, a, b)
<1>1. (\A i \in a..b : s[i] \in LaidWords) /\ (\A i \in a..b : t[i] \in LaidWords)
  BY ElementOfSeq, LenProperties
<1>2. /\ SubSeq(s, a, b) \in Seq(LaidWords) /\ SubSeq(t, a, b) \in Seq(LaidWords)
      /\ Len(SubSeq(s, a, b)) = IF a <= b THEN b - a + 1 ELSE 0
      /\ Len(SubSeq(t, a, b)) = IF a <= b THEN b - a + 1 ELSE 0
      /\ \A i \in 1..(b - a + 1) : SubSeq(s, a, b)[i] = s[a + i - 1]
      /\ \A i \in 1..(b - a + 1) : SubSeq(t, a, b)[i] = t[a + i - 1]
  <2>1. a \in Int /\ b \in Int
    OBVIOUS
  <2> QED BY <1>1, <2>1, SubSeqProperties
<1>3. \A i \in 1..Len(SubSeq(s, a, b)) : SubSeq(t, a, b)[i] = SubSeq(s, a, b)[i]
  <2> TAKE i \in 1..Len(SubSeq(s, a, b))
  <2>1. i \in 1..(b - a + 1) /\ a + i - 1 \in a..b
    BY <1>2
  <2> QED BY <1>2, <2>1
<1>4. Len(SubSeq(t, a, b)) = Len(SubSeq(s, a, b))
  BY <1>2
<1> QED BY <1>2, <1>3, <1>4, SeqEqual

(* What is printed later moves nothing that was printed. *)
Extends(t, s) ==
  /\ t \in Seq(LaidWords) /\ Len(s) <= Len(t)
  /\ \A i \in 1..Len(s) : t[i] = s[i]

LEMMA EarlierPlaces ==
  ASSUME NEW s, NEW t, LaidRight(s), Extends(t, s), NEW n \in 1..(Len(s) + 1)
  PROVE  /\ SpaceBefore(t, n) = SpaceBefore(s, n) /\ Nesting(t, n) = Nesting(s, n)
         /\ \E k \in 0..(n - 1) : LastWord(t, n, k)
         /\ (\A i \in 1..(n - 1) : t[i] \in WhiteSpace) <=> \A i \in 1..(n - 1) : s[i] \in WhiteSpace
<1>1. s \in Seq(LaidWords) /\ t \in Seq(LaidWords) /\ Len(s) \in Nat /\ Len(t) \in Nat
  BY LenProperties DEF LaidRight, Extends
<1>2. PICK k \in 0..(n - 1) : LastWord(s, n, k)
  BY DEF LaidRight
<1>3. n \in Nat /\ n >= 1 /\ n - 1 \in Nat /\ n - 1 <= Len(s) /\ n - 1 <= Len(t)
  BY <1>1 DEF Extends
<1>4. \A i \in 1..(n - 1) : t[i] = s[i]
  BY <1>1, <1>3 DEF Extends
<1>5. LastWord(t, n, k)
  <2>1. k # 0 => t[k] = s[k]
    BY <1>2, <1>3, <1>4
  <2>2. \A i \in (k + 1)..(n - 1) : t[i] = s[i]
    BY <1>2, <1>3, <1>4
  <2> QED BY <1>2, <2>1, <2>2 DEF LastWord
<1>6. SpaceBefore(t, n) = SpaceBefore(s, n)
  <2>1. SpaceBefore(t, n) = SubSeq(t, k + 1, n - 1) /\ SpaceBefore(s, n) = SubSeq(s, k + 1, n - 1)
    BY <1>2, <1>3, <1>5, SpaceIs
  <2>2. k + 1 \in Nat /\ k + 1 >= 1 /\ \A i \in (k + 1)..(n - 1) : t[i] = s[i]
    BY <1>2, <1>3, <1>4
  <2> QED BY <1>1, <1>3, <2>1, <2>2, EqualParts
<1>7. \A words : Count(t, n - 1, words) = Count(s, n - 1, words)
  <2> TAKE words
  <2>1. {i \in 1..(n - 1) : t[i] \in words} = {i \in 1..(n - 1) : s[i] \in words}
    BY <1>4
  <2> QED BY <2>1 DEF Count
<1>8. Nesting(t, n) = Nesting(s, n)
  BY <1>7 DEF Nesting
<1> QED BY <1>2, <1>4, <1>5, <1>6, <1>8

LEMMA SamePlace ==
  ASSUME NEW s, NEW t, LaidRight(s), Extends(t, s), NEW n \in 1..Len(s)
  PROVE  InItsPlace(t, n) <=> InItsPlace(s, n)
<1>1. Len(s) \in Nat
  BY LenProperties DEF LaidRight
<1>2. n \in 1..(Len(s) + 1) /\ (n > 2 => n - 2 \in 1..Len(s))
  BY <1>1
<1>3. t[n] = s[n] /\ ((n > 2 /\ t[n - 2] = "colon") <=> (n > 2 /\ s[n - 2] = "colon"))
  BY <1>2 DEF Extends
<1>4. /\ SpaceBefore(t, n) = SpaceBefore(s, n) /\ Nesting(t, n) = Nesting(s, n)
      /\ (\A i \in 1..(n - 1) : t[i] \in WhiteSpace) <=> \A i \in 1..(n - 1) : s[i] \in WhiteSpace
  BY <1>2, EarlierPlaces
<1> QED BY <1>3, <1>4 DEF InItsPlace

(* In its place is what fits behind what is before it. *)
LEMMA PlaceIsFit ==
  ASSUME NEW s, NEW t, LaidRight(s), Extends(t, s), Len(t) > Len(s)
  PROVE  InItsPlace(t, Len(s) + 1) <=> Fits(s, t[Len(s) + 1])
<1> DEFINE n == Len(s) + 1
<1>1. Len(s) \in Nat
  BY LenProperties DEF LaidRight
<1>2. n \in 1..(Len(s) + 1) /\ n - 1 = Len(s) /\ n - 2 = Len(s) - 1 /\ n > 2 <=> Len(s) + 1 > 2
  BY <1>1
<1>3. /\ SpaceBefore(t, n) = Space(s) /\ Nesting(t, n) = Nest(s)
      /\ (\A i \in 1..(n - 1) : t[i] \in WhiteSpace) <=> ~Started(s)
  BY <1>2, EarlierPlaces DEF Space, Nest, Started
<1>4. (n > 2 /\ t[n - 2] = "colon") <=> AfterColon(s)
  <2>1. n > 2 => n - 2 \in 1..Len(s)
    BY <1>1
  <2>2. n > 2 => t[n - 2] = s[n - 2]
    BY <2>1 DEF Extends
  <2> QED BY <1>2, <2>2 DEF AfterColon
<1> HIDE DEF n
<1>5. InItsPlace(t, n) <=>
        /\ t[n] \in {"comma", "colon"} => Space(s) = <<>>
        /\ t[n] \in {Closer("map"), Closer("array")} => \E i \in 1..Len(Space(s)) :
             SubSeq(Space(s), i, Len(Space(s))) = <<"newline">> \o Indented(Nest(s) - 1)
        /\ t[n] \in {"scalar", "string", Opener("map"), Opener("array")} =>
             Space(s) = IF ~Started(s) THEN <<>> ELSE IF AfterColon(s) THEN <<"blank">>
                        ELSE <<"newline">> \o Indented(Nest(s))
  <2> DEFINE first == \A i \in 1..n - 1 : t[i] \in WhiteSpace
             value == n > 2 /\ t[n - 2] = "colon"
  <2>1. InItsPlace(t, n) <=>
        /\ t[n] \in {"comma", "colon"} => SpaceBefore(t, n) = <<>>
        /\ t[n] \in {Closer("map"), Closer("array")} => \E i \in 1..Len(SpaceBefore(t, n)) :
             SubSeq(SpaceBefore(t, n), i, Len(SpaceBefore(t, n)))
               = <<"newline">> \o Indented(Nesting(t, n) - 1)
        /\ t[n] \in {"scalar", "string", Opener("map"), Opener("array")} =>
             SpaceBefore(t, n) = IF first THEN <<>> ELSE IF value THEN <<"blank">>
                        ELSE <<"newline">> \o Indented(Nesting(t, n))
    BY Zenon DEF InItsPlace
  <2>2. first <=> ~Started(s)
    BY <1>3
  <2>3. value <=> AfterColon(s)
    BY <1>4
  <2>4. (IF first THEN <<>> ELSE IF value THEN <<"blank">>
         ELSE <<"newline">> \o Indented(Nest(s)))
        = IF ~Started(s) THEN <<>> ELSE IF AfterColon(s) THEN <<"blank">>
          ELSE <<"newline">> \o Indented(Nest(s))
    BY <2>2, <2>3
  <2> HIDE DEF first, value
  <2> QED BY <1>3, <2>1, <2>4
<1> QED BY <1>5 DEF Fits, n, Closers, ValueWords

(* Printing white space. *)
LEMMA PutSpace ==
  ASSUME NEW s, LaidRight(s), NEW w \in Seq(WhiteSpace)
  PROVE  /\ LaidRight(s \o w) /\ Space(s \o w) = Space(s) \o w /\ Nest(s \o w) = Nest(s)
         /\ Started(s \o w) <=> Started(s)
<1> DEFINE t == s \o w
           n == Len(s)
           m == Len(w)
<1>1. s \in Seq(LaidWords) /\ w \in Seq(LaidWords) /\ w \in Seq(WhiteSpace)
  <2>1. WhiteSpace \subseteq LaidWords
    BY DEF LaidWords
  <2> QED BY <2>1, SeqMonotonic DEF LaidRight
<1>2. n \in Nat /\ m \in Nat
  BY <1>1, LenProperties
<1>3. /\ t \in Seq(LaidWords) /\ Len(t) = n + m
      /\ \A i \in 1..(n + m) : t[i] = IF i <= n THEN s[i] ELSE w[i - n]
  BY <1>1, ConcatProperties
<1>4. \A i \in 1..n : t[i] = s[i]
  BY <1>2, <1>3
<1>5. \A i \in (n + 1)..(n + m) : t[i] \in WhiteSpace
  <2> TAKE i \in (n + 1)..(n + m)
  <2>1. i - n \in 1..m /\ t[i] = w[i - n]
    BY <1>2, <1>3
  <2> QED BY <1>1, <2>1, ElementOfSeq
<1>6. Extends(t, s)
  BY <1>2, <1>3, <1>4 DEF Extends
<1> HIDE DEF t, n, m
<1>7. PICK k \in 0..n : LastWord(s, n + 1, k)
  <2>1. n + 1 \in 1..(n + 1) /\ n + 1 - 1 = n
    BY <1>2
  <2> QED BY <2>1 DEF LaidRight, n
<1>8. \A j \in (n + 1)..(n + m + 1) : LastWord(t, j, k)
  <2> TAKE j \in (n + 1)..(n + m + 1)
  <2>1. k \in 0..(j - 1) /\ (k # 0 => t[k] \notin WhiteSpace)
    BY <1>2, <1>4, <1>7 DEF LastWord
  <2>2. ASSUME NEW i \in (k + 1)..(j - 1) PROVE t[i] \in WhiteSpace
    <3>1. CASE i <= n
      BY <1>2, <1>4, <1>7, <3>1 DEF LastWord
    <3>2. CASE i > n
      BY <1>2, <1>5, <1>7, <3>2
    <3> QED BY <1>2, <1>7, <3>1, <3>2
  <2> QED BY <2>1, <2>2 DEF LastWord
<1>9. \A j \in 1..(Len(t) + 1) : \E i \in 0..(j - 1) : LastWord(t, j, i)
  <2> TAKE j \in 1..(Len(t) + 1)
  <2>1. CASE j <= n + 1
    <3>1. j \in 1..(n + 1)
      BY <1>2, <2>1
    <3> QED BY <1>6, <3>1, EarlierPlaces DEF n
  <2>2. CASE j > n + 1
    <3>1. j \in (n + 1)..(n + m + 1) /\ k \in 0..(j - 1)
      BY <1>2, <1>3, <1>7, <2>2
    <3> QED BY <1>8, <3>1
  <2> QED BY <1>2, <2>1, <2>2
<1>10. \A j \in 1..Len(t) : InItsPlace(t, j)
  <2> TAKE j \in 1..Len(t)
  <2>1. CASE j <= n
    <3>1. j \in 1..(n + 1) /\ j \in 1..n
      BY <1>2, <2>1
    <3>2. LaidRight(s) => InItsPlace(s, j)
      BY <3>1 DEF LaidRight, n
    <3> QED BY <1>6, <2>1, <3>1, <3>2, SamePlace DEF n
  <2>2. CASE j > n
    <3>1. t[j] \in WhiteSpace
      BY <1>2, <1>3, <1>5, <2>2
    <3>2. t[j] \notin {"comma", "colon"} /\ t[j] \notin Closers /\ t[j] \notin ValueWords
      BY <3>1, WordKinds
    <3> QED BY <3>2 DEF InItsPlace, Closers, ValueWords
  <2> QED BY <1>2, <2>1, <2>2
<1>11. LaidRight(t)
  BY <1>3, <1>9, <1>10 DEF LaidRight
<1>12. Space(t) = Space(s) \o w
  <2>1. n + m + 1 \in (n + 1)..(n + m + 1) /\ n + m \in Nat
    BY <1>2
  <2>2. LastWord(t, n + m + 1, k)
    BY <1>8, <2>1
  <2>3. Space(s) = SubSeq(s, k + 1, n)
    BY <1>2, <1>7, SpaceBehind DEF Space, n
  <2>4. Space(t) = SubSeq(t, k + 1, n + m)
    BY <1>3, <2>1, <2>2, SpaceBehind DEF Space
  <2>5. SubSeq(t, k + 1, n) = SubSeq(s, k + 1, n)
    <3>1. k + 1 \in Nat /\ k + 1 >= 1 /\ n <= Len(t) /\ n <= Len(s)
          /\ \A i \in (k + 1)..n : t[i] = s[i]
      BY <1>2, <1>3, <1>4, <1>7 DEF n
    <3> QED BY <1>1, <1>2, <1>3, <3>1, EqualParts
  <2>6. SubSeq(t, k + 1, n + m) = SubSeq(t, k + 1, n) \o SubSeq(t, n + 1, n + m)
    <3>1. k \in Nat /\ n \in Nat /\ n + m \in Nat /\ k <= n /\ n <= n + m /\ n + m <= Len(t)
          /\ t \in Seq(LaidWords)
      BY <1>2, <1>3, <1>7
    <3> QED BY <3>1, JoinedParts
  <2>7. SubSeq(t, n + 1, n + m) = w
    BY <1>1, <1>3, BehindConcat DEF t, n
  <2> QED BY <2>3, <2>4, <2>5, <2>6, <2>7
<1>13. Nest(t) = Nest(s)
  <2>1. ASSUME NEW words, \A x \in WhiteSpace : x \notin words
        PROVE  Count(t, Len(t) + 1 - 1, words) = Count(s, n + 1 - 1, words)
    <3>1. {i \in 1..(Len(t) + 1 - 1) : t[i] \in words} = {i \in 1..(n + 1 - 1) : s[i] \in words}
      <4>1. \A i \in 1..(Len(t) + 1 - 1) : t[i] \in words => i \in 1..n
        BY <1>2, <1>3, <1>5, <2>1
      <4>2. n + 1 - 1 = n /\ 1..n \subseteq 1..(Len(t) + 1 - 1)
        BY <1>2, <1>3
      <4>3. {i \in 1..(Len(t) + 1 - 1) : t[i] \in words} = {i \in 1..n : s[i] \in words}
        BY <1>4, <4>1, <4>2
      <4> QED BY <4>2, <4>3
    <3> QED BY <3>1 DEF Count
  <2>2. Count(t, Len(t) + 1 - 1, Openers) = Count(s, n + 1 - 1, Openers)
        /\ Count(t, Len(t) + 1 - 1, Closers) = Count(s, n + 1 - 1, Closers)
    BY <2>1, WordKinds
  <2> QED BY <2>2 DEF Nest, Nesting, Openers, Closers, n
<1>14. Started(t) <=> Started(s)
  <2>1. \A i \in 1..Len(t) : t[i] \notin WhiteSpace => i \in 1..n
    BY <1>2, <1>3, <1>5
  <2>2. 1..n \subseteq 1..Len(t)
    BY <1>2, <1>3
  <2> QED BY <1>4, <2>1, <2>2 DEF Started, n
<1> QED BY <1>11, <1>12, <1>13, <1>14 DEF t

(* Printing a word. *)
LEMMA PutWord ==
  ASSUME NEW s, LaidRight(s), NEW word \in Words, Fits(s, word)
  PROVE  /\ LaidRight(s \o <<word>>) /\ Space(s \o <<word>>) = <<>> /\ Started(s \o <<word>>)
         /\ Nest(s \o <<word>>) = IF word \in Openers THEN Nest(s) + 1
                                  ELSE IF word \in Closers THEN Nest(s) - 1 ELSE Nest(s)
<1> DEFINE t == s \o <<word>>
           n == Len(s)
<1>1. s \in Seq(LaidWords) /\ word \in LaidWords /\ <<word>> \in Seq(LaidWords)
      /\ word \notin WhiteSpace
  BY WordKinds DEF LaidRight, LaidWords
<1>2. n \in Nat
  BY <1>1, LenProperties
<1>3. /\ t \in Seq(LaidWords) /\ Len(t) = n + 1 /\ t[n + 1] = word
      /\ \A i \in 1..n : t[i] = s[i]
  <2>1. t = Append(s, word)
    BY <1>1, AppendIsConcat
  <2> QED BY <1>1, <2>1, AppendProperties
<1>4. Extends(t, s) /\ Len(t) > Len(s)
  BY <1>2, <1>3 DEF Extends
<1> HIDE DEF t, n
<1>5. LastWord(t, n + 2, n + 1)
  BY <1>1, <1>2, <1>3 DEF LastWord
<1>6. \A j \in 1..(Len(t) + 1) : \E i \in 0..(j - 1) : LastWord(t, j, i)
  <2> TAKE j \in 1..(Len(t) + 1)
  <2>1. CASE j = n + 2
    <3>1. n + 1 \in 0..(j - 1)
      BY <1>2, <2>1
    <3> QED BY <1>5, <2>1, <3>1
  <2>2. CASE j # n + 2
    <3>1. j \in 1..(n + 1)
      BY <1>2, <1>3, <2>2
    <3> QED BY <1>4, <3>1, EarlierPlaces DEF n
  <2> QED BY <2>1, <2>2
<1>7. \A j \in 1..Len(t) : InItsPlace(t, j)
  <2> TAKE j \in 1..Len(t)
  <2>1. CASE j = n + 1
    <3>1. InItsPlace(t, n + 1) <=> Fits(s, word)
      BY <1>3, <1>4, PlaceIsFit DEF n
    <3> QED BY <2>1, <3>1
  <2>2. CASE j # n + 1
    <3>1. j \in 1..n
      BY <1>2, <1>3, <2>2
    <3>2. LaidRight(s) => InItsPlace(s, j)
      BY <3>1 DEF LaidRight, n
    <3> QED BY <1>4, <3>1, <3>2, SamePlace DEF n
  <2> QED BY <2>1, <2>2
<1>8. LaidRight(t)
  BY <1>3, <1>6, <1>7 DEF LaidRight
<1>9. Space(t) = <<>>
  <2>1. n + 1 \in Nat /\ n + 1 + 1 = n + 2 /\ Len(t) + 1 = n + 2 /\ n + 2 \in Int /\ n + 1 \in Int
        /\ n + 1 < n + 2
    BY <1>2, <1>3
  <2>2. SpaceBefore(t, n + 1 + 1) = SubSeq(t, n + 1 + 1, n + 1)
    BY <1>5, <2>1, SpaceBehind
  <2>3. SubSeq(t, n + 2, n + 1) = <<>>
    BY <2>1, SubSeqEmpty
  <2> QED BY <2>1, <2>2, <2>3 DEF Space
<1>10. Started(t)
  BY <1>1, <1>2, <1>3 DEF Started
<1>11. ASSUME NEW words
       PROVE  /\ Count(s, n, words) \in Nat
              /\ Count(t, n + 1, words) = IF word \in words THEN Count(s, n, words) + 1
                                          ELSE Count(s, n, words)
  <2> DEFINE old == {i \in 1..n : s[i] \in words}
             new == {i \in 1..(n + 1) : t[i] \in words}
  <2>1. IsFiniteSet(old) /\ Cardinality(old) \in Nat
    <3>1. IsFiniteSet(1..n)
      <4>1. 1 \in Int /\ n \in Int
        BY <1>2
      <4> QED BY <4>1, FS_Interval
    <3>2. old \subseteq 1..n
      OBVIOUS
    <3> QED BY <3>1, <3>2, FS_Subset, FS_CardinalityType
  <2>2. n + 1 \notin old
    BY <1>2
  <2>3. new = IF word \in words THEN old \cup {n + 1} ELSE old
    <3>1. 1..(n + 1) = (1..n) \cup {n + 1}
      BY <1>2
    <3>2. \A i \in 1..n : i \in new <=> i \in old
      BY <1>3, <3>1
    <3>3. n + 1 \in new <=> word \in words
      BY <1>3, <3>1
    <3>4. new \subseteq 1..(n + 1) /\ old \subseteq 1..n
      OBVIOUS
    <3> HIDE DEF new, old
    <3>5. CASE word \in words
      <4>1. n + 1 \in new
        BY <3>3, <3>5
      <4>2. new = old \cup {n + 1}
        BY <3>1, <3>2, <3>4, <4>1
      <4> QED BY <3>5, <4>2
    <3>6. CASE word \notin words
      <4>1. n + 1 \notin new
        BY <3>3, <3>6
      <4>2. new = old
        BY <3>1, <3>2, <3>4, <4>1
      <4> QED BY <3>6, <4>2
    <3> QED BY <3>5, <3>6
  <2> HIDE DEF new, old
  <2>4. Cardinality(old \cup {n + 1}) = Cardinality(old) + 1
    BY <2>1, <2>2, FS_AddElement
  <2>5. Count(s, n, words) = Cardinality(old) /\ Count(t, n + 1, words) = Cardinality(new)
    BY DEF Count, old, new
  <2> QED BY <2>1, <2>3, <2>4, <2>5
<1>12. Nest(t) = IF word \in Openers THEN Nest(s) + 1
                 ELSE IF word \in Closers THEN Nest(s) - 1 ELSE Nest(s)
  <2>1. Nest(s) = Count(s, n, Openers) - Count(s, n, Closers)
    <3>1. n + 1 - 1 = n
      BY <1>2
    <3> QED BY <3>1 DEF Nest, Nesting, Openers, Closers, n
  <2>2. Nest(t) = Count(t, n + 1, Openers) - Count(t, n + 1, Closers)
    <3>1. Len(t) + 1 - 1 = n + 1
      BY <1>2, <1>3
    <3> QED BY <3>1 DEF Nest, Nesting, Openers, Closers
  <2>3. word \in Openers => word \notin Closers
    BY WordKinds
  <2> QED BY <1>11, <2>1, <2>2, <2>3
<1> QED BY <1>8, <1>9, <1>10, <1>12 DEF t

-----------------------------------------------------------------------------
(* What the calls lay out while beautify is set.                           *)

(* What is laid out fits the cell of the current depth. *)
TailFits(s, cell) ==
  /\ cell = "start" => s = <<>>
  /\ cell # "start" => Started(s)
  /\ cell \in {"map_start", "array_start", "complete"} => Space(s) = <<"newline">>
  /\ cell \in {"in_array", "map_key", "map_val"} => Space(s) = <<>>

LEMMA NothingLaidOut ==
  LaidRight(<<>>) /\ Nest(<<>>) = 0 /\ Space(<<>>) = <<>> /\ ~Started(<<>>)
<1> DEFINE s == <<>>
<1>1. s \in Seq(LaidWords) /\ Len(s) = 0
  OBVIOUS
<1> HIDE DEF s
<1>2. \A n \in 1..(Len(s) + 1) : n = 0 + 1
  BY <1>1
<1>3. LastWord(s, 0 + 1, 0) /\ 0 \in 0..(0 + 1 - 1)
  BY DEF LastWord
<1>4. LaidRight(s)
  BY <1>1, <1>2, <1>3 DEF LaidRight
<1>5. Space(s) = SubSeq(s, 0 + 1, 0)
  <2>1. LastWord(s, Len(s) + 1, 0) /\ Len(s) \in Nat
    BY <1>1, <1>3
  <2>2. Space(s) = SubSeq(s, 0 + 1, Len(s))
    BY <2>1, SpaceBehind DEF Space
  <2> QED BY <1>1, <2>2
<1>6. SubSeq(s, 0 + 1, 0) = <<>>
  BY SubSeqEmpty
<1>7. \A words : Count(s, Len(s) + 1 - 1, words) = 0
  <2> TAKE words
  <2>1. {i \in 1..(Len(s) + 1 - 1) : s[i] \in words} = {}
    BY <1>1
  <2> QED BY <2>1, FS_EmptySet DEF Count
<1>8. Nest(s) = 0
  BY <1>7 DEF Nest, Nesting
<1>9. ~Started(s)
  BY <1>1 DEF Started
<1> QED BY <1>4, <1>5, <1>6, <1>8, <1>9 DEF s

LEMMA SpaceTypes ==
  /\ <<>> \in Seq(WhiteSpace)
  /\ <<"newline">> \in Seq(WhiteSpace) /\ <<"blank">> \in Seq(WhiteSpace)
  /\ \A d \in Nat : /\ Indented(d) \in Seq(WhiteSpace) /\ Len(Indented(d)) = d
                    /\ <<"newline">> \o Indented(d) \in Seq(WhiteSpace)
                    /\ Len(<<"newline">> \o Indented(d)) = d + 1
<1>1. "newline" \in WhiteSpace /\ "blank" \in WhiteSpace /\ "indent" \in WhiteSpace
  BY DEF WhiteSpace
<1>2. <<"newline">> \in Seq(WhiteSpace) /\ Len(<<"newline">>) = 1 /\ <<"blank">> \in Seq(WhiteSpace)
  BY <1>1
<1>3. ASSUME NEW d \in Nat
      PROVE  Indented(d) \in Seq(WhiteSpace) /\ Len(Indented(d)) = d
  BY <1>1 DEF Indented
<1>4. ASSUME NEW d \in Nat
      PROVE  /\ <<"newline">> \o Indented(d) \in Seq(WhiteSpace)
             /\ Len(<<"newline">> \o Indented(d)) = d + 1
  <2>1. Indented(d) \in Seq(WhiteSpace) /\ Len(Indented(d)) = d
    BY <1>3
  <2>2. Len(<<"newline">> \o Indented(d)) = 1 + d /\ <<"newline">> \o Indented(d) \in Seq(WhiteSpace)
    BY <1>2, <2>1, ConcatProperties
  <2> QED BY <2>2
<1> QED BY <1>2, <1>3, <1>4

LEMMA NotBehindColon ==
  ASSUME NEW s, LaidRight(s), Len(Space(s)) \in Nat, Len(Space(s)) >= 2
  PROVE  ~AfterColon(s)
<1> DEFINE n == Len(s)
<1>1. s \in Seq(LaidWords) /\ n \in Nat
  BY LenProperties DEF LaidRight
<1>2. PICK k \in 0..n : LastWord(s, n + 1, k)
  <2>1. n + 1 \in 1..(n + 1) /\ n + 1 - 1 = n
    BY <1>1
  <2> QED BY <2>1 DEF LaidRight
<1>3. Space(s) = SubSeq(s, k + 1, n)
  BY <1>1, <1>2, SpaceBehind DEF Space
<1>4. Len(SubSeq(s, k + 1, n)) = IF k + 1 <= n THEN n - (k + 1) + 1 ELSE 0
  <2>1. k + 1 \in Int /\ n \in Int /\ \A i \in (k + 1)..n : i \in 1..n
    BY <1>1, <1>2
  <2>2. \A i \in (k + 1)..n : s[i] \in LaidWords
    BY <1>1, <2>1, ElementOfSeq
  <2> DEFINE m == k + 1
  <2> HIDE DEF m, n
  <2>3. Len(SubSeq(s, m, n)) = IF m <= n THEN n - m + 1 ELSE 0
    BY <2>1, <2>2, SubSeqProperties DEF m
  <2> QED BY <2>3 DEF m
<1> HIDE DEF n
<1>5. n - 1 \in (k + 1)..n /\ n - 1 <= n + 1 - 1
  BY <1>1, <1>2, <1>3, <1>4
<1>6. s[n - 1] \in WhiteSpace
  BY <1>1, <1>2, <1>5 DEF LastWord
<1>7. s[n - 1] # "colon"
  BY <1>6 DEF WhiteSpace
<1> QED BY <1>7 DEF AfterColon, n

(* Something may follow s, d deep, where the cell is cell. *)
GoesOn(s, d, cell) ==
  /\ LaidRight(s) /\ d \in Nat /\ Nest(s) = d
  /\ cell \in States \ {"complete", "error"} /\ TailFits(s, cell)
  /\ IF cell = "start" THEN d = 0 ELSE d >= 1

Before(d, cell) == SeparatorLaidOut(cell) \o Indent(d, cell)

(* Before a value, or a key, or what opens a container. *)
LEMMA BeforeValue ==
  ASSUME NEW s, NEW d, NEW cell, GoesOn(s, d, cell), beautify
  PROVE  LET t == s \o Before(d, cell)
         IN /\ LaidRight(t) /\ Nest(t) = d /\ \A word \in ValueWords : Fits(t, word)
            /\ cell = "start" => t = <<>>
<1> DEFINE t == s \o Before(d, cell)
<1>0. /\ LaidRight(s) /\ d \in Nat /\ Nest(s) = d /\ cell \in States /\ TailFits(s, cell)
      /\ cell \notin {"complete", "error"} /\ (IF cell = "start" THEN d = 0 ELSE d >= 1)
      /\ t = s \o (SeparatorLaidOut(cell) \o Indent(d, cell))
  BY DEF GoesOn, Before
<1> HIDE DEF t
<1>1. s \in Seq(LaidWords) /\ s \in Seq(Words \cup WhiteSpace)
  BY <1>0 DEF LaidRight, LaidWords
<1>2. \A w : Beautified(w) = w
  BY DEF Beautified
<1>3. WhiteSpace \subseteq LaidWords /\ Words \subseteq LaidWords
  BY DEF LaidWords
<1>4. \A word \in ValueWords : word \notin {"comma", "colon"} /\ word \notin Closers
  BY WordKinds
<1> DEFINE line == <<"newline">> \o Indented(d)
<1>5. line \in Seq(WhiteSpace) /\ Len(line) = d + 1 /\ Indented(d) \in Seq(WhiteSpace)
      /\ line \in Seq(LaidWords) /\ Indented(d) \in Seq(LaidWords)
  BY <1>0, <1>3, SpaceTypes, SeqMonotonic
<1> HIDE DEF line
<1>6. ASSUME LaidRight(t), Nest(t) = d, Started(t), Space(t) = line, d >= 1
      PROVE  \A word \in ValueWords : Fits(t, word)
  <2>1. ~AfterColon(t)
    BY <1>0, <1>5, <1>6, NotBehindColon
  <2> QED BY <1>4, <1>6, <2>1 DEF Fits, line
<1>7. CASE cell = "start"
  <2>1. s = <<>> /\ d = 0
    BY <1>0, <1>7 DEF TailFits
  <2>2. SeparatorLaidOut(cell) = <<>>
    BY <1>7 DEF SeparatorLaidOut, Separator
  <2>3. Indent(d, cell) = Indented(d) /\ Indented(d) = <<>>
    <3>1. Indent(d, cell) = Indented(d)
      BY <1>2, <1>7 DEF Indent, Indented
    <3>2. Len(Indented(d)) = 0
      BY <1>0, <2>1, SpaceTypes
    <3> QED BY <1>5, <3>1, <3>2, EmptySeq
  <2>4. t = <<>>
    BY <1>0, <2>1, <2>2, <2>3
  <2>5. \A word \in ValueWords : Fits(t, word)
    BY <1>4, <2>4, NothingLaidOut DEF Fits
  <2> QED BY <2>1, <2>4, <2>5, NothingLaidOut DEF t
<1>8. CASE cell \in {"map_start", "array_start"}
  <2>1. d >= 1 /\ Started(s) /\ Space(s) = <<"newline">>
    BY <1>0, <1>8 DEF TailFits
  <2>2. SeparatorLaidOut(cell) = <<>> /\ Indent(d, cell) = Indented(d)
    BY <1>2, <1>8 DEF SeparatorLaidOut, Separator, Indent, Indented
  <2>3. t = s \o Indented(d)
    BY <1>0, <1>5, <2>2, ConcatEmptySeq
  <2>4. LaidRight(t) /\ Nest(t) = d /\ Started(t) /\ Space(t) = line
    BY <1>0, <1>5, <2>1, <2>3, PutSpace DEF line
  <2> QED BY <1>6, <1>8, <2>1, <2>4 DEF t
<1>9. CASE cell \in {"map_key", "in_array"}
  <2>1. d >= 1 /\ Started(s) /\ Space(s) = <<>>
    BY <1>0, <1>9 DEF TailFits
  <2>2. SeparatorLaidOut(cell) = <<"comma">> \o <<"newline">>
    BY <1>2, <1>9 DEF SeparatorLaidOut, Separator
  <2>3. Indent(d, cell) = Indented(d)
    BY <1>2, <1>9 DEF Indent, Indented
  <2>4. <<"comma">> \in Seq(LaidWords) /\ <<"newline">> \in Seq(LaidWords) /\ "comma" \in Words
    BY DEF LaidWords, Words, WhiteSpace
  <2>5. t = (s \o <<"comma">>) \o line
    <3>1. (<<"comma">> \o <<"newline">>) \o Indented(d) = <<"comma">> \o line
      BY <1>5, <2>4, ConcatAssociative DEF line
    <3>2. s \o (<<"comma">> \o line) = (s \o <<"comma">>) \o line
      BY <1>1, <1>5, <2>4, ConcatAssociative
    <3> QED BY <1>0, <2>2, <2>3, <3>1, <3>2
  <2>6. Fits(s, "comma") /\ "comma" \notin Openers /\ "comma" \notin Closers
    BY <2>1, WordKinds DEF Fits
  <2>7. LaidRight(s \o <<"comma">>) /\ Space(s \o <<"comma">>) = <<>> /\ Started(s \o <<"comma">>)
        /\ Nest(s \o <<"comma">>) = d
    BY <1>0, <2>4, <2>6, PutWord
  <2>8. LaidRight(t) /\ Nest(t) = d /\ Started(t) /\ Space(t) = <<>> \o line
    BY <1>5, <2>5, <2>7, PutSpace
  <2>9. Space(t) = line
    BY <1>5, <2>8, ConcatEmptySeq
  <2> QED BY <1>6, <1>9, <2>1, <2>8, <2>9 DEF t
<1>10. CASE cell = "map_val"
  <2>1. d >= 1 /\ Started(s) /\ Space(s) = <<>>
    BY <1>0, <1>10 DEF TailFits
  <2>2. SeparatorLaidOut(cell) = <<"colon">> \o <<"blank">> /\ Indent(d, cell) = <<>>
    BY <1>2, <1>10 DEF SeparatorLaidOut, Separator, Indent
  <2>3. <<"colon">> \in Seq(LaidWords) /\ <<"blank">> \in Seq(LaidWords) /\ "colon" \in Words
        /\ Len(<<"colon">>) = 1 /\ Len(<<"blank">>) = 1 /\ <<"colon">>[1] = "colon"
    BY DEF LaidWords, Words, WhiteSpace
  <2>4. t = (s \o <<"colon">>) \o <<"blank">>
    <3>1. (<<"colon">> \o <<"blank">>) \o <<>> = <<"colon">> \o <<"blank">>
      BY <2>3, ConcatProperties, ConcatEmptySeq
    <3>2. s \o (<<"colon">> \o <<"blank">>) = (s \o <<"colon">>) \o <<"blank">>
      BY <1>1, <2>3, ConcatAssociative
    <3> QED BY <1>0, <2>2, <3>1, <3>2
  <2>5. Fits(s, "colon") /\ "colon" \notin Openers /\ "colon" \notin Closers
    BY <2>1, WordKinds DEF Fits
  <2> DEFINE u == s \o <<"colon">>
  <2>6. LaidRight(u) /\ Space(u) = <<>> /\ Started(u) /\ Nest(u) = d
    BY <1>0, <2>3, <2>5, PutWord
  <2>7. LaidRight(t) /\ Nest(t) = d /\ Started(t) /\ Space(t) = <<>> \o <<"blank">>
    <3> HIDE DEF u
    <3>1. t = u \o <<"blank">>
      BY <2>4 DEF u
    <3> QED BY <2>6, <3>1, PutSpace, SpaceTypes
  <2>8. Space(t) = <<"blank">>
    BY <2>3, <2>7, ConcatEmptySeq
  <2>9. AfterColon(t)
    <3>1. u \in Seq(LaidWords) /\ Len(u) = Len(s) + 1 /\ Len(s) \in Nat /\ u[Len(s) + 1] = "colon"
      <4>1. u = Append(s, "colon")
        BY <1>1, <1>3, <2>3, AppendIsConcat
      <4> QED BY <1>1, <1>3, <2>3, <4>1, AppendProperties, LenProperties
    <3>2. t = Append(u, "blank") /\ "blank" \in LaidWords
      <4>1. "blank" \in LaidWords
        BY DEF LaidWords, WhiteSpace
      <4> QED BY <2>4, <3>1, <4>1, AppendIsConcat
    <3>3. Len(t) = Len(u) + 1 /\ \A i \in 1..Len(u) : t[i] = u[i]
      BY <3>1, <3>2, AppendProperties
    <3>4. Len(t) - 1 = Len(s) + 1 /\ Len(t) + 1 > 2 /\ Len(s) + 1 \in 1..Len(u)
      BY <3>1, <3>3
    <3> QED BY <3>1, <3>3, <3>4 DEF AfterColon
  <2>10. \A word \in ValueWords : Fits(t, word)
    BY <1>4, <2>7, <2>8, <2>9 DEF Fits
  <2> QED BY <1>10, <2>7, <2>10 DEF t
<1>11. cell \in {"start", "map_start", "array_start", "map_key", "in_array", "map_val"}
  BY <1>0 DEF States
<1> QED BY <1>7, <1>8, <1>9, <1>10, <1>11 DEF t

LEMMA BeforeType ==
  ASSUME NEW cell, NEW d \in Nat
  PROVE  Before(d, cell) \in Seq(LaidWords)
<1>1. /\ <<>> \in Seq(LaidWords) /\ <<"comma">> \in Seq(LaidWords) /\ <<"colon">> \in Seq(LaidWords)
      /\ <<"newline">> \in Seq(LaidWords) /\ <<"blank">> \in Seq(LaidWords)
  BY DEF LaidWords, Words, WhiteSpace
<1>2. Indented(d) \in Seq(LaidWords)
  <2>1. WhiteSpace \subseteq LaidWords
    BY DEF LaidWords
  <2> QED BY <2>1, SpaceTypes, SeqMonotonic
<1>3. \A w \in Seq(LaidWords) : Beautified(w) \in Seq(LaidWords)
  BY <1>1 DEF Beautified
<1>4. Indent(d, cell) \in Seq(LaidWords)
  BY <1>1, <1>2, <1>3 DEF Indent, Indented
<1>5. SeparatorLaidOut(cell) \in Seq(LaidWords)
  <2>1. <<"comma">> \o Beautified(<<"newline">>) \in Seq(LaidWords)
    BY <1>1, <1>3, ConcatProperties
  <2>2. <<"colon">> \o Beautified(<<"blank">>) \in Seq(LaidWords)
    BY <1>1, <1>3, ConcatProperties
  <2> QED BY <1>1, <2>1, <2>2 DEF SeparatorLaidOut
<1> QED BY <1>4, <1>5, ConcatProperties DEF Before

(* A word with what stands before and behind it. *)
Line(before, word, final) == (before \o <<word>>) \o final

MayPut(s, before, word, final) ==
  /\ LaidRight(s) /\ before \in Seq(LaidWords) /\ LaidRight(s \o before)
  /\ word \in Words /\ Fits(s \o before, word) /\ final \in Seq(WhiteSpace)

LEMMA PutLine ==
  ASSUME NEW s, NEW before, NEW word, NEW final, MayPut(s, before, word, final)
  PROVE  LET u == s \o Line(before, word, final)
             d == Nest(s \o before)
         IN /\ LaidRight(u) /\ Space(u) = final /\ Started(u) /\ u # <<>>
            /\ Nest(u) = IF word \in Openers THEN d + 1 ELSE IF word \in Closers THEN d - 1 ELSE d
<1> DEFINE t == s \o before
           v == t \o <<word>>
           u == s \o Line(before, word, final)
<1>1. s \in Seq(LaidWords) /\ final \in Seq(LaidWords) /\ <<word>> \in Seq(LaidWords)
      /\ before \in Seq(LaidWords) /\ final \in Seq(WhiteSpace)
  <2>1. WhiteSpace \subseteq LaidWords /\ Words \subseteq LaidWords
    BY DEF LaidWords
  <2> QED BY <2>1, SeqMonotonic DEF LaidRight, MayPut
<1>2. u = v \o final
  <2>1. before \o <<word>> \in Seq(LaidWords)
    BY <1>1, ConcatProperties
  <2>2. u = (s \o (before \o <<word>>)) \o final
    BY <1>1, <2>1, ConcatAssociative DEF Line
  <2>3. s \o (before \o <<word>>) = v
    BY <1>1, ConcatAssociative
  <2> QED BY <2>2, <2>3
<1>3. LaidRight(v) /\ Space(v) = <<>> /\ Started(v)
      /\ Nest(v) = IF word \in Openers THEN Nest(t) + 1
                   ELSE IF word \in Closers THEN Nest(t) - 1 ELSE Nest(t)
  <2>1. LaidRight(t) /\ word \in Words /\ Fits(t, word)
    BY DEF MayPut
  <2> HIDE DEF t
  <2> QED BY <2>1, PutWord
<1> HIDE DEF v, u
<1>4. LaidRight(u) /\ Space(u) = <<>> \o final /\ Nest(u) = Nest(v) /\ Started(u)
  BY <1>1, <1>2, <1>3, PutSpace
<1>5. Space(u) = final
  BY <1>1, <1>4, ConcatEmptySeq
<1>6. u # <<>>
  BY <1>4, NothingLaidOut
<1> QED BY <1>3, <1>4, <1>5, <1>6 DEF u, t

(* A value or a key: FINAL_NEWLINE prints when a document is complete. *)
LEMMA ValueLaidOut ==
  ASSUME NEW s, NEW d, NEW cell, GoesOn(s, d, cell), beautify, NEW word \in {"scalar", "string"}
  PROVE  LET final == IF Appended(cell) = "complete" THEN <<"newline">> ELSE <<>>
             u == s \o Line(Before(d, cell), word, final)
         IN LaidRight(u) /\ Nest(u) = d /\ TailFits(u, Appended(cell)) /\ u # <<>>
<1> DEFINE before == Before(d, cell)
           final == IF Appended(cell) = "complete" THEN <<"newline">> ELSE <<>>
           u == s \o Line(before, word, final)
<1>1. before \in Seq(LaidWords) /\ final \in Seq(WhiteSpace) /\ LaidRight(s) /\ d \in Nat
  BY BeforeType, SpaceTypes DEF GoesOn
<1>2. /\ LaidRight(s \o before) /\ Nest(s \o before) = d
      /\ \A w \in ValueWords : Fits(s \o before, w)
  BY BeforeValue
<1>3. word \in ValueWords /\ word \in Words /\ word \notin Openers /\ word \notin Closers
  BY WordKinds DEF Words
<1> HIDE DEF before, final
<1>4. MayPut(s, before, word, final)
  BY <1>1, <1>2, <1>3 DEF MayPut
<1>5. LaidRight(u) /\ Space(u) = final /\ Started(u) /\ u # <<>> /\ Nest(u) = d
  BY <1>2, <1>3, <1>4, PutLine
<1>6. Appended(cell) \in {"complete", "map_val", "in_array", "map_key"}
  BY DEF Appended, States, GoesOn
<1>7. TailFits(u, Appended(cell))
  BY <1>5, <1>6 DEF TailFits, final
<1> QED BY <1>5, <1>7 DEF before, final

LEMMA OpenLaidOut ==
  ASSUME NEW s, NEW d, NEW cell, GoesOn(s, d, cell), beautify,
         NEW word \in Openers, NEW first \in {"map_start", "array_start"}
  PROVE  LET u == s \o Line(Before(d, cell), word, <<"newline">>)
         IN LaidRight(u) /\ Nest(u) = d + 1 /\ TailFits(u, first) /\ u # <<>>
<1> DEFINE before == Before(d, cell)
           final == <<"newline">>
           u == s \o Line(before, word, final)
<1>1. before \in Seq(LaidWords) /\ final \in Seq(WhiteSpace) /\ LaidRight(s) /\ d \in Nat
  BY BeforeType, SpaceTypes DEF GoesOn
<1>2. /\ LaidRight(s \o before) /\ Nest(s \o before) = d
      /\ \A w \in ValueWords : Fits(s \o before, w)
  BY BeforeValue
<1>3. word \in ValueWords /\ word \in Words
  BY WordKinds DEF Words
<1> HIDE DEF before, final
<1>4. MayPut(s, before, word, final)
  BY <1>1, <1>2, <1>3 DEF MayPut
<1>5. LaidRight(u) /\ Space(u) = final /\ Started(u) /\ u # <<>> /\ Nest(u) = d + 1
  BY <1>2, <1>4, PutLine
<1>6. TailFits(u, first)
  BY <1>5 DEF TailFits, final
<1> QED BY <1>5, <1>6 DEF before, final

LEMMA SpaceType == ASSUME NEW s, LaidRight(s) PROVE Space(s) \in Seq(LaidWords)
<1> DEFINE n == Len(s)
<1>1. s \in Seq(LaidWords) /\ n \in Nat
  BY LenProperties DEF LaidRight
<1>2. PICK k \in 0..n : LastWord(s, n + 1, k)
  <2>1. n + 1 \in 1..(n + 1) /\ n + 1 - 1 = n
    BY <1>1
  <2> QED BY <2>1 DEF LaidRight
<1>3. Space(s) = SubSeq(s, k + 1, n)
  BY <1>1, <1>2, SpaceBehind DEF Space
<1>4. k + 1 \in Int /\ n \in Int /\ \A i \in (k + 1)..n : i \in 1..n
  BY <1>1, <1>2
<1>5. \A i \in (k + 1)..n : s[i] \in LaidWords
  BY <1>1, <1>4, ElementOfSeq
<1> DEFINE m == k + 1
<1> HIDE DEF m, n
<1>6. SubSeq(s, m, n) \in Seq(LaidWords)
  BY <1>4, <1>5, SubSeqProperties DEF m
<1> QED BY <1>3, <1>6 DEF m

(* The end of a container, when cell is what the container is in. *)
LEMMA CloseLaidOut ==
  ASSUME NEW s, LaidRight(s), NEW d \in Nat, Nest(s) = d + 1,
         NEW cell \in {"complete", "in_array", "map_key"}, NEW word \in Closers
  PROVE  LET final == IF cell = "complete" THEN <<"newline">> ELSE <<>>
             u == s \o Line(<<"newline">> \o Indented(d), word, final)
         IN LaidRight(u) /\ Nest(u) = d /\ TailFits(u, cell) /\ u # <<>>
<1> DEFINE before == <<"newline">> \o Indented(d)
           final == IF cell = "complete" THEN <<"newline">> ELSE <<>>
           t == s \o before
           u == s \o Line(before, word, final)
<1>1. before \in Seq(WhiteSpace) /\ before \in Seq(LaidWords) /\ final \in Seq(WhiteSpace)
      /\ Len(before) = d + 1
  <2>1. WhiteSpace \subseteq LaidWords
    BY DEF LaidWords
  <2>2. before \in Seq(WhiteSpace) /\ Len(before) = d + 1 /\ final \in Seq(WhiteSpace)
    BY SpaceTypes
  <2> QED BY <2>1, <2>2, SeqMonotonic
<1>2. word \in Words /\ word \notin Openers /\ word \notin ValueWords /\ word \notin {"comma", "colon"}
  BY WordKinds DEF Words
<1> HIDE DEF before, final
<1>3. LaidRight(t) /\ Space(t) = Space(s) \o before /\ Nest(t) = d + 1
  BY <1>1, PutSpace
<1>4. Space(s) \in Seq(LaidWords)
  BY SpaceType
<1>5. Fits(t, word)
  <2> DEFINE i == Len(Space(s)) + 1
  <2>1. SubSeq(Space(t), i, Len(Space(t))) = before
    BY <1>1, <1>3, <1>4, BehindConcat
  <2>2. i \in 1..Len(Space(t))
    <3>1. Len(Space(s) \o before) = Len(Space(s)) + Len(before) /\ Len(Space(s)) \in Nat
      BY <1>1, <1>4, ConcatProperties, LenProperties
    <3> QED BY <1>1, <1>3, <3>1
  <2>3. Nest(t) - 1 = d
    BY <1>3
  <2> HIDE DEF i, t
  <2>4. \E j \in 1..Len(Space(t)) :
          SubSeq(Space(t), j, Len(Space(t))) = <<"newline">> \o Indented(Nest(t) - 1)
    BY <2>1, <2>2, <2>3 DEF before
  <2> QED BY <1>2, <2>4 DEF Fits
<1>6. MayPut(s, before, word, final)
  BY <1>1, <1>2, <1>3, <1>5 DEF MayPut
<1>7. LaidRight(u) /\ Space(u) = final /\ Started(u) /\ u # <<>> /\ Nest(u) = d + 1 - 1
  BY <1>2, <1>3, <1>6, PutLine
<1>8. TailFits(u, cell)
  BY <1>7 DEF TailFits, final
<1> QED BY <1>7, <1>8 DEF before, final

-----------------------------------------------------------------------------
(* The invariant of what is laid out.                                      *)
LaidInv ==
  /\ IInv
  /\ beautify \in BOOLEAN /\ steady \in BOOLEAN /\ laid_out \in Seq(LaidWords)
  /\ steady => beautify
  /\ laid_out = <<>> => open = <<>> /\ state[0] = "start"
  /\ status = "max_depth_exceeded" => state[0] = "start"
  /\ steady =>
       /\ LaidRight(laid_out) /\ Nest(laid_out) = Len(open)
       /\ status # "max_depth_exceeded" => TailFits(laid_out, state[depth])
       /\ status = "max_depth_exceeded" /\ open = <<>> => laid_out = <<>>

(* The cell a call finds that is not refused for the state. *)
LEMMA CellFound ==
  ASSUME LaidInv, Disciplined, status # "max_depth_exceeded", Valid(state[depth]) = "ok"
  PROVE  /\ IF state[depth] = "start" THEN depth = 0 ELSE depth >= 1
         /\ state[depth] \in States \ {"complete", "error"}
         /\ steady => GoesOn(laid_out, depth, state[depth])
<1> DEFINE s == state[depth]
<1>1. IInv /\ Len(open) \in Nat /\ depth = Len(open) /\ depth \in Cells
  BY Steady DEF LaidInv
<1>2. s \in States \ {"complete", "error"}
  BY <1>1 DEF IInv, TypeOK, Cells, Valid
<1>3. open \in Seq({"map", "array"}) /\ (open = <<>> <=> depth = 0)
  BY <1>1, EmptySeq DEF IInv, TypeOK
<1>4. IF s = "start" THEN depth = 0 ELSE depth >= 1
  <2>1. CASE depth = 0
    BY <1>1, <1>2, <1>3, <2>1 DEF IInv, DepthMirrorsNesting
  <2>2. CASE depth # 0
    <3>1. depth \in 1..Len(open)
      BY <1>1, <2>2
    <3>2. s \in StatesOf(open[depth], depth < Len(open) \/ owes)
      BY <1>1, <3>1 DEF IInv, DepthMirrorsNesting
    <3>3. s # "start"
      BY <3>2 DEF StatesOf
    <3> QED BY <3>1, <3>3
  <2> QED BY <2>1, <2>2
<1>5. steady => GoesOn(laid_out, depth, s)
  BY <1>1, <1>2, <1>4 DEF LaidInv, GoesOn
<1> QED BY <1>2, <1>4, <1>5

LEMMA WordsLaidOut ==
  ASSUME LaidInv, NEW before \in Seq(LaidWords), NEW word \in Words, NEW final \in Seq(WhiteSpace)
  PROVE  /\ laid_out \o Line(before, word, final) \in Seq(LaidWords)
         /\ laid_out \o Line(before, word, final) # <<>>
<1>1. laid_out \in Seq(LaidWords) /\ <<word>> \in Seq(LaidWords) /\ final \in Seq(LaidWords)
      /\ Len(<<word>>) = 1
  <2>1. WhiteSpace \subseteq LaidWords /\ Words \subseteq LaidWords
    BY DEF LaidWords
  <2> QED BY <2>1, SeqMonotonic DEF LaidInv
<1>2. before \o <<word>> \in Seq(LaidWords) /\ Len(before \o <<word>>) = Len(before) + 1
  BY <1>1, ConcatProperties
<1>3. /\ Line(before, word, final) \in Seq(LaidWords)
      /\ Len(Line(before, word, final)) = Len(before) + 1 + Len(final)
  BY <1>1, <1>2, ConcatProperties DEF Line
<1>4. Len(laid_out) \in Nat /\ Len(before) \in Nat /\ Len(final) \in Nat
  BY <1>1, LenProperties
<1>5. /\ laid_out \o Line(before, word, final) \in Seq(LaidWords)
      /\ Len(laid_out \o Line(before, word, final)) = Len(laid_out) + (Len(before) + 1 + Len(final))
  <2> DEFINE line == Line(before, word, final)
  <2>1. line \in Seq(LaidWords) /\ Len(line) = Len(before) + 1 + Len(final)
    BY <1>3
  <2> HIDE DEF line
  <2>2. laid_out \o line \in Seq(LaidWords) /\ Len(laid_out \o line) = Len(laid_out) + Len(line)
    BY <1>1, <2>1, ConcatProperties
  <2> QED BY <2>1, <2>2 DEF line
<1>6. Len(laid_out \o Line(before, word, final)) # 0
  BY <1>4, <1>5
<1> QED BY <1>5, <1>6, EmptySeq

LEMMA RefusedLays ==
  ASSUME LaidInv, Disciplined, MayGenerate, NEW why \in Statuses, why # "max_depth_exceeded",
         Refused(why), Put(<<>>)
  PROVE  LaidInv'
<1>1. IInv'
  BY RefusedKeeps DEF LaidInv
<1>2. status # "max_depth_exceeded" /\ status' # "max_depth_exceeded"
  BY DEF MayGenerate, Refused
<1>3. laid_out' = laid_out
  BY ConcatEmptySeq DEF Put, LaidInv
<1>4. UNCHANGED <<beautify, steady, open, state, depth>>
  BY DEF Put, Refused, document
<1> QED BY <1>1, <1>2, <1>3, <1>4, Zenon DEF LaidInv, TailFits, Nest, LaidRight, Space

LEMMA ValueLays ==
  ASSUME LaidInv, Disciplined, MayGenerate, NEW s \in Here, NEW word \in {"string", "scalar"},
         Valid(s) = "ok", word = "scalar" => NotKey(s) = "ok", Append1(word, s), LayValue(word)
  PROVE  LaidInv'
<1>1. IInv'
  BY AppendKeeps DEF LaidInv
<1>2. status # "max_depth_exceeded" /\ status' = "ok"
  BY DEF MayGenerate, Append1
<1>3. Len(open) \in Nat /\ depth = Len(open) /\ depth \in Cells /\ s = state[depth] /\ depth \in Nat
      /\ depth < JHN_MAX_DEPTH
  BY <1>2, Steady DEF LaidInv
<1>4. state' = [state EXCEPT ![depth] = Appended(s)] /\ UNCHANGED <<depth, open>>
  BY <1>3 DEF Append1, Store
<1>5. state'[depth] = Appended(s) /\ (depth # 0 => state'[0] = state[0])
  BY <1>3, <1>4, GeneratorAssumption DEF LaidInv, IInv, TypeOK, Cells
<1> DEFINE final == IF Appended(s) = "complete" THEN Beautified(<<"newline">>) ELSE <<>>
<1>6. /\ laid_out' = laid_out \o Line(Before(depth, s), word, final)
      /\ UNCHANGED <<beautify, steady>>
  <2>1. BeforeWord = Before(depth, s)
    BY <1>3 DEF BeforeWord, Before
  <2>2. FinalNewline(depth) = final
    BY <1>5 DEF FinalNewline
  <2> QED BY <1>2, <2>1, <2>2 DEF LayValue, Put, Line
<1>7. final \in Seq(WhiteSpace) /\ Before(depth, s) \in Seq(LaidWords) /\ word \in Words
  <2>1. <<"newline">> \in Seq(WhiteSpace) /\ <<>> \in Seq(WhiteSpace)
    BY SpaceTypes
  <2> QED BY <1>3, <2>1, BeforeType DEF Beautified, Words
<1>8. laid_out' \in Seq(LaidWords) /\ laid_out' # <<>>
  BY <1>6, <1>7, WordsLaidOut
<1>9. ASSUME steady
      PROVE  LaidRight(laid_out') /\ Nest(laid_out') = Len(open) /\ TailFits(laid_out', Appended(s))
  <2>1. GoesOn(laid_out, depth, s) /\ beautify
    BY <1>2, <1>3, <1>9, CellFound DEF LaidInv
  <2>2. final = IF Appended(s) = "complete" THEN <<"newline">> ELSE <<>>
    BY <2>1 DEF Beautified
  <2>3. word \in {"scalar", "string"}
    OBVIOUS
  <2> HIDE DEF final
  <2> QED BY <1>3, <1>6, <2>1, <2>2, <2>3, ValueLaidOut
<1> HIDE DEF final
<1>10. /\ beautify' \in BOOLEAN /\ steady' \in BOOLEAN /\ (steady' => beautify')
       /\ status' # "max_depth_exceeded"
  BY <1>2, <1>6 DEF LaidInv
<1>11. steady' => LaidRight(laid_out') /\ Nest(laid_out') = Len(open') /\ TailFits(laid_out', state'[depth'])
  BY <1>4, <1>5, <1>6, <1>9
<1> QED BY <1>1, <1>8, <1>10, <1>11, Zenon DEF LaidInv, TailFits, Nest, LaidRight, Space

LEMMA OpenLays ==
  ASSUME LaidInv, Disciplined, NEW container \in {"map", "array"},
         OpenContainer(container), LayOpen(container)
  PROVE  LaidInv'
<1>1. IInv'
  BY OpenKeeps DEF LaidInv
<1>2. MayGenerate /\ status # "max_depth_exceeded"
  BY DEF OpenContainer, MayGenerate
<1> DEFINE s == state[depth]
           first == IF container = "map" THEN "map_start" ELSE "array_start"
<1>3. Len(open) \in Nat /\ depth = Len(open) /\ depth \in Cells /\ Here = {s} /\ depth \in Nat
      /\ depth < JHN_MAX_DEPTH /\ s \in States
  <2>1. Len(open) \in Nat /\ depth = Len(open) /\ depth \in Cells /\ Here = {s}
        /\ depth < JHN_MAX_DEPTH
    BY <1>2, Steady DEF LaidInv
  <2> QED BY <2>1 DEF LaidInv, IInv, TypeOK, Cells
<1>4. IF NotKey(s) # "ok" THEN Refused(NotKey(s))
      ELSE
        /\ depth' = Incremented
        /\ UNCHANGED validate_utf8
        /\ IF TooDeep(Incremented)
             THEN /\ printed' = printed \o Separator(s)
                  /\ status' = "max_depth_exceeded"
                  /\ UNCHANGED <<state, open, owes>>
             ELSE /\ printed' = printed \o Separator(s) \o <<Opener(container)>>
                  /\ state' = Store(Incremented, first)
                  /\ status' = "ok"
                  /\ open' = Append(open, container) /\ owes' = FALSE
  BY <1>3 DEF OpenContainer
<1>5. Incremented = depth + 1 /\ (NotKey(s) = "ok" => Valid(s) = "ok")
  BY <1>3, GeneratorAssumption DEF Incremented, NotKey
<1>6. BeforeWord = Before(depth, s) /\ Before(depth, s) \in Seq(LaidWords)
  BY <1>3, BeforeType DEF BeforeWord, Before
<1> HIDE DEF s, first
<1>7. CASE NotKey(s) # "ok"
  <2>1. Refused(NotKey(s)) /\ NotKey(s) \in Statuses /\ NotKey(s) # "max_depth_exceeded"
    BY <1>3, <1>4, <1>7, CellTypes DEF LaidInv, IInv
  <2>2. Put(<<>>)
    BY <1>7, <2>1 DEF LayOpen, Refused
  <2> QED BY <1>2, <2>1, <2>2, RefusedLays
<1>8. CASE NotKey(s) = "ok" /\ TooDeep(Incremented)
  <2>1. status' = "max_depth_exceeded" /\ UNCHANGED <<state, open>>
    BY <1>4, <1>8
  <2>2. laid_out' = laid_out \o Before(depth, s) /\ UNCHANGED <<beautify, steady>>
    BY <1>6, <2>1 DEF LayOpen, Put
  <2>3. laid_out' \in Seq(LaidWords) /\ (laid_out' = <<>> => laid_out = <<>>)
    BY <1>6, <2>2, ConcatProperties, ConcatEqualIffEmpty DEF LaidInv
  <2>4. /\ IF s = "start" THEN depth = 0 ELSE depth >= 1
        /\ s \in States \ {"complete", "error"}
        /\ steady => GoesOn(laid_out, depth, s)
    BY <1>2, <1>5, <1>8, CellFound DEF s
  <2>5. open # <<>> <=> depth # 0
    BY <1>3, EmptySeq DEF LaidInv, IInv, TypeOK
  <2>6. state[0] = "start"
    <3>1. CASE depth = 0
      BY <1>3, <2>4, <3>1 DEF s
    <3>2. CASE depth # 0
      BY <2>5, <3>2 DEF LaidInv, IInv, DepthMirrorsNesting
    <3> QED BY <3>1, <3>2
  <2>7. ASSUME steady
        PROVE  LaidRight(laid_out') /\ Nest(laid_out') = depth
               /\ (open = <<>> => laid_out' = <<>>)
    <3>1. GoesOn(laid_out, depth, s) /\ beautify
      BY <2>4, <2>7 DEF LaidInv
    <3>2. open = <<>> => s = "start"
      BY <1>3, <2>4, <2>5
    <3> QED BY <2>2, <3>1, <3>2, BeforeValue
  <2>8. /\ steady' => LaidRight(laid_out') /\ Nest(laid_out') = Len(open')
        /\ steady' => (open' = <<>> => laid_out' = <<>>)
        /\ laid_out' = <<>> => open' = <<>> /\ state'[0] = "start"
        /\ state'[0] = "start"
        /\ beautify' \in BOOLEAN /\ steady' \in BOOLEAN /\ (steady' => beautify')
    BY <1>3, <2>1, <2>2, <2>3, <2>6, <2>7 DEF LaidInv
  <2> QED BY <1>1, <2>1, <2>3, <2>8, Zenon DEF LaidInv, TailFits, Nest, LaidRight, Space
<1>9. CASE NotKey(s) = "ok" /\ ~TooDeep(Incremented)
  <2>1. /\ status' = "ok" /\ depth' = depth + 1 /\ open' = Append(open, container)
        /\ state' = Store(depth + 1, first)
    BY <1>4, <1>5, <1>9
  <2>2. depth + 1 < JHN_MAX_DEPTH
    BY <1>3, <1>5, <1>9, GeneratorAssumption DEF TooDeep
  <2>3. state'[depth'] = first /\ Len(open') = Len(open) + 1
    <3>1. state' = [state EXCEPT ![depth + 1] = first] /\ depth + 1 \in Cells
      BY <1>3, <2>1, <2>2, GeneratorAssumption DEF Store, Cells
    <3>2. Len(open') = Len(open) + 1
      BY <2>1, AppendProperties DEF LaidInv, IInv, TypeOK
    <3> QED BY <2>1, <3>1, <3>2 DEF LaidInv, IInv, TypeOK, Cells
  <2> DEFINE final == Beautified(<<"newline">>)
  <2>4. /\ laid_out' = laid_out \o Line(Before(depth, s), Opener(container), final)
        /\ UNCHANGED <<beautify, steady>>
    BY <1>6, <2>1 DEF LayOpen, Put, Line
  <2>5. final \in Seq(WhiteSpace) /\ Opener(container) \in Words /\ Opener(container) \in Openers
        /\ first \in {"map_start", "array_start"}
    BY SpaceTypes DEF Beautified, Words, Opener, Openers, first
  <2>6. laid_out' \in Seq(LaidWords) /\ laid_out' # <<>>
    BY <1>6, <2>4, <2>5, WordsLaidOut
  <2>7. ASSUME steady
        PROVE  LaidRight(laid_out') /\ Nest(laid_out') = depth + 1 /\ TailFits(laid_out', first)
    <3>1. GoesOn(laid_out, depth, s) /\ beautify
      BY <1>2, <1>5, <1>9, <2>7, CellFound DEF LaidInv, s
    <3>2. final = <<"newline">>
      BY <3>1 DEF Beautified
    <3> HIDE DEF final
    <3> QED BY <2>4, <2>5, <3>1, <3>2, OpenLaidOut
  <2> HIDE DEF final
  <2>8. /\ beautify' \in BOOLEAN /\ steady' \in BOOLEAN /\ (steady' => beautify')
        /\ status' # "max_depth_exceeded"
    BY <2>1, <2>4 DEF LaidInv
  <2>9. steady' => /\ LaidRight(laid_out') /\ Nest(laid_out') = Len(open')
                   /\ TailFits(laid_out', state'[depth'])
    BY <1>3, <2>3, <2>4, <2>7
  <2> QED BY <1>1, <2>6, <2>8, <2>9, Zenon DEF LaidInv, TailFits, Nest, LaidRight, Space
<1> QED BY <1>7, <1>8, <1>9

LEMMA CloseLays ==
  ASSUME LaidInv, Disciplined, NEW container \in {"map", "array"},
         CloseContainer(container), LayClose(container)
  PROVE  LaidInv'
<1>1. IInv'
  BY CloseKeeps DEF LaidInv
<1>2. MayGenerate /\ status # "max_depth_exceeded" /\ open # <<>> /\ ~owes
  BY DEF CloseContainer, MayClose, MayGenerate
<1> DEFINE s == state[depth]
           d == depth - 1
           cell == Appended(state[d])
<1>3. Len(open) \in Nat /\ depth = Len(open) /\ depth \in Cells /\ Here = {s} /\ depth \in Nat
      /\ depth < JHN_MAX_DEPTH /\ s \in States /\ depth >= 1
  <2>1. Len(open) \in Nat /\ depth = Len(open) /\ depth \in Cells /\ Here = {s}
        /\ depth < JHN_MAX_DEPTH
    BY <1>2, Steady DEF LaidInv
  <2>2. Len(open) # 0
    BY <1>2, EmptySeq DEF LaidInv, IInv, TypeOK
  <2> QED BY <2>1, <2>2 DEF LaidInv, IInv, TypeOK, Cells
<1>4. d \in Nat /\ Decremented = d /\ ~(d >= JHN_MAX_DEPTH) /\ depth = d + 1 /\ d < JHN_MAX_DEPTH
  BY <1>3, GeneratorAssumption DEF Decremented
<1>5. IF Valid(s) # "ok" THEN Refused(Valid(s))
      ELSE
        /\ depth' = d
        /\ state' = Store(d, cell)
        /\ status' = "ok"
        /\ open' = SubSeq(open, 1, Len(open) - 1)
  <2>1. IF Valid(s) # "ok" THEN Refused(Valid(s))
        ELSE
          /\ depth' = Decremented
          /\ IF Decremented >= JHN_MAX_DEPTH
               THEN status' = "generation_complete"
               ELSE /\ state' = Store(Decremented, Appended(state[Decremented]))
                    /\ status' = "ok"
                    /\ open' = IF open = <<>> THEN open ELSE SubSeq(open, 1, Len(open) - 1)
    BY <1>3 DEF CloseContainer
  <2> HIDE DEF s, d
  <2> QED BY <1>2, <1>4, <2>1
<1>6. cell \in {"complete", "in_array", "map_key"} /\ (cell = "complete" <=> d = 0)
  <2>1. CASE d = 0
    <3>1. state[0] = "start"
      BY <1>2 DEF LaidInv, IInv, DepthMirrorsNesting
    <3> QED BY <2>1, <3>1 DEF Appended
  <2>2. CASE d # 0
    <3>1. d \in 1..Len(open) /\ d < Len(open)
      BY <1>3, <1>4, <2>2
    <3>2. state[d] \in StatesOf(open[d], d < Len(open) \/ owes)
      BY <3>1 DEF LaidInv, IInv, DepthMirrorsNesting
    <3>3. StatesOf(open[d], d < Len(open) \/ owes) \subseteq {"map_val", "array_start", "in_array"}
      BY <3>1 DEF StatesOf
    <3>4. state[d] \in {"map_val", "array_start", "in_array"}
      BY <3>2, <3>3
    <3> QED BY <2>2, <3>4 DEF Appended
  <2> QED BY <2>1, <2>2
<1> HIDE DEF s, cell, d
<1>7. CASE Valid(s) # "ok"
  <2>1. Refused(Valid(s)) /\ Valid(s) \in Statuses /\ Valid(s) # "max_depth_exceeded"
    BY <1>3, <1>5, <1>7, CellTypes DEF LaidInv, IInv
  <2>2. Put(<<>>)
    BY <1>7, <2>1 DEF LayClose, Refused
  <2> QED BY <1>2, <2>1, <2>2, RefusedLays
<1>8. CASE Valid(s) = "ok"
  <2>1. depth' = d /\ state' = Store(d, cell) /\ status' = "ok"
        /\ open' = SubSeq(open, 1, Len(open) - 1)
    BY <1>5, <1>8
  <2>2. state'[d] = cell /\ Len(open') = d
    <3>1. state' = [state EXCEPT ![d] = cell] /\ d \in Cells
      BY <1>4, <2>1, GeneratorAssumption DEF Store, Cells
    <3>2. depth' = Len(open')
      BY <1>1, <2>1 DEF IInv, DepthMirrorsNesting
    <3> QED BY <2>1, <3>1, <3>2 DEF LaidInv, IInv, TypeOK, Cells
  <2> DEFINE before == Beautified(<<"newline">>) \o Beautified(Indented(d))
             final == IF cell = "complete" THEN Beautified(<<"newline">>) ELSE <<>>
  <2>3. /\ laid_out' = laid_out \o Line(before, Closer(container), final)
        /\ UNCHANGED <<beautify, steady>>
    <3>1. ClosingIndent = Beautified(Indented(d))
      <4>1. state'[depth'] # "map_val"
        BY <1>6, <2>1, <2>2
      <4> QED BY <2>1, <4>1 DEF ClosingIndent, Indent, Indented
    <3>2. FinalNewline(depth') = final
      BY <2>1, <2>2 DEF FinalNewline
    <3> HIDE DEF final
    <3> QED BY <2>1, <3>1, <3>2 DEF LayClose, Put, Line
  <2>4. final \in Seq(WhiteSpace) /\ before \in Seq(LaidWords) /\ Closer(container) \in Words
        /\ Closer(container) \in Closers
    <3>1. Beautified(<<"newline">>) \in Seq(WhiteSpace) /\ Beautified(Indented(d)) \in Seq(WhiteSpace)
      BY <1>4, SpaceTypes DEF Beautified
    <3>2. before \in Seq(WhiteSpace)
      BY <3>1, ConcatProperties
    <3>3. before \in Seq(LaidWords)
      <4>1. WhiteSpace \subseteq LaidWords
        BY DEF LaidWords
      <4> HIDE DEF before
      <4> QED BY <3>2, <4>1, SeqMonotonic
    <3>4. final \in Seq(WhiteSpace)
      BY <3>1, SpaceTypes
    <3> HIDE DEF before, final
    <3> QED BY <3>3, <3>4 DEF Words, Closer, Closers
  <2>5. laid_out' \in Seq(LaidWords) /\ laid_out' # <<>>
    <3> HIDE DEF before, final
    <3> QED BY <2>3, <2>4, WordsLaidOut
  <2>6. ASSUME steady
        PROVE  LaidRight(laid_out') /\ Nest(laid_out') = d /\ TailFits(laid_out', cell)
    <3>1. beautify /\ LaidRight(laid_out) /\ Nest(laid_out) = d + 1
      BY <1>3, <1>4, <2>6 DEF LaidInv
    <3>2. before = <<"newline">> \o Indented(d)
          /\ final = IF cell = "complete" THEN <<"newline">> ELSE <<>>
      BY <3>1 DEF Beautified
    <3> HIDE DEF before, final
    <3> QED BY <1>4, <1>6, <2>3, <2>4, <3>1, <3>2, CloseLaidOut
  <2> HIDE DEF before, final
  <2>7. /\ beautify' \in BOOLEAN /\ steady' \in BOOLEAN /\ (steady' => beautify')
        /\ status' # "max_depth_exceeded"
    BY <2>1, <2>3 DEF LaidInv
  <2>8. steady' => /\ LaidRight(laid_out') /\ Nest(laid_out') = Len(open')
                   /\ TailFits(laid_out', state'[depth'])
    BY <2>1, <2>2, <2>3, <2>6
  <2> QED BY <1>1, <2>5, <2>7, <2>8, Zenon DEF LaidInv, TailFits, Nest, LaidRight, Space
<1> QED BY <1>7, <1>8

LEMMA LayoutIsGenerator == ASSUME [LayoutNext]_<<vars, layout>> PROVE [Next]_vars
BY Zenon DEF LayoutNext, Next, Beautify

LEMMA ResetLays ==
  ASSUME LaidInv, Disciplined, Reset, laid_out' = <<>>, steady' = beautify, UNCHANGED beautify
  PROVE  LaidInv'
<1>1. IInv'
  BY ResetKeeps DEF LaidInv
<1>2. depth' = 0 /\ open' = <<>> /\ status' = "ok" /\ Len(open') = 0 /\ state'[0] = "start"
  BY FreshStates DEF Reset, Cells
<1>3. LaidRight(laid_out') /\ Nest(laid_out') = Len(open') /\ TailFits(laid_out', state'[depth'])
  BY <1>2, NothingLaidOut DEF TailFits
<1>4. beautify' \in BOOLEAN /\ steady' \in BOOLEAN /\ (steady' => beautify')
      /\ laid_out' \in Seq(LaidWords) /\ status' # "max_depth_exceeded"
  BY <1>2 DEF LaidInv
<1> QED BY <1>1, <1>2, <1>3, <1>4, Zenon DEF LaidInv, TailFits, Nest, LaidRight, Space

LEMMA BeautifyLays == ASSUME LaidInv, Disciplined, Beautify PROVE LaidInv'
<1>1. UNCHANGED <<depth, state, open, status, laid_out>> /\ IInv'
  <2>1. UNCHANGED vars
    BY DEF Beautify
  <2>2. IInv'
    BY <2>1, StepKeeps DEF LaidInv
  <2> QED BY <2>1, <2>2 DEF Beautify, vars, document
<1>2. beautify' \in BOOLEAN /\ steady' \in BOOLEAN /\ (steady' => beautify')
      /\ (steady' => laid_out = <<>>)
  BY DEF Beautify, LaidInv
<1>3. ASSUME laid_out = <<>>
      PROVE  /\ LaidRight(laid_out) /\ Nest(laid_out) = Len(open)
             /\ status # "max_depth_exceeded" => TailFits(laid_out, state[depth])
  <2>1. open = <<>> /\ state[0] = "start" /\ Len(open) = 0
    BY <1>3 DEF LaidInv
  <2>2. status # "max_depth_exceeded" => depth = 0
    BY <2>1, Steady DEF LaidInv
  <2> QED BY <1>3, <2>1, <2>2, NothingLaidOut DEF TailFits
<1>4. /\ steady' => LaidRight(laid_out') /\ Nest(laid_out') = Len(open')
      /\ steady' => (status' # "max_depth_exceeded" => TailFits(laid_out', state'[depth']))
      /\ laid_out' \in Seq(LaidWords) /\ (laid_out' = <<>> => open' = <<>> /\ state'[0] = "start")
      /\ (status' = "max_depth_exceeded" => state'[0] = "start") /\ (steady' => laid_out' = <<>>)
  BY <1>1, <1>2, <1>3 DEF LaidInv
<1> QED BY <1>1, <1>2, <1>4, Zenon DEF LaidInv, TailFits, Nest, LaidRight, Space

LEMMA LayoutKeeps == ASSUME LaidInv, Disciplined, [LayoutNext]_<<vars, layout>> PROVE LaidInv'
<1>1. \A s \in States : /\ Valid(s) \in Statuses /\ Valid(s) # "max_depth_exceeded"
                        /\ NotKey(s) \in Statuses /\ NotKey(s) # "max_depth_exceeded"
                        /\ NotKey(s) = "ok" => Valid(s) = "ok"
  <2>1. \A s \in States : NotKey(s) = "ok" => Valid(s) = "ok"
    BY DEF NotKey
  <2> QED BY <2>1, CellTypes DEF LaidInv, IInv
<1>2. Here \subseteq States
  BY CellTypes DEF LaidInv, IInv
<1>3. /\ "invalid_number" \in Statuses /\ "invalid_string" \in Statuses
      /\ "invalid_number" # "ok" /\ "invalid_string" # "ok"
  BY DEF Statuses
<1>4. ASSUME NEW word, NEW why, why # "ok", Refused(why), LayValue(word) PROVE Put(<<>>)
  BY <1>4 DEF LayValue, Refused
<1>5. ASSUME MayGenerate, NEW word, NEW why \in Statuses, why # "ok", why # "max_depth_exceeded",
             Refused(why), LayValue(word)
      PROVE  LaidInv'
  BY <1>4, <1>5, RefusedLays
<1>6. CASE Scalar /\ LayValue("scalar")
  <2>1. PICK s \in Here : \/ NotKey(s) # "ok" /\ Refused(NotKey(s))
                          \/ NotKey(s) = "ok" /\ Append1("scalar", s)
    BY <1>6 DEF Scalar
  <2>2. MayGenerate
    BY <1>6 DEF Scalar
  <2> QED BY <1>1, <1>2, <1>5, <1>6, <2>1, <2>2, ValueLays
<1>7. ASSUME NEW good \in BOOLEAN, Double(good), LayValue("scalar") PROVE LaidInv'
  <2>1. PICK s \in Here :
          \/ NotKey(s) # "ok" /\ Refused(NotKey(s))
          \/ Refused("invalid_number")
          \/ NotKey(s) = "ok" /\ Append1("scalar", s)
    BY <1>7 DEF Double
  <2>2. MayGenerate
    BY <1>7 DEF Double
  <2> QED BY <1>1, <1>2, <1>3, <1>5, <1>7, <2>1, <2>2, ValueLays
<1>8. ASSUME NEW good \in BOOLEAN, String(good), LayValue("string") PROVE LaidInv'
  <2>1. PICK s \in Here :
          \/ Refused("invalid_string")
          \/ Valid(s) # "ok" /\ Refused(Valid(s))
          \/ Valid(s) = "ok" /\ Append1("string", s)
    BY <1>8 DEF String
  <2>2. MayGenerate
    BY <1>8 DEF String
  <2> QED BY <1>1, <1>2, <1>3, <1>5, <1>8, <2>1, <2>2, ValueLays
<1>9. ASSUME NEW container \in {"map", "array"}, OpenContainer(container), LayOpen(container)
      PROVE  LaidInv'
  BY <1>9, OpenLays
<1>10. ASSUME NEW container \in {"map", "array"}, CloseContainer(container), LayClose(container)
       PROVE  LaidInv'
  BY <1>10, CloseLays
<1>11. CASE Reset /\ laid_out' = <<>> /\ steady' = beautify /\ UNCHANGED beautify
  BY <1>11, ResetLays
<1>12. CASE (Config /\ UNCHANGED layout) \/ UNCHANGED <<vars, layout>>
  <2>1. UNCHANGED <<depth, state, open, status, laid_out, beautify, steady>>
    BY <1>12 DEF Config, document, vars, layout
  <2>2. [Next]_vars
    BY LayoutIsGenerator
  <2>3. IInv'
    BY <2>2, StepKeeps DEF LaidInv
  <2> QED BY <2>1, <2>3, Zenon DEF LaidInv, TailFits, Nest, LaidRight, Space
<1>13. CASE Beautify
  BY <1>13, BeautifyLays
<1> QED BY <1>6, <1>7, <1>8, <1>9, <1>10, <1>11, <1>12, <1>13 DEF LayoutNext

LEMMA LayoutInitHolds == ASSUME LayoutInit PROVE LaidInv
<1>1. IInv /\ open = <<>> /\ status = "ok" /\ laid_out = <<>> /\ steady = FALSE /\ beautify = FALSE
  BY InitHolds DEF LayoutInit, Init
<1>2. state[0] = "start"
  BY FreshStates DEF LayoutInit, Init, Cells
<1>3. laid_out \in Seq(LaidWords) /\ status # "max_depth_exceeded"
  BY <1>1, EmptySeq
<1>4. beautify \in BOOLEAN /\ steady \in BOOLEAN /\ ~steady
  BY <1>1, Zenon
<1> QED BY <1>1, <1>2, <1>3, <1>4, Zenon DEF LaidInv

LEMMA LaidMirrors == ASSUME LaidInv PROVE LinesMirrorNesting
BY DEF LaidInv, LaidRight, LinesMirrorNesting

LEMMA LaidEnds == ASSUME LaidInv, Disciplined PROVE LineEndsWithDocument
<1> SUFFICES ASSUME steady
             PROVE  state[0] = "complete" <=>
                      /\ laid_out # <<>> /\ laid_out[Len(laid_out)] = "newline"
                      /\ Nesting(laid_out, Len(laid_out) + 1) = 0
  BY DEF LineEndsWithDocument
<1>1. Len(open) \in Nat /\ (open = <<>> <=> Len(open) = 0)
  BY LenProperties, EmptySeq DEF LaidInv, IInv, TypeOK
<1>2. Nesting(laid_out, Len(laid_out) + 1) = Len(open) /\ LaidRight(laid_out)
  BY DEF LaidInv, Nest
<1>3. ASSUME state[0] = "complete"
      PROVE  laid_out # <<>> /\ laid_out[Len(laid_out)] = "newline" /\ open = <<>>
  <2>1. open = <<>> /\ status # "max_depth_exceeded"
    BY <1>3 DEF LaidInv, IInv, DepthMirrorsNesting
  <2>2. depth = 0
    BY <1>1, <2>1, Steady DEF LaidInv
  <2>3. Started(laid_out) /\ Space(laid_out) = <<"newline">>
    BY <1>3, <2>1, <2>2 DEF LaidInv, TailFits
  <2>4. laid_out # <<>>
    BY <2>3, NothingLaidOut
  <2>5. laid_out[Len(laid_out)] = "newline"
    <3> DEFINE n == Len(laid_out)
    <3>1. laid_out \in Seq(LaidWords) /\ n \in Nat
      BY LenProperties DEF LaidInv
    <3>2. PICK k \in 0..n : LastWord(laid_out, n + 1, k)
      <4>1. n + 1 \in 1..(n + 1) /\ n + 1 - 1 = n
        BY <3>1
      <4> QED BY <1>2, <4>1 DEF LaidRight
    <3>3. Space(laid_out) = SubSeq(laid_out, k + 1, n)
      BY <3>1, <3>2, SpaceBehind DEF Space
    <3> DEFINE m == k + 1
    <3>4. m \in Int /\ n \in Int /\ m >= 1 /\ \A i \in m..n : laid_out[i] \in LaidWords
      <4>1. \A i \in m..n : i \in 1..n
        BY <3>1, <3>2
      <4> QED BY <3>1, <3>2, <4>1, ElementOfSeq
    <3> HIDE DEF m, n
    <3>5. /\ Len(SubSeq(laid_out, m, n)) = IF m <= n THEN n - m + 1 ELSE 0
          /\ \A i \in 1..(n - m + 1) : SubSeq(laid_out, m, n)[i] = laid_out[m + i - 1]
      BY <3>4, SubSeqProperties
    <3>6. SubSeq(laid_out, m, n) = <<"newline">>
      BY <2>3, <3>3 DEF m
    <3>7. Len(<<"newline">>) = 1 /\ <<"newline">>[1] = "newline"
      OBVIOUS
    <3>8. m = n
      BY <3>4, <3>5, <3>6, <3>7
    <3>9. laid_out[m + 1 - 1] = "newline" /\ m + 1 - 1 = n
      BY <3>4, <3>5, <3>6, <3>7, <3>8
    <3> QED BY <3>9 DEF n
  <2> QED BY <2>1, <2>4, <2>5
<1>4. ASSUME laid_out # <<>>, open = <<>> PROVE state[0] = "complete"
  <2>1. status # "max_depth_exceeded"
    BY <1>4 DEF LaidInv
  <2>2. depth = 0
    BY <1>1, <1>4, <2>1, Steady DEF LaidInv
  <2>3. state[0] # "start"
    BY <1>4, <2>1, <2>2 DEF LaidInv, TailFits
  <2> QED BY <1>4, <2>3 DEF LaidInv, IInv, DepthMirrorsNesting
<1> QED BY <1>1, <1>2, <1>3, <1>4

(* What a disciplined client has printed while beautify was set is laid     *)
(* out as its containers are nested, for documents of any length and depth. *)
THEOREM LinesMirror == ASSUME Disciplined PROVE LayoutSpec => []LinesMirrorNesting
<1>1. LaidInv /\ [LayoutNext]_<<vars, layout>> => LaidInv'
  BY LayoutKeeps
<1>2. LaidInv => LinesMirrorNesting
  BY LaidMirrors
<1> QED BY LayoutInitHolds, <1>1, <1>2, PTL DEF LayoutSpec

(* ... and its line is ended when, and only when, its document is complete. *)
THEOREM LineEnds == ASSUME Disciplined PROVE LayoutSpec => []LineEndsWithDocument
<1>1. LaidInv /\ [LayoutNext]_<<vars, layout>> => LaidInv'
  BY LayoutKeeps
<1>2. LaidInv => LineEndsWithDocument
  BY LaidEnds
<1> QED BY LayoutInitHolds, <1>1, <1>2, PTL DEF LayoutSpec
-----------------------------------------------------------------------------
(* The words that are printed, against the grammar.  state[] is the        *)
(* parser's stack in other words: each cell below the current one holds    *)
(* what its container was in before the value that is being generated      *)
(* inside it, and will be in what that value leaves behind.                *)
CellStage(s) ==
  IF s = "complete" THEN "parse_complete"
  ELSE IF s = "map_key" THEN "map_got_val"
  ELSE IF s = "map_val" THEN "map_sep"
  ELSE IF s = "in_array" THEN "array_got_val" ELSE s

(* The stage once the separator is printed. *)
Readied(s) ==
  IF s = "map_key" THEN "map_need_key"
  ELSE IF s = "map_val" THEN "map_need_val"
  ELSE IF s = "in_array" THEN "array_need_val" ELSE s

Usable == States \ {"error"}
Current == state[Len(open)]
Outer == [i \in 1..Len(open) |-> CellStage(Appended(state[i - 1]))]

LEMMA CellStages ==
  /\ \A s \in Usable : CellStage(s) \in Stages /\ Appended(s) \in Usable
  /\ \A s \in Usable : CellStage(s) = "parse_complete" <=> s = "complete"
  /\ \A s \in Usable \ {"complete"} : Readied(s) \in Stages \ {"parse_complete"}
BY DEF CellStage, Readied, Appended, Usable, States, Stages, ValueStages, OtherStages

(* What calls do to the words, by the cell they find. *)
LEMMA SeparatorPrinted ==
  ASSUME NEW stack \in Seq(Stages), NEW s \in Usable \ {"complete"},
         NEW words, Tracks(Append(stack, CellStage(s)), words)
  PROVE  /\ Tracks(Append(stack, Readied(s)), words \o Separator(s))
         /\ words \o Separator(s) \in Seq(Letters)
         /\ Len(words \o Separator(s)) <= Len(words) + 1
<1>0. words \in Seq(Letters) /\ Len(words) \in Nat
  BY LenProperties DEF Tracks
<1>c. CellStage(s) \in Stages
  BY CellStages
<1>1. CASE s \in {"map_key", "in_array"}
  <2>1. /\ Accepts(CellStage(s), "comma") /\ Moved(CellStage(s)) = Readied(s)
        /\ Separator(s) = <<"comma">> /\ "comma" \in Letters
    BY <1>1 DEF CellStage, Readied, Separator, Accepts, Moved, Awaited, Followed, ValueStages,
                OtherStages, Letters
  <2> DEFINE u == Append(words, "comma")
  <2>2. words \o Separator(s) = u /\ u \in Seq(Letters) /\ Len(u) = Len(words) + 1
    BY <1>0, <2>1, AppendIsConcat, AppendProperties
  <2>3. Tracks(Append(stack, Readied(s)), u)
    BY <1>c, <2>1, TracksMove
  <2> HIDE DEF u
  <2>4. Len(u) <= Len(words) + 1
    BY <1>0, <2>2
  <2> QED BY <2>2, <2>3, <2>4, Zenon
<1>2. CASE s = "map_val"
  <2>1. /\ Accepts(CellStage(s), "colon") /\ Moved(CellStage(s)) = Readied(s)
        /\ Separator(s) = <<"colon">> /\ "colon" \in Letters
    BY <1>2 DEF CellStage, Readied, Separator, Accepts, Moved, Awaited, Followed, ValueStages,
                OtherStages, Letters
  <2> DEFINE u == Append(words, "colon")
  <2>2. words \o Separator(s) = u /\ u \in Seq(Letters) /\ Len(u) = Len(words) + 1
    BY <1>0, <2>1, AppendIsConcat, AppendProperties
  <2>3. Tracks(Append(stack, Readied(s)), u)
    BY <1>c, <2>1, TracksMove
  <2> HIDE DEF u
  <2>4. Len(u) <= Len(words) + 1
    BY <1>0, <2>2
  <2> QED BY <2>2, <2>3, <2>4, Zenon
<1>3. CASE s \notin {"map_key", "in_array", "map_val"}
  <2>1. Separator(s) = <<>> /\ CellStage(s) = Readied(s)
    BY <1>3 DEF Separator, CellStage, Readied
  <2>2. words \o <<>> = words
    BY <1>0, ConcatEmptySeq
  <2> QED BY <1>0, <2>1, <2>2
<1> QED BY <1>1, <1>2, <1>3

LEMMA ValuePrinted ==
  ASSUME NEW stack \in Seq(Stages), NEW s \in Usable \ {"complete"},
         NEW word \in {"string", "scalar"}, word = "scalar" => s \notin {"map_start", "map_key"},
         NEW words, Tracks(Append(stack, CellStage(s)), words)
  PROVE  /\ Tracks(Append(stack, CellStage(Appended(s))), words \o Separator(s) \o <<word>>)
         /\ Len(words \o Separator(s) \o <<word>>) <= Len(words) + 2
<1> DEFINE ready == words \o Separator(s)
<1>1. /\ Tracks(Append(stack, Readied(s)), ready) /\ ready \in Seq(Letters)
      /\ Len(ready) <= Len(words) + 1
  BY SeparatorPrinted
<1>2. /\ Accepts(Readied(s), word) /\ Moved(Readied(s)) = CellStage(Appended(s))
      /\ word \in Letters /\ Readied(s) \in Stages
  BY DEF CellStage, Readied, Appended, Usable, States, Accepts, Moved, Valued, Awaited, Followed,
         Stages, ValueStages, OtherStages, Letters
<1>3. words \in Seq(Letters)
  BY DEF Tracks
<1> HIDE DEF ready
<1>4. ready \o <<word>> = Append(ready, word) /\ Len(Append(ready, word)) = Len(ready) + 1
  BY <1>1, <1>2, AppendIsConcat, AppendProperties
<1>5. Tracks(Append(stack, CellStage(Appended(s))), Append(ready, word))
  BY <1>1, <1>2, TracksMove
<1>6. Len(Append(ready, word)) <= Len(words) + 2
  BY <1>1, <1>3, <1>4, LenProperties
<1> QED BY <1>4, <1>5, <1>6 DEF ready

LEMMA OpenPrinted ==
  ASSUME NEW stack \in Seq(Stages), NEW s \in Usable \ {"complete", "map_start", "map_key"},
         NEW container \in {"map", "array"},
         NEW words, Tracks(Append(stack, CellStage(s)), words)
  PROVE  /\ Tracks(Append(Append(stack, CellStage(Appended(s))),
                          CellStage(IF container = "map" THEN "map_start" ELSE "array_start")),
                   words \o Separator(s) \o <<Opener(container)>>)
         /\ Len(words \o Separator(s) \o <<Opener(container)>>) <= Len(words) + 2
<1> DEFINE ready == words \o Separator(s)
           word == Opener(container)
           first == CellStage(IF container = "map" THEN "map_start" ELSE "array_start")
<1>1. /\ Tracks(Append(stack, Readied(s)), ready) /\ ready \in Seq(Letters)
      /\ Len(ready) <= Len(words) + 1
  BY SeparatorPrinted
<1>2. /\ Opens(Readied(s), word) /\ Valued(Readied(s)) = CellStage(Appended(s))
      /\ word \in Letters /\ Readied(s) \in Stages
  BY DEF CellStage, Readied, Appended, Usable, States, Opens, Valued, Opener,
         Stages, ValueStages, OtherStages, Letters
<1>3. Opened(word) = first
  BY DEF Opened, Opener, CellStage
<1>4. words \in Seq(Letters)
  BY DEF Tracks
<1> HIDE DEF ready, word, first
<1>5. ready \o <<word>> = Append(ready, word) /\ Len(Append(ready, word)) = Len(ready) + 1
  BY <1>1, <1>2, AppendIsConcat, AppendProperties
<1>6. Tracks(Append(Append(stack, CellStage(Appended(s))), first), Append(ready, word))
  BY <1>1, <1>2, <1>3, TracksOpen
<1>7. Len(Append(ready, word)) <= Len(words) + 2
  BY <1>1, <1>4, <1>5, LenProperties
<1> QED BY <1>5, <1>6, <1>7 DEF ready, word, first

LEMMA ClosePrinted ==
  ASSUME NEW stack \in Seq(Stages), NEW container \in {"map", "array"},
         NEW s \in StatesOf(container, FALSE),
         NEW words, Tracks(Append(stack, CellStage(s)), words)
  PROVE  /\ Tracks(stack, Append(words, Closer(container)))
         /\ Len(Append(words, Closer(container))) = Len(words) + 1
<1>1. /\ Closes(CellStage(s), Closer(container)) /\ Closer(container) \in Letters
      /\ CellStage(s) \in Stages
  BY DEF StatesOf, CellStage, Closer, Closes, Letters, Stages, ValueStages, OtherStages
<1>2. words \in Seq(Letters)
  BY DEF Tracks
<1> QED BY <1>1, <1>2, TracksClose, AppendProperties

(* What holds of the words that were printed for a disciplined client. *)
WordsMatch ==
  /\ status # "max_depth_exceeded" => Tracks(Append(Outer, CellStage(Current)), printed)
  /\ status = "max_depth_exceeded" =>
       /\ Current # "complete" /\ Len(open) = JHN_MAX_DEPTH - 1
       /\ \E c \in Stages \ {"parse_complete"} : Tracks(Append(Outer, c), printed)
  /\ status = "generation_complete" => Current = "complete"
  /\ status = "keys_must_be_strings" => Current \in {"map_start", "map_key"}
  /\ Len(printed) <= MaxWords

(* The cells in use, read as a stack. *)
LEMMA CellsRead ==
  ASSUME IInv, Disciplined
  PROVE  /\ Len(open) \in Nat /\ Len(open) < JHN_MAX_DEPTH
         /\ \A i \in 0..Len(open) : i \in Cells /\ state[i] \in Usable
         /\ Current \in Usable /\ Outer \in Seq(Stages) /\ Len(Outer) = Len(open)
         /\ Current = "complete" <=> state[0] = "complete"
         /\ Current = "complete" => open = <<>> /\ Outer = <<>>
         /\ \A i \in 1..Len(open) : open[i] \in {"map", "array"}
         /\ open = <<>> <=> Len(open) = 0
<1> DEFINE n == Len(open)
<1>1. n \in Nat /\ n < JHN_MAX_DEPTH /\ (open = <<>> <=> n = 0)
  BY LenProperties, EmptySeq DEF IInv, TypeOK
<1>2. \A i \in 1..n : open[i] \in {"map", "array"}
  BY ElementOfSeq DEF IInv, TypeOK
<1>3. /\ open # <<>> => state[0] = "start"
      /\ open = <<>> => state[0] \in {"start", "complete"}
      /\ \A i \in 1..n : state[i] \in StatesOf(open[i], i < n \/ owes)
  BY DEF IInv, DepthMirrorsNesting
<1> HIDE DEF n
<1>4. \A container \in {"map", "array"} : \A due \in BOOLEAN :
        StatesOf(container, due) \subseteq Usable \ {"complete"}
  BY DEF StatesOf, Usable, States
<1>5. \A i \in 0..n : i \in Cells
  BY <1>1, GeneratorAssumption DEF Cells
<1>6. \A i \in 1..n : state[i] \in Usable \ {"complete"}
  <2>1. ASSUME NEW i \in 1..n PROVE state[i] \in Usable \ {"complete"}
    <3> DEFINE due == i < n \/ owes
    <3>1. due \in BOOLEAN /\ state[i] \in StatesOf(open[i], due)
      BY <1>3 DEF IInv, TypeOK
    <3> HIDE DEF due
    <3> QED BY <1>2, <1>4, <3>1
  <2> QED BY <2>1
<1>7. state[0] \in Usable
  BY <1>3 DEF Usable, States
<1>8. \A i \in 0..n : state[i] \in Usable
  BY <1>1, <1>6, <1>7
<1>9. Current \in Usable /\ (n # 0 => Current # "complete")
  BY <1>1, <1>6, <1>8 DEF Current, n
<1>10. Outer \in Seq(Stages) /\ Len(Outer) = n
  <2>1. ASSUME NEW i \in 1..n PROVE CellStage(Appended(state[i - 1])) \in Stages
    <3>1. state[i - 1] \in Usable
      BY <1>1, <1>8
    <3> QED BY <3>1, CellStages
  <2> DEFINE stage(i) == CellStage(Appended(state[i - 1]))
  <2>2. Outer = [i \in 1..n |-> stage(i)]
    BY DEF Outer, n
  <2>3. \A i \in 1..n : stage(i) \in Stages
    BY <2>1
  <2> HIDE DEF stage
  <2> QED BY <1>1, <2>2, <2>3
<1>11. Current = "complete" <=> state[0] = "complete"
  BY <1>1, <1>3, <1>9 DEF Current, n
<1>12. Current = "complete" => open = <<>> /\ Outer = <<>>
  BY <1>1, <1>9, <1>10, EmptySeq
<1> QED BY <1>1, <1>2, <1>5, <1>8, <1>9, <1>10, <1>11, <1>12 DEF n

-----------------------------------------------------------------------------
(* One lemma for each thing a call can do. *)
LEMMA RefusedMatches ==
  ASSUME IInv, Disciplined, WordsMatch, MayGenerate, NEW why \in Statuses,
         why # "max_depth_exceeded", Refused(why),
         why = "generation_complete" => Current = "complete",
         why = "keys_must_be_strings" => Current \in {"map_start", "map_key"}
  PROVE  WordsMatch'
<1>1. status # "max_depth_exceeded"
  BY DEF MayGenerate
<1>2. Outer' = Outer /\ Current' = Current /\ printed' = printed /\ status' = why
  BY DEF Refused, document, Outer, Current
<1> QED BY <1>1, <1>2 DEF WordsMatch

LEMMA AppendMatches ==
  ASSUME IInv, Disciplined, WordsMatch, MayGenerate, NEW word \in {"string", "scalar"},
         Valid(Current) = "ok", word = "scalar" => NotKey(Current) = "ok",
         Append1(word, Current)
  PROVE  WordsMatch'
<1> DEFINE n == Len(open)
           s == Current
<1>1. status # "max_depth_exceeded" /\ Len(printed) + 2 <= MaxWords
  BY DEF MayGenerate
<1>2. /\ n \in Nat /\ \A i \in 0..n : i \in Cells
      /\ s \in Usable /\ Outer \in Seq(Stages)
  BY CellsRead
<1>3. s # "complete" /\ (word = "scalar" => s \notin {"map_start", "map_key"})
  BY DEF Valid, NotKey
<1>4. state' = [state EXCEPT ![n] = Appended(s)]
  BY <1>1, Steady DEF Append1, Store
<1>5. /\ open' = open /\ status' = "ok"
      /\ printed' = printed \o Separator(s) \o <<word>>
  BY DEF Append1
<1>6. \A i \in 0..n : state'[i] = IF i = n THEN Appended(s) ELSE state[i]
  BY <1>2, <1>4 DEF IInv, TypeOK, Cells
<1>7. Current' = Appended(s)
  BY <1>2, <1>5, <1>6 DEF Current
<1>8. Outer' = Outer
  <2>1. \A i \in 1..n : i - 1 \in 0..n /\ i - 1 # n
    BY <1>2
  <2>2. \A i \in 1..n : state'[i - 1] = state[i - 1]
    BY <1>6, <2>1
  <2> QED BY <1>5, <2>2 DEF Outer
<1>9. Tracks(Append(Outer, CellStage(s)), printed)
  BY <1>1 DEF WordsMatch
<1> HIDE DEF s
<1>10. /\ Tracks(Append(Outer, CellStage(Appended(s))), printed')
       /\ Len(printed') <= Len(printed) + 2
  BY <1>2, <1>3, <1>5, <1>9, ValuePrinted
<1>11. Len(printed') <= MaxWords
  <2>1. Len(printed) \in Nat /\ Len(printed') \in Nat
    BY <1>9, <1>10, LenProperties DEF Tracks
  <2> QED BY <1>1, <1>10, <2>1, GeneratorAssumption
<1> QED BY <1>5, <1>7, <1>8, <1>10, <1>11 DEF WordsMatch

(* The separator is printed before the depth is found to be exceeded. *)
LEMMA TooDeepMatches ==
  ASSUME IInv, Disciplined, WordsMatch, MayGenerate, NotKey(Current) = "ok",
         TooDeep(Incremented), printed' = printed \o Separator(Current),
         status' = "max_depth_exceeded", UNCHANGED <<state, open>>
  PROVE  WordsMatch'
<1> DEFINE n == Len(open)
           s == Current
<1>1. status # "max_depth_exceeded" /\ Len(printed) + 2 <= MaxWords
  BY DEF MayGenerate
<1>2. n \in Nat /\ n < JHN_MAX_DEPTH /\ s \in Usable /\ Outer \in Seq(Stages)
  BY CellsRead
<1>3. s # "complete"
  BY DEF Valid, NotKey
<1>4. Outer' = Outer /\ Current' = s
  BY DEF Outer, Current
<1>5. Tracks(Append(Outer, CellStage(s)), printed)
  BY <1>1 DEF WordsMatch
<1>6. n = JHN_MAX_DEPTH - 1
  <2>1. depth = n
    BY <1>1, Steady
  <2>2. Incremented = n + 1
    BY <1>2, <2>1, GeneratorAssumption DEF Incremented
  <2> QED BY <1>2, <2>2, GeneratorAssumption DEF TooDeep
<1> HIDE DEF s
<1>7. /\ Tracks(Append(Outer, Readied(s)), printed \o Separator(s))
      /\ Len(printed \o Separator(s)) <= Len(printed) + 1
      /\ Len(printed \o Separator(s)) \in Nat
  BY <1>2, <1>3, <1>5, SeparatorPrinted, LenProperties
<1>8. printed' = printed \o Separator(s)
  BY DEF s
<1>9. Len(printed') <= MaxWords
  <2>1. Len(printed) \in Nat
    BY <1>5, LenProperties DEF Tracks
  <2> QED BY <1>1, <1>7, <1>8, <2>1, GeneratorAssumption
<1>10. Readied(s) \in Stages \ {"parse_complete"}
  BY <1>2, <1>3, CellStages
<1>11. open' = open /\ status' = "max_depth_exceeded"
  OBVIOUS
<1>12. \E c \in Stages \ {"parse_complete"} : Tracks(Append(Outer', c), printed')
  BY <1>4, <1>7, <1>8, <1>10
<1> QED BY <1>3, <1>4, <1>6, <1>9, <1>11, <1>12 DEF WordsMatch

LEMMA OpenMatches ==
  ASSUME IInv, Disciplined, WordsMatch, MayGenerate, NotKey(Current) = "ok",
         ~TooDeep(Incremented), NEW container \in {"map", "array"},
         printed' = printed \o Separator(Current) \o <<Opener(container)>>,
         state' = Store(Incremented, IF container = "map" THEN "map_start" ELSE "array_start"),
         status' = "ok", open' = Append(open, container)
  PROVE  WordsMatch'
<1> DEFINE n == Len(open)
           s == Current
           first == IF container = "map" THEN "map_start" ELSE "array_start"
           outer == Outer
<1>1. status # "max_depth_exceeded" /\ Len(printed) + 2 <= MaxWords
  BY DEF MayGenerate
<1>2. /\ n \in Nat /\ n < JHN_MAX_DEPTH /\ s \in Usable /\ outer \in Seq(Stages)
      /\ Len(outer) = n /\ \A i \in 0..n : i \in Cells /\ state[i] \in Usable
  BY CellsRead
<1>3. s # "complete" /\ s \notin {"map_start", "map_key"}
  BY DEF Valid, NotKey
<1>4. Tracks(Append(outer, CellStage(s)), printed)
  BY <1>1 DEF WordsMatch
<1>5. Incremented = n + 1 /\ n + 1 < JHN_MAX_DEPTH /\ n + 1 \in Cells
  <2>1. depth = n
    BY <1>1, Steady
  <2>2. Incremented = n + 1
    BY <1>2, <2>1, GeneratorAssumption DEF Incremented
  <2>3. n + 1 < JHN_MAX_DEPTH
    BY <1>2, <2>2, GeneratorAssumption DEF TooDeep
  <2> QED BY <1>2, <2>2, <2>3, GeneratorAssumption DEF Cells
<1>6. Len(open') = n + 1
  BY AppendProperties DEF IInv, TypeOK
<1>7. state' = [state EXCEPT ![n + 1] = first]
  <2> HIDE DEF n, first
  <2>1. Store(n + 1, first) = [state EXCEPT ![n + 1] = first]
    BY <1>5 DEF Store
  <2>2. state' = Store(Incremented, first)
    BY DEF first
  <2> QED BY <1>5, <2>1, <2>2
<1> HIDE DEF n, first
<1>8. \A i \in Cells : state'[i] = IF i = n + 1 THEN first ELSE state[i]
  BY <1>7 DEF IInv, TypeOK, Cells
<1>9. Current' = first
  BY <1>5, <1>6, <1>8 DEF Current
<1>10. \A i \in 0..n : state'[i] = state[i]
  BY <1>2, <1>8
<1>11. state[n] = s
  BY DEF n, Current
<1> DEFINE longer == Append(outer, CellStage(Appended(s)))
<1>12. Outer' = longer
  <2>1. CellStage(Appended(s)) \in Stages
    BY <1>2, CellStages
  <2>2. /\ longer \in Seq(Stages) /\ Len(longer) = n + 1
        /\ \A i \in 1..n : longer[i] = outer[i]
        /\ longer[n + 1] = CellStage(Appended(s))
    BY <1>2, <2>1, AppendProperties
  <2>3. Outer' = [i \in 1..(n + 1) |-> CellStage(Appended(state'[i - 1]))]
    BY <1>6 DEF Outer
  <2>4. \A i \in 1..n : outer[i] = CellStage(Appended(state[i - 1]))
    BY DEF Outer, n
  <2> HIDE DEF longer, outer
  <2>5. ASSUME NEW i \in 1..(n + 1) PROVE CellStage(Appended(state'[i - 1])) = longer[i]
    <3>1. i - 1 \in 0..n /\ state'[i - 1] = state[i - 1]
      BY <1>2, <1>10
    <3>2. CASE i = n + 1
      <4>1. i - 1 = n
        BY <1>2, <3>2
      <4> QED BY <1>11, <2>2, <3>1, <3>2, <4>1
    <3>3. CASE i # n + 1
      <4>1. i \in 1..n
        BY <1>2, <3>3
      <4> QED BY <2>2, <2>4, <3>1, <4>1
    <3> QED BY <3>2, <3>3
  <2> DEFINE stage(i) == CellStage(Appended(state'[i - 1]))
  <2>6. Outer' = [i \in 1..(n + 1) |-> stage(i)] /\ \A i \in 1..(n + 1) : stage(i) = longer[i]
    BY <2>3, <2>5
  <2> HIDE DEF stage
  <2>7. longer = [i \in 1..(n + 1) |-> longer[i]]
    BY <1>2, <2>2
  <2> QED BY <2>6, <2>7
<1> HIDE DEF s, outer
<1>13. /\ Tracks(Append(longer, CellStage(first)), printed')
       /\ Len(printed') <= Len(printed) + 2
  <2>1. printed' = printed \o Separator(s) \o <<Opener(container)>>
    BY DEF s
  <2>2. s \in Usable \ {"complete", "map_start", "map_key"}
    BY <1>2, <1>3
  <2> QED BY <1>2, <1>4, <2>1, <2>2, OpenPrinted DEF first
<1> HIDE DEF longer
<1>14. Tracks(Append(Outer', CellStage(Current')), printed')
  BY <1>9, <1>12, <1>13
<1>15. Len(printed') <= MaxWords
  <2>1. Len(printed) \in Nat /\ Len(printed') \in Nat
    BY <1>4, <1>13, LenProperties DEF Tracks
  <2> QED BY <1>1, <1>13, <2>1, GeneratorAssumption
<1>16. status' = "ok"
  OBVIOUS
<1> QED BY <1>14, <1>15, <1>16 DEF WordsMatch

LEMMA CloseMatches ==
  ASSUME IInv, Disciplined, WordsMatch, MayGenerate, NEW container \in {"map", "array"},
         open # <<>>, open[Len(open)] = container, ~owes,
         state' = Store(Decremented, Appended(state[Decremented])),
         printed' = Append(printed, Closer(container)), status' = "ok",
         open' = SubSeq(open, 1, Len(open) - 1)
  PROVE  WordsMatch'
<1> DEFINE n == Len(open)
           m == n - 1
           s == Current
           outer == Outer
           beyond == Outer'
<1>1. status # "max_depth_exceeded" /\ Len(printed) + 2 <= MaxWords
  BY DEF MayGenerate
<1>2. /\ n \in Nat /\ n # 0 /\ n < JHN_MAX_DEPTH /\ outer \in Seq(Stages) /\ Len(outer) = n
      /\ \A i \in 0..n : i \in Cells /\ state[i] \in Usable
  BY CellsRead
<1>3. Tracks(Append(outer, CellStage(s)), printed)
  BY <1>1 DEF WordsMatch
<1>4. s \in StatesOf(container, FALSE)
  <2>1. n \in 1..n /\ \A i \in 1..n : state[i] \in StatesOf(open[i], i < n \/ owes)
    BY <1>2 DEF IInv, DepthMirrorsNesting
  <2>2. s \in StatesOf(container, n < n \/ owes)
    BY <2>1 DEF Current
  <2>3. ~(n < n \/ owes)
    BY <1>2
  <2> HIDE DEF n
  <2> QED BY <2>2, <2>3 DEF StatesOf
<1>5. m \in Nat /\ n = m + 1 /\ m \in Cells /\ Decremented = m /\ m < JHN_MAX_DEPTH /\ m \in 0..n
  <2>1. depth = n
    BY <1>1, Steady
  <2> HIDE DEF n
  <2>2. m \in Nat /\ n = m + 1 /\ m < JHN_MAX_DEPTH /\ m \in 0..n
    BY <1>2, GeneratorAssumption
  <2>3. m \in Cells
    BY <1>2, <2>2
  <2>4. Decremented = m
    BY <1>2, <2>1 DEF Decremented
  <2> QED BY <2>2, <2>3, <2>4
<1>6. Len(open') = m
  <2>1. open' = SubSeq(open, 1, m) /\ m \in Int /\ 1 <= m + 1 /\ m <= n
    BY <1>5
  <2>2. \A i \in 1..m : open[i] \in {"map", "array"}
    <3>1. \A i \in 1..n : open[i] \in {"map", "array"}
      BY CellsRead
    <3>2. \A i \in 1..m : i \in 1..n
      BY <1>2, <1>5
    <3> QED BY <3>1, <3>2
  <2> HIDE DEF m, n
  <2> QED BY <1>5, <2>1, <2>2, SubSeqProperties
<1> HIDE DEF m
<1>7. state' = [state EXCEPT ![m] = Appended(state[m])]
  BY <1>5 DEF Store
<1>8. \A i \in Cells : state'[i] = IF i = m THEN Appended(state[m]) ELSE state[i]
  BY <1>7 DEF IInv, TypeOK, Cells
<1>9. Current' = Appended(state[m])
  BY <1>5, <1>6, <1>8 DEF Current
<1>10. beyond \in Seq(Stages) /\ Len(beyond) = m /\ \A i \in 1..m : beyond[i] = outer[i]
  <2>1. beyond = [i \in 1..m |-> CellStage(Appended(state'[i - 1]))]
    BY <1>6 DEF Outer
  <2>2. \A i \in 1..n : outer[i] = CellStage(Appended(state[i - 1]))
    BY DEF Outer
  <2> HIDE DEF n, outer
  <2>3. ASSUME NEW i \in 1..m
        PROVE  CellStage(Appended(state'[i - 1])) = outer[i] /\ outer[i] \in Stages
    <3>1. i \in 1..n /\ i - 1 \in Cells /\ i - 1 # m
      BY <1>2, <1>5
    <3>2. state'[i - 1] = state[i - 1]
      BY <1>8, <3>1
    <3>3. outer[i] \in Stages
      BY <1>2, <3>1, ElementOfSeq
    <3> QED BY <2>2, <3>1, <3>2, <3>3
  <2> DEFINE stage(i) == CellStage(Appended(state'[i - 1]))
  <2>4. /\ beyond = [i \in 1..m |-> stage(i)]
        /\ \A i \in 1..m : stage(i) = outer[i] /\ outer[i] \in Stages
    BY <2>1, <2>3
  <2> HIDE DEF stage, beyond
  <2> QED BY <1>5, <2>4
<1>11. CellStage(Current') \in Stages /\ outer[n] = CellStage(Current')
  <2>1. state[m] \in Usable
    BY <1>2, <1>5
  <2>2. n \in 1..n
    BY <1>2
  <2>3. outer[n] = CellStage(Appended(state[n - 1]))
    BY <2>2 DEF Outer
  <2>4. n - 1 = m
    BY <1>5
  <2> QED BY <1>9, <2>1, <2>3, <2>4, CellStages
<1>12. outer = Append(beyond, CellStage(Current'))
  <2> DEFINE top == CellStage(Current')
  <2>1. top \in Stages /\ outer[n] = top
    BY <1>11
  <2> HIDE DEF n, outer, beyond, top
  <2> DEFINE r == Append(beyond, top)
  <2>2. /\ r \in Seq(Stages) /\ Len(r) = m + 1 /\ r[m + 1] = top
        /\ \A i \in 1..m : r[i] = beyond[i]
    BY <1>10, <2>1, AppendProperties
  <2> HIDE DEF r
  <2>3. ASSUME NEW i \in 1..n PROVE outer[i] = r[i]
    <3>1. CASE i = n
      BY <1>5, <2>1, <2>2, <3>1
    <3>2. CASE i # n
      <4>1. i \in 1..m
        BY <1>5, <3>2
      <4> QED BY <1>10, <2>2, <4>1
    <3> QED BY <3>1, <3>2
  <2>4. outer = r
    BY <1>2, <1>5, <2>2, <2>3, SeqEqual
  <2> QED BY <2>4 DEF r, top
<1> HIDE DEF s, outer, beyond
<1>13. /\ Tracks(outer, printed') /\ Len(printed') = Len(printed) + 1
  BY <1>2, <1>3, <1>4, ClosePrinted
<1>14. Tracks(Append(Outer', CellStage(Current')), printed')
  BY <1>12, <1>13 DEF beyond
<1>15. Len(printed') <= MaxWords
  <2>1. Len(printed) \in Nat /\ Len(printed') \in Nat
    BY <1>3, <1>13, LenProperties DEF Tracks
  <2> QED BY <1>1, <1>13, <2>1, GeneratorAssumption
<1>16. status' = "ok"
  OBVIOUS
<1> QED BY <1>14, <1>15, <1>16 DEF WordsMatch

-----------------------------------------------------------------------------
(* The match is kept. *)
LEMMA FreshMatches ==
  ASSUME Len(open) = 0, state = [d \in Cells |-> "start"], printed = <<>>, status = "ok"
  PROVE  WordsMatch
<1>1. Current = "start"
  BY FreshStates DEF Current
<1>2. Outer = <<>>
  BY DEF Outer
<1>3. Tracks(Append(<<>>, "start"), <<>>)
  BY TracksNothing
<1>4. CellStage(Current) = "start"
  BY <1>1 DEF CellStage
<1>5. Tracks(Append(Outer, CellStage(Current)), printed)
  BY <1>2, <1>3, <1>4
<1>6. Len(printed) <= MaxWords
  BY GeneratorAssumption
<1> QED BY <1>5, <1>6 DEF WordsMatch

LEMMA MatchInit == ASSUME Init PROVE WordsMatch
BY FreshMatches DEF Init, Cells

LEMMA MatchReset == ASSUME Reset PROVE WordsMatch'
<1>1. /\ Len(open') = 0 /\ state' = [d \in Cells |-> "start"] /\ printed' = <<>>
      /\ status' = "ok" /\ open' = <<>>
  BY DEF Reset, Cells
<1>2. Current' = "start"
  BY <1>1, FreshStates DEF Current
<1>3. Outer' = <<>>
  BY <1>1 DEF Outer
<1>4. Tracks(Append(<<>>, "start"), <<>>)
  BY TracksNothing
<1>5. CellStage(Current') = "start"
  BY <1>2 DEF CellStage
<1>6. Tracks(Append(Outer', CellStage(Current')), printed')
  BY <1>1, <1>3, <1>4, <1>5
<1>7. Len(printed') <= MaxWords
  BY <1>1, GeneratorAssumption
<1> QED BY <1>1, <1>6, <1>7 DEF WordsMatch

LEMMA MatchOpen ==
  ASSUME IInv, Disciplined, WordsMatch, NEW container \in {"map", "array"},
         OpenContainer(container)
  PROVE  WordsMatch'
<1>1. MayGenerate /\ status # "max_depth_exceeded"
  BY DEF OpenContainer, MayGenerate
<1>2. Here = {Current}
  BY <1>1, Steady DEF Current
<1>3. IF NotKey(Current) # "ok" THEN Refused(NotKey(Current))
      ELSE
        /\ depth' = Incremented
        /\ UNCHANGED validate_utf8
        /\ IF TooDeep(Incremented)
             THEN /\ printed' = printed \o Separator(Current)
                  /\ status' = "max_depth_exceeded"
                  /\ UNCHANGED <<state, open, owes>>
             ELSE /\ printed' = printed \o Separator(Current) \o <<Opener(container)>>
                  /\ state' = Store(Incremented, IF container = "map" THEN "map_start"
                                                 ELSE "array_start")
                  /\ status' = "ok"
                  /\ open' = Append(open, container) /\ owes' = FALSE
  <2> DEFINE Does(s) ==
        IF NotKey(s) # "ok" THEN Refused(NotKey(s))
        ELSE
          /\ depth' = Incremented
          /\ UNCHANGED validate_utf8
          /\ IF TooDeep(Incremented)
               THEN /\ printed' = printed \o Separator(s)
                    /\ status' = "max_depth_exceeded"
                    /\ UNCHANGED <<state, open, owes>>
               ELSE /\ printed' = printed \o Separator(s) \o <<Opener(container)>>
                    /\ state' = Store(Incremented, IF container = "map" THEN "map_start"
                                                   ELSE "array_start")
                    /\ status' = "ok"
                    /\ open' = Append(open, container) /\ owes' = FALSE
  <2>1. \E s \in Here : Does(s)
    BY Zenon DEF OpenContainer
  <2> HIDE DEF Does
  <2>2. Does(Current)
    BY <1>2, <2>1
  <2> QED BY <2>2 DEF Does
<1>4. Current \in States
  BY CellsRead DEF Usable
<1>5. CASE NotKey(Current) # "ok"
  <2>1. /\ NotKey(Current) \in Statuses /\ NotKey(Current) # "max_depth_exceeded"
        /\ NotKey(Current) = "generation_complete" => Current = "complete"
        /\ NotKey(Current) = "keys_must_be_strings" => Current \in {"map_start", "map_key"}
    BY <1>4 DEF NotKey, Valid, Statuses
  <2> QED BY <1>1, <1>3, <1>5, <2>1, RefusedMatches
<1>6. CASE NotKey(Current) = "ok" /\ TooDeep(Incremented)
  BY <1>1, <1>3, <1>6, TooDeepMatches
<1>7. CASE NotKey(Current) = "ok" /\ ~TooDeep(Incremented)
  BY <1>1, <1>3, <1>7, OpenMatches
<1> QED BY <1>5, <1>6, <1>7

LEMMA MatchClose ==
  ASSUME IInv, Disciplined, WordsMatch, NEW container \in {"map", "array"},
         CloseContainer(container)
  PROVE  WordsMatch'
<1>1. /\ MayGenerate /\ status # "max_depth_exceeded"
      /\ open # <<>> /\ open[Len(open)] = container /\ ~owes
  BY DEF CloseContainer, MayGenerate, MayClose
<1>2. Here = {Current}
  BY <1>1, Steady DEF Current
<1>3. /\ Len(open) \in Nat /\ Len(open) # 0 /\ Len(open) < JHN_MAX_DEPTH /\ Current \in States
      /\ depth = Len(open) /\ Current # "complete"
  BY <1>1, CellsRead, Steady DEF Usable
<1>4. ~(Decremented >= JHN_MAX_DEPTH)
  BY <1>3, GeneratorAssumption DEF Decremented
<1>5. IF Valid(Current) # "ok" THEN Refused(Valid(Current))
      ELSE /\ state' = Store(Decremented, Appended(state[Decremented]))
           /\ printed' = Append(printed, Closer(container)) /\ status' = "ok"
           /\ open' = SubSeq(open, 1, Len(open) - 1)
  BY <1>1, <1>2, <1>4 DEF CloseContainer
<1>6. CASE Valid(Current) # "ok"
  <2>1. /\ Valid(Current) \in Statuses /\ Valid(Current) # "max_depth_exceeded"
        /\ Valid(Current) # "generation_complete" /\ Valid(Current) # "keys_must_be_strings"
    BY <1>3 DEF Valid, Statuses
  <2> QED BY <1>1, <1>5, <1>6, <2>1, RefusedMatches
<1>7. CASE Valid(Current) = "ok"
  BY <1>1, <1>5, <1>7, CloseMatches
<1> QED BY <1>6, <1>7

LEMMA MatchStep == ASSUME IInv, Disciplined, WordsMatch, [Next]_vars PROVE WordsMatch'
<1>1. MayGenerate => Here = {Current}
  BY Steady DEF MayGenerate, Current
<1>2. Current \in States
  BY CellsRead DEF Usable
<1>3. /\ NotKey(Current) \in Statuses /\ Valid(Current) \in Statuses
      /\ NotKey(Current) # "max_depth_exceeded" /\ Valid(Current) # "max_depth_exceeded"
      /\ NotKey(Current) = "generation_complete" => Current = "complete"
      /\ Valid(Current) = "generation_complete" => Current = "complete"
      /\ NotKey(Current) = "keys_must_be_strings" => Current \in {"map_start", "map_key"}
      /\ Valid(Current) # "keys_must_be_strings"
      /\ NotKey(Current) = "ok" => Valid(Current) = "ok"
      /\ "invalid_number" \in Statuses /\ "invalid_string" \in Statuses
  BY <1>2 DEF NotKey, Valid, Statuses
<1>4. CASE Scalar
  <2>1. /\ MayGenerate
        /\ IF NotKey(Current) = "ok" THEN Append1("scalar", Current) ELSE Refused(NotKey(Current))
    BY <1>1, <1>4 DEF Scalar
  <2> QED BY <1>3, <2>1, RefusedMatches, AppendMatches
<1>5. ASSUME NEW good \in BOOLEAN, Double(good) PROVE WordsMatch'
  <2>1. /\ MayGenerate
        /\ \/ Refused(NotKey(Current)) /\ NotKey(Current) # "ok"
           \/ Refused("invalid_number")
           \/ NotKey(Current) = "ok" /\ Append1("scalar", Current)
    BY <1>1, <1>5 DEF Double
  <2> QED BY <1>3, <2>1, RefusedMatches, AppendMatches
<1>6. ASSUME NEW good \in BOOLEAN, String(good) PROVE WordsMatch'
  <2>1. /\ MayGenerate
        /\ \/ Refused("invalid_string")
           \/ Refused(Valid(Current)) /\ Valid(Current) # "ok"
           \/ Valid(Current) = "ok" /\ Append1("string", Current)
    BY <1>1, <1>6 DEF String
  <2> QED BY <1>3, <2>1, RefusedMatches, AppendMatches
<1>7. ASSUME NEW container \in {"map", "array"}, OpenContainer(container) PROVE WordsMatch'
  BY <1>7, MatchOpen
<1>8. ASSUME NEW container \in {"map", "array"}, CloseContainer(container) PROVE WordsMatch'
  BY <1>8, MatchClose
<1>9. CASE Reset
  BY <1>9, MatchReset
<1>10. CASE Config \/ UNCHANGED vars
  BY <1>10 DEF Config, vars, document, WordsMatch, Outer, Current
<1> QED BY <1>4, <1>5, <1>6, <1>7, <1>8, <1>9, <1>10 DEF Next

(* What the match says of the grammar. *)
LEMMA MatchMeans ==
  ASSUME IInv, Disciplined, WordsMatch
  PROVE  /\ printed \in Openings("value")
         /\ Current = "complete" <=> printed \in Phrases("value")
         /\ printed \in Seq(Letters)
<1>1. /\ Outer \in Seq(Stages) /\ Current \in Usable
      /\ Current = "complete" => Outer = <<>>
  BY CellsRead
<1>2. CASE status # "max_depth_exceeded"
  <2>1. Tracks(Append(Outer, CellStage(Current)), printed)
    BY <1>2 DEF WordsMatch
  <2>2. CellStage(Current) \in Stages /\ (CellStage(Current) = "parse_complete" <=> Current = "complete")
    BY <1>1, CellStages
  <2>3. /\ printed \in Openings("value")
        /\ printed \in Phrases("value") => CellStage(Current) = "parse_complete"
        /\ CellStage(Current) = "parse_complete" /\ Outer = <<>> => printed \in Phrases("value")
    BY <1>1, <2>1, <2>2, TracksMeans
  <2> QED BY <1>1, <2>1, <2>2, <2>3 DEF Tracks
<1>3. CASE status = "max_depth_exceeded"
  <2>1. PICK c \in Stages \ {"parse_complete"} : Tracks(Append(Outer, c), printed)
    BY <1>3 DEF WordsMatch
  <2>2. /\ printed \in Openings("value")
        /\ printed \in Phrases("value") => c = "parse_complete"
    BY <1>1, <2>1, TracksMeans
  <2>3. Current # "complete"
    BY <1>3 DEF WordsMatch
  <2> QED BY <2>1, <2>2, <2>3 DEF Tracks
<1> QED BY <1>2, <1>3

LEMMA MatchIsJson == ASSUME IInv, Disciplined, WordsMatch PROVE OutputIsJson
<1>1. /\ printed \in Openings("value") /\ Len(printed) <= MaxWords
      /\ Current = "complete" <=> printed \in Phrases("value")
  BY MatchMeans DEF WordsMatch
<1>2. MaxWords \in Nat
  BY GeneratorAssumption
<1>3. printed \in Viable
  BY <1>1, <1>2, BeginningsAre DEF Viable
<1>4. printed \in Documents <=> printed \in Phrases("value")
  BY <1>1, <1>2, ValuesAre DEF Documents
<1>5. Current = "complete" <=> state[0] = "complete"
  BY CellsRead
<1> QED BY <1>1, <1>3, <1>4, <1>5 DEF OutputIsJson

(* Where a key is due, nothing but a string can follow, nor a string after  *)
(* a separator.                                                             *)
LEMMA OnlyKeys ==
  ASSUME NEW stack \in Seq(Stages), NEW c \in {"map_start", "map_got_val"},
         NEW words, Tracks(Append(stack, c), words),
         NEW word \in {"scalar", "left_bracket", "left_brace"}
  PROVE  /\ words \o <<>> \o <<word>> \notin Openings("value")
         /\ words \o <<"comma">> \o <<word>> \notin Openings("value")
         /\ words \o <<"colon">> \o <<word>> \notin Openings("value")
<1>1. /\ words \in Seq(Letters) /\ word \in Letters /\ c \in Stages /\ c # "parse_complete"
      /\ "comma" \in Letters /\ "colon" \in Letters
  BY DEF Tracks, Letters, Stages, ValueStages, OtherStages
<1>2. ~Accepts(c, word) /\ ~Opens(c, word) /\ ~Closes(c, word)
  BY DEF Accepts, Opens, Closes, Awaited, ValueStages, OtherStages
<1>3. <<word>> \in Seq(Letters)
  BY <1>1, LetterSized
<1>4. words \o <<>> \o <<word>> \notin Openings("value")
  <2>1. Append(words, word) \notin Openings("value")
    BY <1>1, <1>2, TracksNone
  <2>2. words \o <<>> = words /\ words \o <<word>> = Append(words, word)
    BY <1>1, ConcatEmptySeq, AppendIsConcat
  <2> QED BY <2>1, <2>2
<1>5. ASSUME NEW w \in {"comma", "colon"}
      PROVE  words \o <<w>> \o <<word>> \notin Openings("value")
  <2>0. w \in Letters
    BY <1>1
  <2> DEFINE u == Append(words, w)
  <2>1. words \o <<w>> = u
    BY <1>1, <2>0, AppendIsConcat
  <2>2. ~Opens(c, w) /\ ~Closes(c, w)
    BY DEF Opens, Closes
  <2>3. CASE ~Accepts(c, w)
    <3>1. \A t \in Seq(Letters) : u \o t \notin Openings("value")
      BY <1>1, <2>0, <2>2, <2>3, TracksNoMore
    <3> HIDE DEF u
    <3> QED BY <1>3, <2>1, <3>1
  <2>4. CASE Accepts(c, w)
    <3>1. Moved(c) = "map_need_key"
      BY <2>4 DEF Accepts, Moved, Followed, Awaited, ValueStages, OtherStages
    <3>2. Tracks(Append(stack, "map_need_key"), u)
      <4>1. Tracks(Append(stack, Moved(c)), u)
        BY <1>1, <2>0, <2>4, TracksMove
      <4> QED BY <3>1, <4>1
    <3> DEFINE d == "map_need_key"
    <3>3. /\ d \in Stages /\ d # "parse_complete"
          /\ ~Accepts(d, word) /\ ~Opens(d, word) /\ ~Closes(d, word)
      BY DEF Accepts, Opens, Closes, Awaited, Stages, ValueStages, OtherStages
    <3>4. u \in Seq(Letters)
      BY <3>2 DEF Tracks
    <3> HIDE DEF u, d
    <3>5. Tracks(Append(stack, d), u)
      BY <3>2 DEF d
    <3>6. Append(u, word) \notin Openings("value")
      BY <1>1, <3>3, <3>5, TracksNone
    <3>7. u \o <<word>> = Append(u, word)
      BY <1>1, <3>4, AppendIsConcat
    <3> QED BY <2>1, <3>6, <3>7
  <2> QED BY <2>3, <2>4
<1> QED BY <1>4, <1>5

LEMMA MatchRefuses == ASSUME IInv, Disciplined, WordsMatch PROVE RefusalsAreExact
<1>0. MaxWords \in Nat
  BY GeneratorAssumption
<1>1. ASSUME status = "keys_must_be_strings",
             NEW separator \in {<<>>, <<"comma">>, <<"colon">>},
             NEW word \in {"scalar", "left_bracket", "left_brace"}
      PROVE  printed \o separator \o <<word>> \notin Viable
  <2>1. Current \in {"map_start", "map_key"} /\ Tracks(Append(Outer, CellStage(Current)), printed)
    BY <1>1 DEF WordsMatch
  <2>2. CellStage(Current) \in {"map_start", "map_got_val"}
    BY <2>1 DEF CellStage
  <2>3. Outer \in Seq(Stages)
    BY CellsRead
  <2>4. /\ printed \o <<>> \o <<word>> \notin Openings("value")
        /\ printed \o <<"comma">> \o <<word>> \notin Openings("value")
        /\ printed \o <<"colon">> \o <<word>> \notin Openings("value")
    BY <2>1, <2>2, <2>3, OnlyKeys
  <2> DEFINE u == printed \o separator \o <<word>>
  <2>5. u \notin Openings("value")
    <3>1. CASE separator = <<>>
      BY <2>4, <3>1
    <3>2. CASE separator = <<"comma">>
      BY <2>4, <3>2
    <3>3. CASE separator = <<"colon">>
      BY <2>4, <3>3
    <3> QED BY <3>1, <3>2, <3>3
  <2> HIDE DEF u
  <2>6. u \notin Viable
    BY <1>0, <2>5, BeginningsAre DEF Viable
  <2> QED BY <2>6 DEF u
<1>2. GenerationCompleteMeansDocument
  <2>1. ASSUME status = "generation_complete" PROVE printed \in Documents
    <3>1. Current = "complete" /\ Len(printed) <= MaxWords
      BY <2>1 DEF WordsMatch
    <3>2. printed \in Phrases("value")
      BY <3>1, MatchMeans
    <3> QED BY <1>0, <3>1, <3>2, ValuesAre DEF Documents
  <2> QED BY <2>1 DEF GenerationCompleteMeansDocument
<1>3. status = "max_depth_exceeded" => Len(open) = JHN_MAX_DEPTH - 1
  BY DEF WordsMatch
<1> QED BY <1>1, <1>2, <1>3 DEF RefusalsAreExact

(* For every JHN_MAX_DEPTH and documents of any length: what a disciplined  *)
(* client's jhn_gen_*() calls have printed can be completed to a document,  *)
(* and the document is whole exactly when the generator says so.            *)
THEOREM OutputJson == ASSUME Disciplined PROVE Spec => []OutputIsJson
<1>1. Init => IInv /\ WordsMatch
  BY InitHolds, MatchInit
<1>2. IInv /\ WordsMatch /\ [Next]_vars => (IInv /\ WordsMatch)'
  BY StepKeeps, MatchStep
<1>3. IInv /\ WordsMatch => OutputIsJson
  BY MatchIsJson
<1> QED BY <1>1, <1>2, <1>3, PTL DEF Spec

(* ... and what it refuses could not have been printed: no key but a        *)
(* string, nothing after a complete document, and no more depth than        *)
(* state[] has.                                                             *)
THEOREM RefusalsExact == ASSUME Disciplined PROVE Spec => []RefusalsAreExact
<1>1. Init => IInv /\ WordsMatch
  BY InitHolds, MatchInit
<1>2. IInv /\ WordsMatch /\ [Next]_vars => (IInv /\ WordsMatch)'
  BY StepKeeps, MatchStep
<1>3. IInv /\ WordsMatch => RefusalsAreExact
  BY MatchRefuses
<1> QED BY <1>1, <1>2, <1>3, PTL DEF Spec
=============================================================================
