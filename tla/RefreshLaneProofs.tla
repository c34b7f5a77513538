--------------------------- MODULE RefreshLaneProofs ---------------------------
(***************************************************************************)
(* The chain of promises of serializeRefresh is a queue: for any number of  *)
(* refreshes and rotation groups, refreshes of one group run one at a time  *)
(* and in the order of their arrival.                                      *)
(*                                                                         *)
(* The argument: the promise each refresh awaits is that of the one before  *)
(* it in line (Chain).  Awaiting nobody therefore means being first, and    *)
(* only the first can start; when it leaves, all move up by one.            *)
(*                                                                         *)
(* Quota reads queue up like refreshes.  One that waits for a refresh which *)
(* stands behind it in the same line has wedged that line for good: to run, *)
(* the refresh would have to be first, where the quota read is.             *)
(***************************************************************************)
EXTENDS QuotaRefresh, SequenceTheorems, TLAPS

Positions(g) == 1..Len(line[g])

\* Refresh number i of group g is in the lane and awaits number i - 1.
Chain ==
  \A g \in Groups : \A i \in Positions(g) :
    /\ lane[line[g][i]].stage # "out"
    /\ lane[line[g][i]].group = g
    /\ lane[line[g][i]].prev = IF i = 1 THEN NoCall ELSE line[g][i - 1]

NoRepeats ==
  \A g \in Groups : \A i, j \in Positions(g) : line[g][i] = line[g][j] => i = j

InLine ==
  \A k \in Calls : lane[k].stage # "out" =>
    \E i \in Positions(lane[k].group) : line[lane[k].group][i] = k

HoldersAwaitNobody == \A k \in Calls : Holds(k) => lane[k].prev = NoCall

LaneInv == LaneTypeOK /\ Chain /\ NoRepeats /\ InLine /\ HoldersAwaitNobody

-----------------------------------------------------------------------------
\* Whoever is in the lane and awaits nobody is first in line.
LEMMA FirstInLine ==
  ASSUME LaneInv, NEW k \in Calls, lane[k].stage # "out", lane[k].prev = NoCall
  PROVE  /\ lane[k].group \in Groups
         /\ line[lane[k].group] \in Seq(Calls)
         /\ line[lane[k].group] # <<>>
         /\ 1 \in Positions(lane[k].group)
         /\ line[lane[k].group][1] = k
         /\ Head(line[lane[k].group]) = k
<1> DEFINE g == lane[k].group
<1>1. g \in Groups /\ line[g] \in Seq(Calls)
  BY DEF LaneInv, LaneTypeOK, LaneRecord
<1>2. PICK i \in Positions(g) : line[g][i] = k
  BY DEF LaneInv, InLine
<1>3. Len(line[g]) \in Nat
  BY <1>1, LenProperties
<1>4. i = 1
  <2>1. SUFFICES ASSUME i # 1 PROVE FALSE
    OBVIOUS
  <2>2. i - 1 \in 1..Len(line[g])
    BY <1>2, <1>3, <2>1 DEF Positions
  <2>3. line[g][i - 1] \in Calls
    BY <1>1, <2>2, ElementOfSeq
  <2>4. lane[k].prev = line[g][i - 1]
    BY <1>1, <1>2, <2>1 DEF LaneInv, Chain
  <2> QED
    BY <2>3, <2>4, LaneAssumption
<1>5. line[g] # <<>> /\ 1 \in Positions(g)
  BY <1>1, <1>2, <1>3, <1>4, EmptySeq DEF Positions
<1>6. Head(line[g]) = line[g][1]
  BY <1>1, <1>5
<1> QED
  BY <1>1, <1>2, <1>4, <1>5, <1>6

-----------------------------------------------------------------------------
LEMMA LaneInitial == LaneInit => LaneInv
<1> SUFFICES ASSUME LaneInit PROVE LaneInv
  OBVIOUS
<1>1. (CHOOSE g \in Groups : TRUE) \in Groups
  BY LaneAssumption
<1>2. \A k \in Calls : lane[k].stage = "out"
  BY DEF LaneInit
<1>3. lane \in [Calls -> LaneRecord]
  BY <1>1 DEF LaneInit, LaneRecord, Stage
<1>4. \A g \in Groups : line[g] = <<>> /\ Len(line[g]) = 0
  BY DEF LaneInit
<1>5. LaneTypeOK
  BY <1>3, <1>4 DEF LaneTypeOK, LaneInit
<1> QED
  BY <1>2, <1>4, <1>5 DEF LaneInv, Chain, NoRepeats, InLine, HoldersAwaitNobody, Holds, Positions

LEMMA EnterKeepsInv ==
  ASSUME LaneInv, NEW k \in Calls, NEW g \in Groups, EnterLane(k, g)
  PROVE  LaneInv'
<1> DEFINE n == Len(line[g])
           rec == [stage |-> "waiting", group |-> g, prev |-> tail[g]]
<1>1. line[g] \in Seq(Calls) /\ n \in Nat
  BY LenProperties DEF LaneInv, LaneTypeOK
<1>2. lane' = [lane EXCEPT ![k] = rec] /\ lane'[k] = rec
      /\ \A j \in Calls : j # k => lane'[j] = lane[j]
  BY DEF EnterLane, LaneInv, LaneTypeOK
<1>3. /\ line'[g] = Append(line[g], k)
      /\ \A h \in Groups : h # g => line'[h] = line[h]
      /\ line' \in [Groups -> Seq(Calls)]
  <2>1. Append(line[g], k) \in Seq(Calls)
    BY <1>1, AppendProperties
  <2> QED
    BY <2>1 DEF EnterLane, LaneInv, LaneTypeOK
<1>4. /\ Len(line'[g]) = n + 1 /\ line'[g] # <<>>
      /\ \A i \in 1..n : line'[g][i] = line[g][i]
      /\ line'[g][n + 1] = k
  BY <1>1, <1>3, AppendProperties
<1>5. \A h \in Groups : \A i \in Positions(h) : line[h][i] \in Calls /\ line[h][i] # k
  <2> SUFFICES ASSUME NEW h \in Groups, NEW i \in Positions(h)
               PROVE  line[h][i] \in Calls /\ line[h][i] # k
    OBVIOUS
  <2>1. line[h] \in Seq(Calls)
    BY DEF LaneInv, LaneTypeOK
  <2>2. line[h][i] \in Calls
    BY <2>1, ElementOfSeq DEF Positions
  <2> QED
    BY <2>2 DEF LaneInv, Chain, EnterLane
<1>6. tail[g] = IF n = 0 THEN NoCall ELSE line[g][n]
  BY <1>1, EmptySeq DEF LaneInv, LaneTypeOK
<1>7. LaneTypeOK'
  <2>1. rec \in LaneRecord
    BY DEF LaneInv, LaneTypeOK, LaneRecord, Stage
  <2>2. lane' \in [Calls -> LaneRecord]
    BY <1>2, <2>1 DEF LaneInv, LaneTypeOK
  <2>3. tail' = [tail EXCEPT ![g] = k]
    BY DEF EnterLane
  <2>4. tail' \in [Groups -> Calls \cup {NoCall}]
    BY <2>3 DEF LaneInv, LaneTypeOK
  <2>5. ASSUME NEW h \in Groups
        PROVE  tail'[h] = IF line'[h] = <<>> THEN NoCall ELSE line'[h][Len(line'[h])]
    BY <1>3, <1>4, <2>3 DEF LaneInv, LaneTypeOK
  <2> QED
    BY <1>3, <2>2, <2>4, <2>5 DEF LaneTypeOK
<1>8. Chain'
  <2> SUFFICES ASSUME NEW h \in Groups, NEW i \in 1..Len(line'[h])
               PROVE  /\ lane'[line'[h][i]].stage # "out"
                      /\ lane'[line'[h][i]].group = h
                      /\ lane'[line'[h][i]].prev = IF i = 1 THEN NoCall ELSE line'[h][i - 1]
    BY DEF Chain, Positions
  <2>1. CASE h # g
    BY <1>2, <1>3, <1>5, <2>1 DEF LaneInv, Chain, Positions
  <2>2. CASE h = g /\ i \in 1..n
    <3>1. line'[h][i] = line[h][i] /\ (i # 1 => line'[h][i - 1] = line[h][i - 1])
      BY <1>1, <1>4, <2>2
    <3> QED
      BY <1>2, <1>5, <2>2, <3>1 DEF LaneInv, Chain, Positions
  <2>3. CASE h = g /\ i = n + 1
    <3>1. line'[h][i] = k
      BY <1>4, <2>3
    <3>2. n # 0 => line'[h][i - 1] = line[g][n]
      BY <1>1, <1>4, <2>3
    <3> QED
      BY <1>1, <1>2, <1>6, <2>3, <3>1, <3>2
  <2> QED
    BY <1>1, <1>4, <2>1, <2>2, <2>3
<1>9. NoRepeats'
  <2> SUFFICES ASSUME NEW h \in Groups, NEW i \in 1..Len(line'[h]), NEW j \in 1..Len(line'[h]),
                      line'[h][i] = line'[h][j]
               PROVE  i = j
    BY DEF NoRepeats, Positions
  <2>1. CASE h # g
    BY <1>3, <2>1 DEF LaneInv, NoRepeats, Positions
  <2>2. CASE h = g
    <3>1. i \in 1..n \/ i = n + 1
      BY <1>1, <1>4, <2>2
    <3>2. j \in 1..n \/ j = n + 1
      BY <1>1, <1>4, <2>2
    <3>3. \A m \in 1..n : line'[g][m] # k
      BY <1>4, <1>5 DEF Positions
    <3>4. CASE i \in 1..n /\ j \in 1..n
      BY <1>4, <2>2, <3>4 DEF LaneInv, NoRepeats, Positions
    <3> QED
      BY <1>4, <2>2, <3>1, <3>2, <3>3, <3>4
  <2> QED
    BY <2>1, <2>2
<1>10. InLine'
  <2> SUFFICES ASSUME NEW j \in Calls, lane'[j].stage # "out"
               PROVE  \E i \in 1..Len(line'[lane'[j].group]) : line'[lane'[j].group][i] = j
    BY DEF InLine, Positions
  <2>1. CASE j = k
    <3>1. n + 1 \in 1..Len(line'[g])
      BY <1>1, <1>4
    <3> QED
      BY <1>2, <1>4, <2>1, <3>1
  <2>2. CASE j # k
    <3>1. lane'[j] = lane[j] /\ lane[j].group \in Groups
      BY <1>2, <2>2 DEF LaneInv, LaneTypeOK, LaneRecord
    <3>2. PICK i \in Positions(lane[j].group) : line[lane[j].group][i] = j
      BY <3>1 DEF LaneInv, InLine
    <3>3. i \in 1..Len(line'[lane[j].group])
      <4>1. CASE lane[j].group = g
        <5>1. i \in 1..n
          BY <3>2, <4>1 DEF Positions
        <5>2. i \in 1..(n + 1)
          BY <1>1, <5>1
        <5> QED
          BY <1>4, <4>1, <5>2
      <4>2. CASE lane[j].group # g
        <5>1. line'[lane[j].group] = line[lane[j].group]
          BY <1>3, <3>1, <4>2
        <5> QED
          BY <3>2, <5>1 DEF Positions
      <4> QED
        BY <4>1, <4>2
    <3>4. line'[lane[j].group][i] = j
      BY <1>3, <1>4, <3>1, <3>2 DEF Positions
    <3> QED
      BY <3>1, <3>3, <3>4
  <2> QED
    BY <2>1, <2>2
<1>11. HoldersAwaitNobody'
  BY <1>2 DEF LaneInv, HoldersAwaitNobody, Holds
<1> QED
  BY <1>7, <1>8, <1>9, <1>10, <1>11 DEF LaneInv

\* A step that leaves tails and lines alone and changes only how far somebody in
\* the lane has come.
LEMMA SameLine ==
  ASSUME LaneInv, UNCHANGED <<tail, line>>, lane' \in [Calls -> LaneRecord],
         \A j \in Calls : /\ lane'[j].group = lane[j].group
                          /\ lane'[j].prev = lane[j].prev
                          /\ (lane'[j].stage # "out") <=> (lane[j].stage # "out"),
         HoldersAwaitNobody'
  PROVE  LaneInv'
<1>1. LaneTypeOK'
  BY DEF LaneInv, LaneTypeOK
<1>2. \A g \in Groups : \A i \in Positions(g) : line[g][i] \in Calls
  <2> SUFFICES ASSUME NEW g \in Groups, NEW i \in 1..Len(line[g]) PROVE line[g][i] \in Calls
    BY DEF Positions
  <2>1. line[g] \in Seq(Calls)
    BY DEF LaneInv, LaneTypeOK
  <2> QED
    BY <2>1, ElementOfSeq
<1>3. Chain'
  BY <1>2 DEF LaneInv, Chain, Positions
<1>4. NoRepeats'
  BY DEF LaneInv, NoRepeats, Positions
<1>5. InLine'
  BY DEF LaneInv, InLine, Positions
<1> QED
  BY <1>1, <1>3, <1>4, <1>5 DEF LaneInv

LEMMA TakeTurnKeepsInv ==
  ASSUME LaneInv, NEW k \in Calls, TakeTurn(k)
  PROVE  LaneInv'
<1>1. lane' = [lane EXCEPT ![k].stage = "running"] /\ UNCHANGED <<tail, line>>
  BY DEF TakeTurn
<1>2. /\ lane' \in [Calls -> LaneRecord]
      /\ \A j \in Calls : /\ lane'[j].group = lane[j].group
                          /\ lane'[j].prev = lane[j].prev
                          /\ (lane'[j].stage # "out") <=> (lane[j].stage # "out")
  BY <1>1 DEF TakeTurn, LaneInv, LaneTypeOK, LaneRecord, Stage
<1>3. HoldersAwaitNobody'
  BY <1>1 DEF TakeTurn, LaneInv, LaneTypeOK, LaneRecord, HoldersAwaitNobody, Holds
<1> QED
  BY <1>1, <1>2, <1>3, SameLine

LEMMA KeepsLaneKeepsInv ==
  ASSUME LaneInv, NEW k \in Calls, KeepsLane(k)
  PROVE  LaneInv'
<1>1. lane' = [lane EXCEPT ![k].stage = "settling"] /\ UNCHANGED <<tail, line>>
  BY DEF KeepsLane
<1>2. /\ lane' \in [Calls -> LaneRecord]
      /\ \A j \in Calls : /\ lane'[j].group = lane[j].group
                          /\ lane'[j].prev = lane[j].prev
                          /\ (lane'[j].stage # "out") <=> (lane[j].stage # "out")
  BY <1>1 DEF KeepsLane, LaneInv, LaneTypeOK, LaneRecord, Stage
<1>3. HoldersAwaitNobody'
  BY <1>1 DEF KeepsLane, LaneInv, LaneTypeOK, LaneRecord, HoldersAwaitNobody, Holds
<1> QED
  BY <1>1, <1>2, <1>3, SameLine

\* The first in line leaves: everybody in its group moves up by one.
LEMMA LeaveKeepsInv ==
  ASSUME LaneInv, NEW k \in Calls, LeaveLane(k)
  PROVE  LaneInv'
<1> DEFINE g == lane[k].group
           n == Len(line[g])
           rest == Tail(line[g])
<1>1. Holds(k) /\ lane[k].stage # "out" /\ lane[k].prev = NoCall
  BY DEF LeaveLane, MayLeave, LaneInv, HoldersAwaitNobody, Holds
<1>2. g \in Groups /\ line[g] \in Seq(Calls) /\ line[g] # <<>> /\ line[g][1] = k
  BY <1>1, FirstInLine
<1>3. n \in Nat /\ n >= 1
  BY <1>2, LenProperties, EmptySeq
<1>4. /\ rest \in Seq(Calls) /\ Len(rest) = n - 1
      /\ \A i \in 1..(n - 1) : rest[i] = line[g][i + 1]
  BY <1>2, HeadTailProperties
<1>5. /\ line' \in [Groups -> Seq(Calls)] /\ line'[g] = rest
      /\ \A h \in Groups : h # g => line'[h] = line[h]
  BY <1>2, <1>4 DEF LeaveLane, LaneInv, LaneTypeOK
<1>6. /\ lane'[k] = [lane[k] EXCEPT !.stage = "out", !.prev = NoCall]
      /\ \A j \in Calls : j # k => lane'[j] =
           IF lane[j].prev = k THEN [lane[j] EXCEPT !.prev = NoCall] ELSE lane[j]
  BY DEF LeaveLane, Released
<1>7. lane' \in [Calls -> LaneRecord]
  <2>1. lane' = Released(k)
    BY DEF LeaveLane
  <2>2. ASSUME NEW j \in Calls PROVE lane'[j] \in LaneRecord
    <3>1. lane[j] \in LaneRecord
      BY DEF LaneInv, LaneTypeOK
    <3>2. /\ [lane[j] EXCEPT !.stage = "out", !.prev = NoCall] \in LaneRecord
          /\ [lane[j] EXCEPT !.prev = NoCall] \in LaneRecord
      BY <3>1 DEF LaneRecord, Stage
    <3> QED
      BY <1>6, <3>1, <3>2
  <2> QED
    BY <2>1, <2>2 DEF Released
<1>8. /\ lane'[k].stage = "out"
      /\ \A j \in Calls : j # k =>
           /\ lane'[j].stage = lane[j].stage /\ lane'[j].group = lane[j].group
           /\ lane'[j].prev = IF lane[j].prev = k THEN NoCall ELSE lane[j].prev
  <2>1. ASSUME NEW j \in Calls
        PROVE  lane[j] = [stage |-> lane[j].stage, group |-> lane[j].group, prev |-> lane[j].prev]
    BY DEF LaneInv, LaneTypeOK, LaneRecord
  <2> QED
    BY <1>6, <2>1
\* Who stands where is not k, save at the first place of its own group.
<1>9. \A h \in Groups : \A i \in Positions(h) :
        line[h][i] \in Calls /\ (line[h][i] = k => h = g /\ i = 1)
  <2> SUFFICES ASSUME NEW h \in Groups, NEW i \in 1..Len(line[h])
               PROVE  line[h][i] \in Calls /\ (line[h][i] = k => h = g /\ i = 1)
    BY DEF Positions
  <2>1. line[h] \in Seq(Calls)
    BY DEF LaneInv, LaneTypeOK
  <2>2. line[h][i] \in Calls
    BY <2>1, ElementOfSeq
  <2>3. line[h][i] = k => h = g
    BY DEF LaneInv, Chain, Positions
  <2>4. 1 \in Positions(g)
    BY <1>3 DEF Positions
  <2> QED
    BY <1>2, <2>2, <2>3, <2>4 DEF LaneInv, NoRepeats, Positions
<1>10. Chain'
  <2> SUFFICES ASSUME NEW h \in Groups, NEW i \in 1..Len(line'[h])
               PROVE  /\ lane'[line'[h][i]].stage # "out"
                      /\ lane'[line'[h][i]].group = h
                      /\ lane'[line'[h][i]].prev = IF i = 1 THEN NoCall ELSE line'[h][i - 1]
    BY DEF Chain, Positions
  <2>1. CASE h # g
    <3>1. line'[h] = line[h] /\ i \in Positions(h)
      BY <1>5, <2>1 DEF Positions
    <3>2. line[h][i] \in Calls /\ line[h][i] # k
      BY <1>9, <2>1, <3>1
    <3>3. i # 1 => line[h][i - 1] # k
      <4>1. line[h] \in Seq(Calls) /\ Len(line[h]) \in Nat
        BY LenProperties DEF LaneInv, LaneTypeOK
      <4>2. i # 1 => i - 1 \in Positions(h)
        BY <3>1, <4>1 DEF Positions
      <4> QED
        BY <1>9, <2>1, <4>2
    <3>4. /\ lane[line[h][i]].stage # "out" /\ lane[line[h][i]].group = h
          /\ lane[line[h][i]].prev = IF i = 1 THEN NoCall ELSE line[h][i - 1]
      BY <3>1 DEF LaneInv, Chain
    <3>5. k # NoCall
      BY LaneAssumption
    <3> QED
      BY <1>8, <3>1, <3>2, <3>3, <3>4, <3>5
  <2>2. CASE h = g
    <3>1. /\ i \in 1..(n - 1) /\ i + 1 \in Positions(g) /\ i + 1 # 1
          /\ line'[h][i] = line[g][i + 1]
          /\ i # 1 => line'[h][i - 1] = line[g][i]
      <4>1. line'[h] = rest /\ i \in 1..(n - 1)
        BY <1>4, <1>5, <2>2
      <4>2. i + 1 \in 1..n /\ i + 1 # 1 /\ (i # 1 => i - 1 \in 1..(n - 1) /\ (i - 1) + 1 = i)
        BY <1>3, <4>1
      <4>3. rest[i] = line[g][i + 1] /\ (i # 1 => rest[i - 1] = line[g][i])
        <5> HIDE DEF rest, n
        <5> QED
          BY <1>4, <4>1, <4>2
      <4> QED
        BY <4>1, <4>2, <4>3 DEF Positions
    <3>2. line[g][i + 1] \in Calls /\ line[g][i + 1] # k
      BY <1>2, <1>9, <3>1
    <3>3. /\ lane[line[g][i + 1]].stage # "out" /\ lane[line[g][i + 1]].group = g
          /\ lane[line[g][i + 1]].prev = line[g][i]
      <4>1. (i + 1) - 1 = i
        BY <3>1
      <4> QED
        BY <1>2, <3>1, <4>1 DEF LaneInv, Chain
    <3>4. i \in Positions(g)
      BY <1>3, <3>1 DEF Positions
    <3>5. line[g][i] = k <=> i = 1
      BY <1>2, <1>9, <3>4
    <3> QED
      BY <1>8, <2>2, <3>1, <3>2, <3>3, <3>5
  <2> QED
    BY <2>1, <2>2
<1>11. NoRepeats'
  <2> SUFFICES ASSUME NEW h \in Groups, NEW i \in 1..Len(line'[h]), NEW j \in 1..Len(line'[h]),
                      line'[h][i] = line'[h][j]
               PROVE  i = j
    BY DEF NoRepeats, Positions
  <2>1. CASE h # g
    BY <1>5, <2>1 DEF LaneInv, NoRepeats, Positions
  <2>2. CASE h = g
    <3>1. /\ i + 1 \in Positions(g) /\ j + 1 \in Positions(g)
          /\ line[g][i + 1] = line[g][j + 1]
      <4>1. line'[h] = rest /\ i \in 1..(n - 1) /\ j \in 1..(n - 1)
        BY <1>4, <1>5, <2>2
      <4>2. rest[i] = line[g][i + 1] /\ rest[j] = line[g][j + 1]
        BY <1>4, <4>1
      <4>3. i + 1 \in 1..n /\ j + 1 \in 1..n
        BY <1>3, <4>1
      <4> QED
        BY <4>1, <4>2, <4>3 DEF Positions
    <3>2. i + 1 = j + 1
      BY <1>2, <3>1 DEF LaneInv, NoRepeats
    <3> QED
      BY <3>2
  <2> QED
    BY <2>1, <2>2
<1>12. InLine'
  <2> SUFFICES ASSUME NEW j \in Calls, lane'[j].stage # "out"
               PROVE  \E i \in 1..Len(line'[lane'[j].group]) : line'[lane'[j].group][i] = j
    BY DEF InLine, Positions
  <2>1. /\ j # k /\ lane[j].stage # "out" /\ lane'[j].group = lane[j].group
        /\ lane[j].group \in Groups
    BY <1>8 DEF LaneInv, LaneTypeOK, LaneRecord
  <2>2. PICK i \in Positions(lane[j].group) : line[lane[j].group][i] = j
    BY <2>1 DEF LaneInv, InLine
  <2>3. CASE lane[j].group # g
    BY <1>5, <2>1, <2>2, <2>3 DEF Positions
  <2>4. CASE lane[j].group = g
    <3>1. i # 1
      BY <1>2, <2>1, <2>2, <2>4
    <3>2. i - 1 \in 1..(n - 1) /\ (i - 1) + 1 = i
      BY <1>3, <2>2, <2>4, <3>1 DEF Positions
    <3>3. line'[g][i - 1] = j /\ i - 1 \in 1..Len(line'[g])
      BY <1>4, <1>5, <2>2, <2>4, <3>2
    <3> QED
      BY <2>1, <2>4, <3>3
  <2> QED
    BY <2>3, <2>4
<1>13. HoldersAwaitNobody'
  BY <1>8 DEF LaneInv, HoldersAwaitNobody, Holds
<1>14. LaneTypeOK'
  <2>1. tail[g] = line[g][n]
    BY <1>2 DEF LaneInv, LaneTypeOK
  <2>2. tail' = IF tail[g] # k THEN tail ELSE [tail EXCEPT ![g] = NoCall]
    BY DEF LeaveLane, ReleasedTail, HasSuccessor
  <2>3. tail' \in [Groups -> Calls \cup {NoCall}]
    BY <1>2, <2>2 DEF LaneInv, LaneTypeOK
  <2>4. (tail[g] = k) <=> n = 1
    <3>1. n \in Positions(g)
      BY <1>3 DEF Positions
    <3> QED
      BY <1>2, <1>9, <2>1, <3>1
  <2>5. tail'[g] = IF rest = <<>> THEN NoCall ELSE rest[Len(rest)]
    <3>1. CASE n = 1
      <4>1. rest = <<>>
        <5>1. Len(rest) = 0
          BY <1>4, <3>1
        <5> HIDE DEF rest
        <5> QED
          BY <1>4, <5>1, EmptySeq
      <4> QED
        BY <1>2, <2>2, <2>4, <3>1, <4>1 DEF LaneInv, LaneTypeOK
    <3>2. CASE n # 1
      <4>1. rest # <<>> /\ rest[Len(rest)] = line[g][n]
        <5>1. Len(rest) = n - 1 /\ n - 1 \in 1..(n - 1) /\ (n - 1) + 1 = n
          <6>1. Len(rest) = n - 1
            BY <1>4
          <6> HIDE DEF rest, n
          <6> QED
            BY <1>3, <3>2, <6>1
        <5>2. rest[n - 1] = line[g][n]
          BY <1>4, <5>1
        <5>3. rest # <<>>
          <6>1. Len(rest) # 0
            BY <1>3, <3>2, <5>1
          <6>2. Len(<<>>) = 0
            OBVIOUS
          <6> HIDE DEF rest
          <6> QED
            BY <6>1, <6>2
        <5> QED
          BY <5>1, <5>2, <5>3
      <4> QED
        BY <2>1, <2>2, <2>4, <3>2, <4>1
    <3> QED
      BY <3>1, <3>2
  <2>6. ASSUME NEW h \in Groups
        PROVE  tail'[h] = IF line'[h] = <<>> THEN NoCall ELSE line'[h][Len(line'[h])]
    BY <1>5, <2>2, <2>5 DEF LaneInv, LaneTypeOK
  <2> QED
    BY <1>5, <1>7, <2>3, <2>6 DEF LaneTypeOK
<1> QED
  BY <1>10, <1>11, <1>12, <1>13, <1>14 DEF LaneInv

-----------------------------------------------------------------------------
LEMMA StepKeepsInv == LaneInv /\ [LaneNext]_laneVars => LaneInv'
<1> SUFFICES ASSUME LaneInv, [LaneNext]_laneVars PROVE LaneInv'
  OBVIOUS
<1>1. ASSUME NEW k \in Calls, NEW g \in Groups, EnterLane(k, g) PROVE LaneInv'
  BY <1>1, EnterKeepsInv
<1>2. ASSUME NEW k \in Calls, TakeTurn(k) PROVE LaneInv'
  BY <1>2, TakeTurnKeepsInv
<1>3. ASSUME NEW k \in Calls, KeepsLane(k) PROVE LaneInv'
  BY <1>3, KeepsLaneKeepsInv
<1>4. ASSUME NEW k \in Calls, LeaveLane(k) PROVE LaneInv'
  BY <1>4, LeaveKeepsInv
<1>5. CASE UNCHANGED laneVars
  BY <1>5 DEF laneVars, LaneInv, LaneTypeOK, Chain, NoRepeats, InLine, HoldersAwaitNobody,
              Holds, Positions
<1> QED
  BY <1>1, <1>2, <1>3, <1>4, <1>5 DEF LaneNext

\* The inductive invariant: the promises form one chain per group, in the order
\* of arrival, and whoever has started is its first link.
THEOREM LaneInvariant == LaneSpec => []LaneInv
<1>1. LaneInit => LaneInv
  BY LaneInitial
<1>2. LaneInv /\ [LaneNext]_laneVars => LaneInv'
  BY StepKeepsInv
<1> QED
  BY <1>1, <1>2, PTL DEF LaneSpec

\* For any number of refreshes and groups, two refreshes of one rotation group are
\* never under way at once, nor within the settle gap of one another.
THEOREM OneAtATime == LaneSpec => []LaneExclusive
<1>1. LaneInv => LaneExclusive
  <2> SUFFICES ASSUME LaneInv, NEW j \in Calls, NEW k \in Calls, Holds(j), Holds(k),
                      lane[j].group = lane[k].group
               PROVE  j = k
    BY DEF LaneExclusive
  <2>1. /\ lane[j].stage # "out" /\ lane[j].prev = NoCall
        /\ lane[k].stage # "out" /\ lane[k].prev = NoCall
    BY DEF LaneInv, HoldersAwaitNobody, Holds
  <2>2. line[lane[j].group][1] = j
    BY <2>1, FirstInLine
  <2>3. line[lane[k].group][1] = k
    BY <2>1, FirstInLine
  <2> QED
    BY <2>2, <2>3
<1> QED
  BY <1>1, LaneInvariant, PTL

\* For any number of refreshes and groups, refreshes start in the order in which
\* they entered the lane of their group.
THEOREM FirstComeFirstServed == LaneSpec => TurnsInOrder
<1>1. LaneInv /\ [LaneNext]_laneVars =>
        [\A k \in Calls : lane[k].stage = "waiting" /\ lane'[k].stage = "running"
            => k = Head(line[lane[k].group])]_laneVars
  <2> SUFFICES ASSUME LaneInv, LaneNext, NEW k \in Calls,
                      lane[k].stage = "waiting", lane'[k].stage = "running"
               PROVE  k = Head(line[lane[k].group])
    OBVIOUS
  <2>1. TakeTurn(k)
    <3>1. ASSUME NEW j \in Calls, NEW g \in Groups, EnterLane(j, g) PROVE FALSE
      BY <3>1 DEF EnterLane, LaneInv, LaneTypeOK
    <3>2. ASSUME NEW j \in Calls, j # k, TakeTurn(j) PROVE FALSE
      BY <3>2 DEF TakeTurn, LaneInv, LaneTypeOK
    <3>3. ASSUME NEW j \in Calls, KeepsLane(j) PROVE FALSE
      BY <3>3 DEF KeepsLane, LaneInv, LaneTypeOK, LaneRecord
    <3>4. ASSUME NEW j \in Calls, LeaveLane(j) PROVE FALSE
      BY <3>4 DEF LeaveLane, Released, LaneInv, LaneTypeOK, LaneRecord
    <3> QED
      BY <3>1, <3>2, <3>3, <3>4 DEF LaneNext
  <2>2. lane[k].stage # "out" /\ lane[k].prev = NoCall
    BY <2>1 DEF TakeTurn
  <2> QED
    BY <2>2, FirstInLine
<1> QED
  BY <1>1, LaneInvariant, PTL DEF LaneSpec, TurnsInOrder

-----------------------------------------------------------------------------
(* Quota reads in the lane.                                                *)

QuotaInv == QuotaTypeOK /\ LaneInv /\ NestingWedges

\* Whatever a quota read and its executor do, to the lane it is a step of its own
\* or none.
LEMMA QuotaStepIsLaneStep ==
  ASSUME Quota \subseteq Calls, LaneInv, [QuotaNext]_quotaVars
  PROVE  [LaneNext]_laneVars
<1>1. ASSUME NEW k \in Calls, NEW g \in Groups, EnterLane(k, g) PROVE LaneNext
  BY <1>1 DEF LaneNext
<1>2. ASSUME NEW q \in Quota, NEW g \in Groups, ReadQuota(q, g) PROVE LaneNext
  BY <1>1, <1>2 DEF ReadQuota
<1>3. ASSUME NEW q \in Quota, AnswerDirectly(q) PROVE UNCHANGED laneVars
  BY <1>3 DEF AnswerDirectly
<1>4. ASSUME NEW q \in Quota, NEW k \in Calls, Nest(q, k) PROVE LaneNext
  <2>1. lane[q].group \in Groups
    BY DEF LaneInv, LaneTypeOK, LaneRecord
  <2> QED
    BY <1>1, <1>4, <2>1 DEF Nest
<1>5. ASSUME NEW q \in Quota, NEW k \in Calls, Share(q, k) PROVE UNCHANGED laneVars
  BY <1>5 DEF Share
<1>6. ASSUME NEW k \in Calls, NEW g \in Groups, Refresh(k, g) PROVE LaneNext
  BY <1>1, <1>6 DEF Refresh
<1>7. ASSUME NEW k \in Calls, Run(k) PROVE LaneNext
  BY <1>7 DEF Run, LaneNext
<1>8. ASSUME NEW k \in Calls, Finish(k) PROVE LaneNext
  BY <1>8 DEF Finish, LaneNext
<1>9. CASE UNCHANGED quotaVars
  BY <1>9 DEF quotaVars
<1> QED
  BY <1>2, <1>3, <1>4, <1>5, <1>6, <1>7, <1>8, <1>9 DEF QuotaNext

\* Whoever waits in the lane that a running refresh holds cannot start.
LEMMA HeldLaneWaits ==
  ASSUME LaneInv, NEW q \in Calls, lane[q].stage = "running",
         NEW k \in Calls, lane[k].stage = "waiting", lane[k].group = lane[q].group
  PROVE  lane[k].prev # NoCall
<1> SUFFICES ASSUME lane[k].prev = NoCall PROVE FALSE
  OBVIOUS
<1>1. lane[q].prev = NoCall
  BY DEF LaneInv, HoldersAwaitNobody, Holds
<1>2. line[lane[q].group][1] = q /\ line[lane[k].group][1] = k
  BY <1>1, FirstInLine
<1> QED
  BY <1>2

\* A step that makes a quota read wait for a refresh wedges the lane at once.
LEMMA WaitingWedges ==
  ASSUME Quota \subseteq Calls, LaneInv, QuotaTypeOK, [QuotaNext]_quotaVars,
         NEW q \in Quota, nested[q] # "inner", nested'[q] = "inner"
  PROVE  Wedged(q)'
<1>0. q \in Calls /\ lane \in [Calls -> LaneRecord] /\ nested \in [Quota -> {"none", "inner", "done"}]
      /\ inner \in [Quota -> Calls \cup {NoCall}]
  BY DEF LaneInv, LaneTypeOK, QuotaTypeOK
<1>1. ASSUME NEW k \in Calls, Nest(q, k) PROVE Wedged(q)'
  <2>1. k \notin Quota /\ k # q /\ lane[q].stage = "running"
        /\ nested'[q] = "inner" /\ inner'[q] = k
    BY <1>0, <1>1 DEF Nest, Awaits, Asks
  <2>2. lane'[q] = lane[q] /\ lane'[k].stage = "waiting" /\ lane'[k].group = lane[q].group
    BY <1>0, <1>1, <2>1 DEF Nest, EnterLane
  <2> QED
    BY <2>1, <2>2 DEF Wedged
<1>2. ASSUME NEW k \in Calls, Share(q, k) PROVE Wedged(q)'
  <2>1. k \notin Quota /\ lane[q].stage = "running"
        /\ nested'[q] = "inner" /\ inner'[q] = k /\ lane' = lane
        /\ lane[k].stage = "waiting" /\ lane[k].group = lane[q].group
    BY <1>0, <1>2 DEF Share, Awaits, Asks, laneVars
  <2> QED
    BY <2>1 DEF Wedged
<1>3. ASSUME NEW p \in Quota, NEW g \in Groups, ReadQuota(p, g) PROVE FALSE
  BY <1>0, <1>3 DEF ReadQuota
<1>4. ASSUME NEW p \in Quota, AnswerDirectly(p) PROVE FALSE
  BY <1>0, <1>4 DEF AnswerDirectly
<1>5. ASSUME NEW p \in Quota, NEW k \in Calls, Nest(p, k) \/ Share(p, k) PROVE Wedged(q)'
  <2>1. p = q
    BY <1>0, <1>5 DEF Nest, Share, Awaits
  <2> QED
    BY <1>1, <1>2, <1>5, <2>1
<1>6. ASSUME NEW k \in Calls, NEW g \in Groups, Refresh(k, g) PROVE FALSE
  BY <1>6 DEF Refresh
<1>7. ASSUME NEW k \in Calls, Run(k) PROVE FALSE
  BY <1>7 DEF Run
<1>8. ASSUME NEW k \in Calls, Finish(k) PROVE FALSE
  BY <1>8 DEF Finish
<1>9. QuotaNext
  BY DEF quotaVars
<1> QED
  BY <1>3, <1>4, <1>5, <1>6, <1>7, <1>8, <1>9 DEF QuotaNext

\* No step frees a wedged lane, nor gives a turn to anybody who waits in it: to
\* run, one would have to be first in line, where the quota read is.
LEMMA WedgeStands ==
  ASSUME Quota \subseteq Calls, LaneInv, QuotaTypeOK, [QuotaNext]_quotaVars,
         NEW q \in Quota, Wedged(q)
  PROVE  /\ Wedged(q)'
         /\ \A k \in Calls :
              lane[k].stage = "waiting" /\ lane[k].group = lane[q].group
                => lane'[k].stage = "waiting" /\ lane'[k].group = lane[k].group
<1> DEFINE Waits == {k \in Calls : lane[k].stage = "waiting" /\ lane[k].group = lane[q].group}
           Stays(k) == lane'[k].stage = lane[k].stage /\ lane'[k].group = lane[k].group
<1>0. q \in Calls /\ lane \in [Calls -> LaneRecord] /\ nested \in [Quota -> {"none", "inner", "done"}]
      /\ inner \in [Quota -> Calls \cup {NoCall}]
  BY DEF LaneInv, LaneTypeOK, QuotaTypeOK
<1>1. /\ lane[q].stage = "running" /\ nested[q] = "inner"
      /\ inner[q] \in Calls \ Quota /\ inner[q] \in Waits /\ q \notin Waits
  BY DEF Wedged
<1>2. \A k \in Waits : lane[k].prev # NoCall
  BY <1>0, <1>1, HeldLaneWaits
<1> SUFFICES /\ nested'[q] = "inner" /\ inner'[q] = inner[q]
             /\ \A k \in Waits \cup {q} : Stays(k)
  BY <1>1 DEF Wedged
<1> HIDE DEF Waits
<1>3. \A k \in Waits \cup {q} : k \in Calls /\ lane[k].stage \in {"waiting", "running"}
  BY <1>0, <1>1 DEF Waits
<1>4. ASSUME NEW k \in Calls, NEW g \in Groups, EnterLane(k, g)
      PROVE  \A j \in Waits \cup {q} : Stays(j)
  BY <1>0, <1>3, <1>4 DEF EnterLane
<1>5. ASSUME NEW p \in Quota, NEW g \in Groups, ReadQuota(p, g)
      PROVE  nested'[q] = "inner" /\ inner'[q] = inner[q] /\ \A k \in Waits \cup {q} : Stays(k)
  <2>1. p # q
    BY <1>1, <1>5 DEF ReadQuota, EnterLane
  <2>2. p \in Calls
    OBVIOUS
  <2> QED
    BY <1>0, <1>1, <1>4, <1>5, <2>1, <2>2 DEF ReadQuota
<1>6. ASSUME NEW p \in Quota, AnswerDirectly(p)
      PROVE  nested'[q] = "inner" /\ inner'[q] = inner[q] /\ \A k \in Waits \cup {q} : Stays(k)
  <2>1. p # q
    BY <1>1, <1>6 DEF AnswerDirectly, Asks
  <2> QED
    BY <1>0, <1>1, <1>6, <2>1 DEF AnswerDirectly, laneVars
<1>7. ASSUME NEW p \in Quota, NEW k \in Calls, Nest(p, k) \/ Share(p, k)
      PROVE  nested'[q] = "inner" /\ inner'[q] = inner[q] /\ \A j \in Waits \cup {q} : Stays(j)
  <2>1. p # q
    BY <1>1, <1>7 DEF Nest, Share, Asks
  <2>2. nested'[q] = "inner" /\ inner'[q] = inner[q]
    BY <1>0, <1>1, <1>7, <2>1 DEF Nest, Share, Awaits
  <2>3. CASE Nest(p, k)
    <3>1. lane[p].group \in Groups
      BY <1>0 DEF LaneRecord
    <3> QED
      BY <1>4, <2>2, <2>3, <3>1 DEF Nest
  <2>4. CASE Share(p, k)
    BY <2>2, <2>4 DEF Share, laneVars
  <2> QED
    BY <1>7, <2>3, <2>4
<1>8. ASSUME NEW k \in Calls, NEW g \in Groups, Refresh(k, g)
      PROVE  nested'[q] = "inner" /\ inner'[q] = inner[q] /\ \A j \in Waits \cup {q} : Stays(j)
  BY <1>1, <1>4, <1>8 DEF Refresh
<1>9. ASSUME NEW k \in Calls, Run(k)
      PROVE  nested'[q] = "inner" /\ inner'[q] = inner[q] /\ \A j \in Waits \cup {q} : Stays(j)
  <2>1. k \notin Waits \cup {q}
    BY <1>1, <1>2, <1>9 DEF Run, TakeTurn
  <2> QED
    BY <1>0, <1>1, <1>3, <1>9, <2>1 DEF Run, TakeTurn
<1>10. ASSUME NEW k \in Calls, Finish(k)
       PROVE  nested'[q] = "inner" /\ inner'[q] = inner[q] /\ \A j \in Waits \cup {q} : Stays(j)
  <2>1. k # q
    BY <1>1, <1>10 DEF Finish, Finished
  <2>2. k \notin Waits
    BY <1>10 DEF Finish, KeepsLane, LeaveLane, MayLeave, Waits
  <2>3. \A j \in Calls : j # k => Stays(j)
    <3>1. CASE KeepsLane(k)
      BY <1>0, <3>1 DEF KeepsLane
    <3>2. CASE LeaveLane(k)
      <4> SUFFICES ASSUME NEW j \in Calls, j # k PROVE Stays(j)
        OBVIOUS
      <4>1. lane'[j] = lane[j] \/ lane'[j] = [lane[j] EXCEPT !.prev = NoCall]
        BY <3>2 DEF LeaveLane, Released
      <4> QED
        BY <1>0, <4>1 DEF LaneRecord
    <3> QED
      BY <1>10, <3>1, <3>2 DEF Finish
  <2>4. inner[q] # k
    BY <1>1, <2>2
  <2> QED
    BY <1>1, <1>3, <1>10, <2>1, <2>2, <2>3, <2>4 DEF Finish
<1>11. CASE UNCHANGED quotaVars
  BY <1>1, <1>11 DEF quotaVars, laneVars
<1> QED
  BY <1>5, <1>6, <1>7, <1>8, <1>9, <1>10, <1>11 DEF QuotaNext

\* The inductive invariant of the lane with quota reads in it: the chain is
\* whole, and a quota read that waits for a refresh is wedged.
THEOREM QuotaInvariant ==
  ASSUME Quota \subseteq Calls
  PROVE  QuotaSpec => []QuotaInv
<1>1. QuotaInit => QuotaInv
  <2> SUFFICES ASSUME QuotaInit PROVE QuotaInv
    OBVIOUS
  <2>1. QuotaTypeOK /\ NestingWedges
    BY DEF QuotaInit, QuotaTypeOK, NestingWedges
  <2> QED
    BY <2>1, LaneInitial DEF QuotaInit, QuotaInv
<1>2. QuotaInv /\ [QuotaNext]_quotaVars => QuotaInv'
  <2> SUFFICES ASSUME QuotaInv, [QuotaNext]_quotaVars PROVE QuotaInv'
    OBVIOUS
  <2>1. QuotaTypeOK /\ LaneInv /\ NestingWedges
    BY DEF QuotaInv
  <2>2. LaneInv'
    BY <2>1, QuotaStepIsLaneStep, StepKeepsInv
  <2>3. QuotaTypeOK'
    BY <2>1 DEF QuotaTypeOK, QuotaNext, quotaVars, ReadQuota, AnswerDirectly, Nest, Share,
                Awaits, Refresh, Run, Finish
  <2>4. ASSUME NEW q \in Quota, nested'[q] = "inner" PROVE Wedged(q)'
    <3>1. CASE nested[q] = "inner"
      BY <2>1, <3>1, WedgeStands DEF NestingWedges
    <3>2. CASE nested[q] # "inner"
      BY <2>1, <2>4, <3>2, WaitingWedges
    <3> QED
      BY <3>1, <3>2
  <2>5. NestingWedges'
    BY <2>4 DEF NestingWedges
  <2> QED
    BY <2>2, <2>3, <2>5 DEF QuotaInv
<1> QED
  BY <1>1, <1>2, PTL DEF QuotaSpec

\* Quota reads enter and leave the lane by its own rules: also with them, refreshes
\* of one group run one at a time and in order of arrival.
THEOREM QuotaReadsQueueUp ==
  ASSUME Quota \subseteq Calls
  PROVE  QuotaSpec => []LaneExclusive /\ TurnsInOrder
<1>1. QuotaInit => LaneInit
  BY DEF QuotaInit
<1>2. QuotaInv /\ [QuotaNext]_quotaVars => [LaneNext]_laneVars
  BY QuotaStepIsLaneStep DEF QuotaInv
<1>3. QuotaSpec => LaneSpec
  BY <1>1, <1>2, QuotaInvariant, PTL DEF QuotaSpec, LaneSpec
<1> QED
  BY <1>3, OneAtATime, FirstComeFirstServed, PTL

\* However many refreshes, groups and quota reads there are: as soon as a quota
\* read waits for a refresh of its group, the lane is wedged, and from then on no
\* order of events lets anybody who waits in it start.
THEOREM WedgeForGood ==
  ASSUME Quota \subseteq Calls
  PROVE  QuotaSpec => []NestingWedges /\ WedgeIsFinal
<1>1. QuotaInv => NestingWedges
  BY DEF QuotaInv
<1>2. QuotaInv /\ [QuotaNext]_quotaVars =>
        [\A q \in Quota : Wedged(q) =>
           /\ Wedged(q)'
           /\ \A k \in Calls :
                lane[k].stage = "waiting" /\ lane[k].group = lane[q].group
                  => lane'[k].stage = "waiting" /\ lane'[k].group = lane[k].group]_quotaVars
  BY WedgeStands DEF QuotaInv
<1> QED
  BY <1>1, <1>2, QuotaInvariant, PTL DEF QuotaSpec, WedgeIsFinal
=============================================================================
