------------------------- MODULE PanelBridgeProofs -------------------------
(***************************************************************************)
(* Theorems about PanelBridge and the decoder it owns, for every number of *)
(* access units, windows, slots and sessions, every freshness cap and      *)
(* every choice of the access units the codec swallows or cannot take.     *)
(***************************************************************************)
EXTENDS PanelBridge, FiniteSetTheorems, SequenceTheorems, TLAPS

-----------------------------------------------------------------------------
(***************************************************************************)
(* Queues of numbered access units                                         *)
(***************************************************************************)
Elements(q) == {q[i] : i \in 1..Len(q)}
Rising(q) == \A i, j \in 1..Len(q) : i < j => q[i] < q[j]

LEMMA NoUnits == << >> \in Seq(Nat) /\ Elements(<< >>) = {} /\ Rising(<< >>)
  BY DEF Elements, Rising

LEMMA UnitAdded ==
  ASSUME NEW q \in Seq(Nat), NEW n \in Nat
  PROVE  /\ Append(q, n) \in Seq(Nat)
         /\ Elements(Append(q, n)) = Elements(q) \cup {n}
         /\ Rising(q) /\ (\A a \in Elements(q) : a < n) => Rising(Append(q, n))
<1> DEFINE Q == Append(q, n)
<1>1. /\ Q \in Seq(Nat) /\ Len(q) \in Nat /\ Len(Q) = Len(q) + 1 /\ Q[Len(q) + 1] = n
      /\ \A i \in 1..Len(q) : Q[i] = q[i]
  OBVIOUS
<1>2. \A i : i \in 1..(Len(q) + 1) <=> i \in 1..Len(q) \/ i = Len(q) + 1
  BY <1>1
<1> HIDE DEF Q
<1>3. Elements(Q) = Elements(q) \cup {n}
  BY <1>1, <1>2 DEF Elements
<1>4. ASSUME Rising(q), \A a \in Elements(q) : a < n PROVE Rising(Q)
  <2> SUFFICES ASSUME NEW i \in 1..(Len(q) + 1), NEW j \in 1..(Len(q) + 1), i < j
               PROVE  Q[i] < Q[j]
    BY <1>1 DEF Rising
  <2>1. i \in 1..Len(q)
    BY <1>1
  <2>2. CASE j = Len(q) + 1
    BY <1>1, <1>4, <2>1, <2>2 DEF Elements
  <2>3. CASE j \in 1..Len(q)
    BY <1>1, <1>4, <2>1, <2>3 DEF Rising
  <2> QED
    BY <1>2, <2>2, <2>3
<1> QED
  BY <1>1, <1>3, <1>4 DEF Q

LEMMA UnitTaken ==
  ASSUME NEW q \in Seq(Nat), q # << >>, Rising(q)
  PROVE  /\ Head(q) \in Nat /\ Tail(q) \in Seq(Nat) /\ Rising(Tail(q))
         /\ Elements(q) = Elements(Tail(q)) \cup {Head(q)}
         /\ \A a \in Elements(Tail(q)) : Head(q) < a
<1> DEFINE Q == Tail(q)
<1>1. /\ Q \in Seq(Nat) /\ Head(q) \in Nat /\ Head(q) = q[1]
      /\ Len(q) \in Nat \ {0} /\ Len(Q) = Len(q) - 1
      /\ \A i \in 1..Len(Q) : Q[i] = q[i + 1]
  OBVIOUS
<1> HIDE DEF Q
<1>2. \A i \in 1..Len(Q) : i + 1 \in 1..Len(q) /\ 1 < i + 1
  BY <1>1
<1>3. \A i \in 1..Len(q) : i = 1 \/ (i - 1 \in 1..Len(Q) /\ (i - 1) + 1 = i)
  BY <1>1
<1>4. 1 \in 1..Len(q)
  BY <1>1
<1>5. Rising(Q)
  <2> SUFFICES ASSUME NEW i \in 1..Len(Q), NEW j \in 1..Len(Q), i < j PROVE Q[i] < Q[j]
    BY DEF Rising
  <2>1. i + 1 < j + 1
    BY <1>1
  <2> QED
    BY <1>1, <1>2, <2>1 DEF Rising
<1>6. Elements(q) \subseteq Elements(Q) \cup {Head(q)}
  <2> SUFFICES ASSUME NEW i \in 1..Len(q) PROVE q[i] \in Elements(Q) \cup {Head(q)}
    BY DEF Elements
  <2>1. CASE i = 1
    BY <1>1, <2>1
  <2>2. CASE i # 1
    <3>1. i - 1 \in 1..Len(Q) /\ (i - 1) + 1 = i
      BY <1>3, <2>2
    <3>2. Q[i - 1] = q[i]
      BY <1>1, <3>1
    <3> QED
      BY <3>1, <3>2 DEF Elements
  <2> QED
    BY <2>1, <2>2
<1>7. Elements(Q) \cup {Head(q)} \subseteq Elements(q)
  <2>1. Head(q) \in Elements(q)
    BY <1>1, <1>4 DEF Elements
  <2>2. ASSUME NEW i \in 1..Len(Q) PROVE Q[i] \in Elements(q)
    BY <1>1, <1>2 DEF Elements
  <2>3. Elements(Q) \subseteq Elements(q)
    BY <2>2 DEF Elements
  <2> QED
    BY <2>1, <2>3
<1>8. \A a \in Elements(Q) : Head(q) < a
  BY <1>1, <1>2, <1>4 DEF Elements, Rising
<1> QED
  BY <1>1, <1>5, <1>6, <1>7, <1>8 DEF Q

\* Two queues of units, all of one older than those of the other, fit the set they are in.
LEMMA BothFit ==
  ASSUME NEW p \in Seq(Nat), NEW q \in Seq(Nat), Rising(p), Rising(q),
         \A a \in Elements(p), b \in Elements(q) : a < b,
         NEW S, IsFiniteSet(S), Elements(p) \cup Elements(q) \subseteq S
  PROVE  Len(q) + Len(p) <= Cardinality(S)
<1> DEFINE n == Len(p) + Len(q)
           f == [i \in 1..n |-> IF i <= Len(p) THEN p[i] ELSE q[i - Len(p)]]
<1>1. Len(p) \in Nat /\ Len(q) \in Nat /\ n \in Nat
  OBVIOUS
<1>2. \A i \in 1..n : i > Len(p) => i - Len(p) \in 1..Len(q)
  BY <1>1
<1>3. /\ \A i \in 1..Len(p) : p[i] \in Elements(p) /\ p[i] \in Nat
      /\ \A i \in 1..Len(q) : q[i] \in Elements(q) /\ q[i] \in Nat
  BY DEF Elements
<1>4. \A i \in 1..n : f[i] \in S
  BY <1>1, <1>2, <1>3
<1>5. ASSUME NEW i \in 1..n, NEW j \in 1..n, i < j PROVE f[i] # f[j]
  <2>1. CASE j <= Len(p)
    <3>1. i \in 1..Len(p) /\ j \in 1..Len(p) /\ f[i] = p[i] /\ f[j] = p[j]
      BY <1>1, <1>5, <2>1
    <3> QED
      BY <1>3, <1>5, <3>1 DEF Rising
  <2>2. CASE i <= Len(p) /\ j > Len(p)
    <3>1. i \in 1..Len(p) /\ f[i] = p[i] /\ f[j] = q[j - Len(p)]
      BY <1>1, <2>2
    <3>2. p[i] < q[j - Len(p)] /\ q[j - Len(p)] \in Nat /\ p[i] \in Nat
      BY <1>2, <1>3, <2>2, <3>1
    <3> QED
      BY <3>1, <3>2
  <2>3. CASE i > Len(p)
    <3>1. j > Len(p) /\ f[i] = q[i - Len(p)] /\ f[j] = q[j - Len(p)] /\ i - Len(p) < j - Len(p)
      BY <1>1, <1>5, <2>3
    <3>2. i - Len(p) \in 1..Len(q) /\ j - Len(p) \in 1..Len(q)
      BY <1>2, <2>3, <3>1
    <3>3. q[i - Len(p)] < q[j - Len(p)] /\ q[i - Len(p)] \in Nat /\ q[j - Len(p)] \in Nat
      BY <1>3, <3>1, <3>2 DEF Rising
    <3> QED
      BY <3>1, <3>3
  <2> QED
    BY <1>1, <2>1, <2>2, <2>3
<1>6. f \in Injection(1..n, S)
  <2>1. f \in [1..n -> S]
    BY <1>4
  <2> HIDE DEF f
  <2>2. \A i, j \in 1..n : f[i] = f[j] => i = j
    <3> SUFFICES ASSUME NEW i \in 1..n, NEW j \in 1..n, i # j PROVE f[i] # f[j]
      OBVIOUS
    <3>1. i < j \/ j < i
      BY <1>1
    <3> QED
      BY <1>5, <3>1
  <2> QED
    BY <2>1, <2>2 DEF Injection, IsInjective
<1>7. Cardinality(1..n) <= Cardinality(S)
  BY <1>6, FS_Injection
<1>8. Cardinality(1..n) = n
  BY <1>1, FS_Interval
<1> QED
  BY <1>1, <1>7, <1>8

-----------------------------------------------------------------------------
(***************************************************************************)
(* The decoder                                                             *)
(***************************************************************************)
DType ==
  /\ fed \in Nat /\ gated \in BOOLEAN /\ queued \subseteq Nat
  /\ au_queue \in Seq(Nat) /\ inside \in Seq(Nat) /\ outputs \in Seq(Nat)

\* The hand-off is in order, and what the loop has taken is older than what it will take.
HandOff ==
  /\ Rising(au_queue)
  /\ \A a \in queued \cup Elements(au_queue) : a <= fed
  /\ \A a \in queued, b \in Elements(au_queue) : a < b
  /\ pc = "queue" => /\ au \in Nat /\ au <= fed
                     /\ \A a \in queued : a < au
                     /\ \A b \in Elements(au_queue) : au < b

\* The codec holds units of the map only, each once, and finishes them in order.
InCodec ==
  /\ Rising(inside) /\ Rising(outputs)
  /\ \A a \in Elements(outputs), b \in Elements(inside) : a < b
  /\ Elements(inside) \cup Elements(outputs) \subseteq queued

\* Past the gate there is room for one more.
Room ==
  /\ IsFiniteSet(queued) /\ Cardinality(queued) <= MaxInFlight
  /\ pc \in {"input", "pop", "queue"} \/ (pc = "drain" /\ ~gated) => Cardinality(queued) < MaxInFlight

DInv == DType /\ HandOff /\ InCodec /\ Room

\* A step of the loop and the codec that leaves the queues alone.
LEMMA LoopMoves ==
  ASSUME DInv, UNCHANGED <<fed, au_queue, queued, inside, outputs>>, gated' \in BOOLEAN,
         pc' # "queue",
         pc' \in {"input", "pop"} \/ (pc' = "drain" /\ ~gated') => Cardinality(queued) < MaxInFlight
  PROVE  DInv'
  BY DEF DInv, DType, HandOff, InCodec, Room

LEMMA DecoderLoop ==
  ASSUME DInv, LoopStep
  PROVE  DInv'
<1>0. /\ queued \subseteq Nat /\ IsFiniteSet(queued) /\ Cardinality(queued) \in Nat /\ MaxInFlight \in Nat
      /\ fed \in Nat /\ gated \in BOOLEAN
  BY FS_CardinalityType, DecoderAssumption DEF DInv, DType, Room
<1>1. CASE LoopEnds
  BY <1>0, <1>1, LoopMoves DEF LoopEnds, rcvars, codec
<1>2. CASE LoopGoes
  <2>1. gated' = AtCap /\ pc' = "drain"
    BY <1>2 DEF LoopGoes
  <2>2. AtCap \in BOOLEAN /\ (~AtCap => Cardinality(queued) < MaxInFlight)
    BY <1>0 DEF AtCap
  <2>3. gated' \in BOOLEAN /\ (~gated' => Cardinality(queued) < MaxInFlight)
    BY <2>1, <2>2, Zenon
  <2> QED
    BY <1>2, <2>1, <2>3, LoopMoves DEF LoopGoes, rcvars, codec
<1>3. CASE DrainOne
  <2> DEFINE x == Head(outputs)
  <2>1. /\ pc = "drain" /\ outputs # << >> /\ queued' = queued \ {x} /\ outputs' = Tail(outputs)
        /\ UNCHANGED <<fed, gated, au_queue, inside, pc, au>>
    BY <1>3 DEF DrainOne, Without, rcvars
  <2>2. /\ x \in Nat /\ Tail(outputs) \in Seq(Nat) /\ Rising(Tail(outputs))
        /\ Elements(outputs) = Elements(Tail(outputs)) \cup {x}
        /\ \A a \in Elements(Tail(outputs)) : x < a
    BY <2>1, UnitTaken DEF DInv, DType, InCodec
  <2>3. IsFiniteSet(queued') /\ Cardinality(queued') <= Cardinality(queued) /\ Cardinality(queued') \in Nat
    <3>1. /\ IsFiniteSet(queued \ {x})
          /\ Cardinality(queued \ {x}) = IF x \in queued THEN Cardinality(queued) - 1 ELSE Cardinality(queued)
      BY <1>0, FS_RemoveElement
    <3>2. Cardinality(queued \ {x}) \in Nat
      BY <3>1, FS_CardinalityType
    <3> HIDE DEF x
    <3> QED
      BY <1>0, <2>1, <3>1, <3>2
  <2>4. x \notin Elements(Tail(outputs)) /\ x \notin Elements(inside)
    <3>1. \A b \in Elements(inside) : x < b
      BY <2>2 DEF DInv, InCodec
    <3> QED
      BY <2>2, <3>1
  <2> HIDE DEF x
  <2>5. DType'
    BY <1>0, <2>1, <2>2 DEF DInv, DType
  <2>6. HandOff'
    BY <2>1 DEF DInv, HandOff
  <2>7. InCodec'
    BY <2>1, <2>2, <2>4 DEF DInv, InCodec
  <2>8. Room'
    BY <1>0, <2>1, <2>3 DEF DInv, Room
  <2> QED
    BY <2>5, <2>6, <2>7, <2>8 DEF DInv
<1>4. CASE DrainEnd
  <2>1. pc' \in {"top", "input"} /\ (pc' = "input" => pc = "drain" /\ ~gated)
    BY <1>4 DEF DrainEnd
  <2>2. pc' = "input" => Cardinality(queued) < MaxInFlight
    BY <2>1 DEF DInv, Room
  <2>3. UNCHANGED <<fed, au_queue, queued, inside, outputs, gated>>
    BY <1>4 DEF DrainEnd, rcvars, codec
  <2> QED
    BY <1>0, <2>1, <2>2, <2>3, LoopMoves
<1>5. CASE GetInput
  <2>1. pc = "input" /\ pc' \in {"top", "pop"}
    BY <1>5 DEF GetInput
  <2>2. Cardinality(queued) < MaxInFlight
    BY <2>1 DEF DInv, Room
  <2>3. UNCHANGED <<fed, au_queue, queued, inside, outputs, gated>>
    BY <1>5 DEF GetInput, rcvars
  <2> QED
    BY <1>0, <2>1, <2>2, <2>3, LoopMoves
<1>6. CASE Pop
  <2>1. /\ pc = "pop" /\ pc' = "queue" /\ au_queue # << >> /\ au' = Head(au_queue)
        /\ au_queue' = Tail(au_queue) /\ UNCHANGED <<fed, queued, gated, inside, outputs>>
    BY <1>6 DEF Pop, codec
  <2>2. /\ au' \in Nat /\ au_queue' \in Seq(Nat) /\ Rising(au_queue')
        /\ Elements(au_queue) = Elements(au_queue') \cup {au'}
        /\ \A a \in Elements(au_queue') : au' < a
    BY <2>1, UnitTaken DEF DInv, DType, HandOff
  <2>3. DType'
    BY <1>0, <2>1, <2>2 DEF DInv, DType
  <2>4. HandOff'
    BY <2>1, <2>2 DEF DInv, HandOff
  <2>5. InCodec' /\ Room'
    BY <2>1 DEF DInv, InCodec, Room
  <2> QED
    BY <2>3, <2>4, <2>5 DEF DInv
<1>7. CASE PopStopped
  BY <1>0, <1>7, LoopMoves DEF PopStopped, rcvars, codec
<1>8. CASE QueueInput
  <2>1. /\ pc = "queue" /\ pc' = "top" /\ queued' = queued \cup {au} /\ inside' = Append(inside, au)
        /\ UNCHANGED <<fed, au_queue, gated, outputs>>
    BY <1>8 DEF QueueInput, rcvars
  <2>2. /\ au \in Nat /\ au <= fed /\ \A a \in queued : a < au
        /\ \A b \in Elements(au_queue) : au < b
    <3>1. HandOff /\ pc = "queue"
      BY <2>1 DEF DInv
    <3> QED
      BY <3>1, Zenon DEF HandOff
  <2>3. Elements(inside) \subseteq queued /\ Elements(outputs) \subseteq queued
    BY DEF DInv, InCodec
  <2>4. inside' \in Seq(Nat) /\ Elements(inside') = Elements(inside) \cup {au} /\ Rising(inside')
    BY <2>1, <2>2, <2>3, UnitAdded DEF DInv, DType, InCodec
  <2>5. IsFiniteSet(queued') /\ Cardinality(queued') <= Cardinality(queued) + 1
    <3>1. /\ IsFiniteSet(queued \cup {au})
          /\ Cardinality(queued \cup {au}) = IF au \in queued THEN Cardinality(queued) ELSE Cardinality(queued) + 1
      BY <1>0, FS_AddElement
    <3> QED
      BY <1>0, <2>1, <3>1
  <2>6. Cardinality(queued') \in Nat
    BY <2>5, FS_CardinalityType
  <2>7. DType'
    BY <1>0, <2>1, <2>2, <2>4 DEF DInv, DType
  <2>8. HandOff'
    BY <2>1, <2>2 DEF DInv, HandOff
  <2>9. InCodec'
    BY <2>1, <2>2, <2>3, <2>4 DEF DInv, InCodec
  <2>10. Room'
    BY <1>0, <2>1, <2>5, <2>6 DEF DInv, Room
  <2> QED
    BY <2>7, <2>8, <2>9, <2>10 DEF DInv
<1>9. CASE DropOversized
  BY <1>0, <1>9, LoopMoves DEF DropOversized, rcvars, codec
<1> QED
  BY <1>1, <1>2, <1>3, <1>4, <1>5, <1>6, <1>7, <1>8, <1>9 DEF LoopStep

LEMMA DecoderDecodes ==
  ASSUME DInv, Decode
  PROVE  DInv'
<1> DEFINE x == Head(inside)
<1>1. /\ inside # << >> /\ inside' = Tail(inside)
      /\ outputs' = IF x \in Swallowed THEN outputs ELSE Append(outputs, x)
      /\ UNCHANGED <<fed, gated, au_queue, queued, pc, au>>
  BY DEF Decode, rcvars, loop
<1>2. /\ x \in Nat /\ inside' \in Seq(Nat) /\ Rising(inside')
      /\ Elements(inside) = Elements(inside') \cup {x}
      /\ \A a \in Elements(inside') : x < a
  BY <1>1, UnitTaken DEF DInv, DType, InCodec
<1>3. /\ outputs \in Seq(Nat) /\ Rising(outputs) /\ \A a \in Elements(outputs) : a < x
  BY <1>2 DEF DInv, DType, InCodec
<1> HIDE DEF x
<1>4. /\ outputs' \in Seq(Nat) /\ Rising(outputs')
      /\ Elements(outputs') \subseteq Elements(outputs) \cup {x}
  BY <1>1, <1>2, <1>3, UnitAdded
<1>5. DType' /\ HandOff' /\ Room'
  BY <1>1, <1>2, <1>4 DEF DInv, DType, HandOff, Room
<1>6. InCodec'
  BY <1>1, <1>2, <1>3, <1>4 DEF DInv, InCodec
<1> QED
  BY <1>5, <1>6 DEF DInv

LEMMA DecoderFed ==
  ASSUME DInv, HandOver
  PROVE  DInv'
<1>1. fed' = fed + 1 /\ UNCHANGED <<gated, queued, pc, au, inside, outputs>> /\ fed \in Nat /\ fed' \in Nat
  BY DEF HandOver, loop, codec, DInv, DType
<1>2. /\ au_queue' \in Seq(Nat) /\ Rising(au_queue')
      /\ Elements(au_queue') \subseteq Elements(au_queue) \cup {fed'}
  <2>1. CASE au_queue' = Append(au_queue, fed')
    <3>1. \A a \in Elements(au_queue) : a < fed'
      <4>1. \A a \in Elements(au_queue) : a \in Nat /\ a <= fed
        BY DEF DInv, DType, HandOff, Elements
      <4> QED
        BY <1>1, <4>1
    <3> QED
      BY <1>1, <2>1, <3>1, UnitAdded DEF DInv, DType, HandOff
  <2>2. CASE au_queue' = << >>
    BY <2>2, NoUnits
  <2>3. CASE au_queue' = <<fed'>>
    <3>1. <<fed'>> = Append(<< >>, fed')
      OBVIOUS
    <3> QED
      BY <1>1, <2>3, <3>1, NoUnits, UnitAdded
  <2> QED
    BY <2>1, <2>2, <2>3 DEF HandOver
<1>3. DType' /\ InCodec' /\ Room'
  BY <1>1, <1>2 DEF DInv, DType, InCodec, Room
<1>4. HandOff'
  <2>1. \A a \in queued : a \in Nat /\ a <= fed
    BY DEF DInv, DType, HandOff
  <2>2. \A a \in Elements(au_queue) : a \in Nat /\ a <= fed
    BY DEF DInv, DType, HandOff, Elements
  <2>3. \A a \in queued \cup Elements(au_queue') : a <= fed'
    BY <1>1, <1>2, <2>1, <2>2
  <2>4. \A a \in queued, b \in Elements(au_queue') : a < b
    BY <1>1, <1>2, <2>1 DEF DInv, HandOff
  <2>5. pc = "queue" => /\ au \in Nat /\ au <= fed'
                        /\ \A a \in queued : a < au
                        /\ \A b \in Elements(au_queue') : au < b
    <3> SUFFICES ASSUME pc = "queue"
                 PROVE  /\ au \in Nat /\ au <= fed'
                        /\ \A a \in queued : a < au
                        /\ \A b \in Elements(au_queue') : au < b
      OBVIOUS
    <3>1. /\ au \in Nat /\ au <= fed /\ \A a \in queued : a < au
          /\ \A b \in Elements(au_queue) : au < b
      BY Zenon DEF DInv, HandOff
    <3> QED
      BY <1>1, <1>2, <3>1
  <2> QED
    BY <1>1, <1>2, <2>3, <2>4, <2>5 DEF HandOff
<1> QED
  BY <1>3, <1>4 DEF DInv

\* The codec is configured anew, or gone: nothing is in it.
LEMMA DecoderReset ==
  ASSUME DInv, UNCHANGED <<fed, au_queue>>, pc' \in {"top", "off"}, gated' = FALSE, queued' = {},
         inside' = << >>, outputs' = << >>
  PROVE  DInv'
<1>1. Cardinality({}) = 0 /\ IsFiniteSet({}) /\ MaxInFlight \in Nat
  BY FS_EmptySet, DecoderAssumption
<1>2. << >> \in Seq(Nat) /\ Elements(<< >>) = {} /\ Rising(<< >>)
  BY NoUnits
<1>3. DType' /\ HandOff'
  BY <1>2 DEF DInv, DType, HandOff
<1>4. InCodec'
  BY <1>2 DEF InCodec
<1>5. Room'
  BY <1>1 DEF Room
<1> QED
  BY <1>3, <1>4, <1>5 DEF DInv

\* Every other step leaves the decoder's queues as they are.
LEMMA DecoderKept ==
  ASSUME DInv, UNCHANGED <<fed, au_queue, loop, inside, outputs>>
  PROVE  DInv'
  BY DEF DInv, DType, HandOff, InCodec, Room, loop

LEMMA DecoderOwned ==
  ASSUME DInv, NEW resume \in BOOLEAN,
         Start \/ StartFails \/ ClearRunning \/ StopReceiver \/ Join(resume)
  PROVE  DInv'
<1>1. CASE Start
  BY <1>1, DecoderReset DEF Start, rcvars
<1>2. CASE StartFails
  BY <1>2, DecoderKept DEF StartFails, rcvars, codec
<1>3. CASE ClearRunning
  BY <1>3, DecoderKept DEF ClearRunning, rcvars, codec
<1>4. CASE StopReceiver
  BY <1>4, DecoderKept DEF StopReceiver, codec
<1>5. CASE Join(resume)
  BY <1>5, DecoderReset DEF Join
<1> QED
  BY <1>1, <1>2, <1>3, <1>4, <1>5

\* hevc_decoder.cpp: with the loop, the codec, the receiver and the owner interleaved, the
\* frames in the codec are never more than the cap, and queued_ns knows all of them.
THEOREM PanelInFlightCap == PSpec => []InFlightCap
<1>1. PInit => DInv
  <2> SUFFICES ASSUME PInit PROVE DInv
    OBVIOUS
  <2>1. Cardinality({}) = 0 /\ IsFiniteSet({}) /\ MaxInFlight \in Nat
    BY FS_EmptySet, DecoderAssumption
  <2>2. << >> \in Seq(Nat) /\ Elements(<< >>) = {} /\ Rising(<< >>)
    BY NoUnits
  <2>3. /\ fed = 0 /\ gated = FALSE /\ queued = {} /\ au_queue = << >> /\ inside = << >>
        /\ outputs = << >> /\ pc = "off"
    BY DEF PInit, HInit
  <2>4. DType /\ HandOff
    BY <2>2, <2>3 DEF DType, HandOff
  <2>5. InCodec
    BY <2>2, <2>3 DEF InCodec
  <2>6. Room
    BY <2>1, <2>3 DEF Room
  <2> QED
    BY <2>4, <2>5, <2>6 DEF DInv
<1>2. ASSUME DInv, [PNext]_pvars PROVE DInv'
  <2>1. CASE start
    <3>1. << >> \in Seq(Nat) /\ Elements(<< >>) = {} /\ Rising(<< >>)
      BY NoUnits
    <3> QED
      BY <1>2, <2>1, <3>1 DEF start, DInv, DType, HandOff, InCodec, Room, loop, codec
  <2>2. CASE UNCHANGED hvars
    BY <1>2, <2>2, DecoderKept DEF hvars, rcvars, codec
  <2>3. CASE PumpFeeds
    BY <1>2, <2>3, DecoderFed DEF PumpFeeds
  <2>4. CASE ApplyStops \/ LeaveStops
    BY <1>2, <2>4, DecoderOwned DEF ApplyStops, LeaveStops
  <2>5. CASE BringUp
    BY <1>2, <2>2, <2>5, DecoderOwned DEF BringUp
  <2>6. CASE DecodeStep
    BY <1>2, <2>6, DecoderLoop, DecoderDecodes DEF DecodeStep
  <2>7. ASSUME NEW s \in Slots, attachSurface(s) \/ detachSurface(s) PROVE UNCHANGED hvars
    BY <2>7 DEF attachSurface, detachSurface
  <2>8. ASSUME setViewport \/ stopBridge \/ stopJoined \/ RunInit \/ Pump \/ SwapEvents \/ ApplyAdopts
               \/ ApplyDone \/ Leaves \/ LeaveReleases \/ LeaveDrains
        PROVE  UNCHANGED hvars
    BY <2>8 DEF setViewport, stopBridge, stopJoined, RunInit, Pump, SwapEvents, ApplyAdopts,
                ApplyDone, Leaves, LeaveReleases, LeaveDrains
  <2>9. CASE UNCHANGED pvars
    BY <2>2, <2>9 DEF pvars
  <2> QED
    BY <1>2, <2>1, <2>2, <2>3, <2>4, <2>5, <2>6, <2>7, <2>8, <2>9 DEF PNext, UiStep, RunStep
<1>3. ASSUME DInv PROVE InFlightCap
  <2>1. Len(inside) + Len(outputs) <= Cardinality(queued)
    BY <1>3, BothFit DEF DInv, DType, InCodec, Room
  <2>2. Cardinality(queued) \in Nat /\ Cardinality(queued) <= MaxInFlight /\ MaxInFlight \in Nat
    BY <1>3, FS_CardinalityType, DecoderAssumption DEF DInv, Room
  <2>3. Len(inside) \in Nat /\ Len(outputs) \in Nat
    BY <1>3 DEF DInv, DType
  <2>4. /\ DOMAIN inside = 1..Len(inside)
        /\ DOMAIN outputs = 1..Len(outputs)
    BY <1>3 DEF DInv, DType
  <2>5. {inside[i] : i \in DOMAIN inside} \cup {outputs[i] : i \in DOMAIN outputs} \subseteq queued
    BY <1>3, <2>4 DEF DInv, InCodec, Elements
  <2> QED
    BY <2>1, <2>2, <2>3, <2>5 DEF InFlightCap
<1> QED
  BY <1>1, <1>2, <1>3, PTL DEF PSpec

-----------------------------------------------------------------------------
(***************************************************************************)
(* The windows                                                             *)
(***************************************************************************)
EventSet == [slot : Slots, window : Refs \cup {None}]

\* No window is in two events, or in two panels.
Distinct(q) == \A i, j \in 1..Len(q) : i < j /\ q[i].window # None => q[i].window # q[j].window
Apart(f) == \A s, t \in Slots : s # t /\ f[s] # None => f[s] # f[t]
PanelsOf(f) == {f[s] : s \in Slots} \ {None}

LEMMA NoEvents == << >> \in Seq(EventSet) /\ Held(<< >>) = {} /\ Distinct(<< >>)
  BY DEF Held, Distinct

LEMMA EventAdded ==
  ASSUME NEW q \in Seq(EventSet), NEW e \in EventSet, Distinct(q), e.window \notin Held(q)
  PROVE  /\ Append(q, e) \in Seq(EventSet) /\ Distinct(Append(q, e))
         /\ Held(Append(q, e)) = Held(q) \cup ({e.window} \ {None})
<1> DEFINE Q == Append(q, e)
<1>1. /\ Q \in Seq(EventSet) /\ Len(q) \in Nat /\ Len(Q) = Len(q) + 1 /\ Q[Len(q) + 1] = e
      /\ \A i \in 1..Len(q) : Q[i] = q[i]
  OBVIOUS
<1>2. \A i : i \in 1..(Len(q) + 1) <=> i \in 1..Len(q) \/ i = Len(q) + 1
  BY <1>1
<1>3. DOMAIN q = 1..Len(q) /\ DOMAIN Q = 1..Len(Q)
  BY <1>1
<1> HIDE DEF Q
<1>4. Held(Q) = Held(q) \cup ({e.window} \ {None})
  <2>1. {Q[i].window : i \in DOMAIN Q} = {q[i].window : i \in DOMAIN q} \cup {e.window}
    BY <1>1, <1>2, <1>3
  <2> QED
    BY <2>1 DEF Held
<1>5. Distinct(Q)
  <2> SUFFICES ASSUME NEW i \in 1..(Len(q) + 1), NEW j \in 1..(Len(q) + 1), i < j, Q[i].window # None
               PROVE  Q[i].window # Q[j].window
    BY <1>1 DEF Distinct
  <2>1. i \in 1..Len(q) /\ q[i].window \in Held(q)
    BY <1>1, <1>3 DEF Held
  <2>2. CASE j = Len(q) + 1
    BY <1>1, <2>1, <2>2
  <2>3. CASE j \in 1..Len(q)
    BY <1>1, <2>1, <2>3 DEF Distinct
  <2> QED
    BY <1>2, <2>2, <2>3
<1> QED
  BY <1>1, <1>4, <1>5 DEF Q

LEMMA EventTaken ==
  ASSUME NEW q \in Seq(EventSet), q # << >>, Distinct(q)
  PROVE  /\ Head(q) \in EventSet /\ Tail(q) \in Seq(EventSet) /\ Distinct(Tail(q))
         /\ Held(q) = Held(Tail(q)) \cup ({Head(q).window} \ {None})
         /\ Head(q).window \notin Held(Tail(q))
<1> DEFINE Q == Tail(q)
<1>1. /\ Q \in Seq(EventSet) /\ Head(q) \in EventSet /\ Head(q) = q[1]
      /\ Len(q) \in Nat \ {0} /\ Len(Q) = Len(q) - 1
      /\ \A i \in 1..Len(Q) : Q[i] = q[i + 1]
  OBVIOUS
<1>2. \A i \in 1..Len(Q) : i + 1 \in 1..Len(q) /\ 1 < i + 1
  BY <1>1
<1>3. \A i \in 1..Len(q) : i = 1 \/ (i - 1 \in 1..Len(Q) /\ (i - 1) + 1 = i)
  BY <1>1
<1>4. 1 \in 1..Len(q)
  BY <1>1
<1>5. DOMAIN q = 1..Len(q) /\ DOMAIN Q = 1..Len(Q)
  BY <1>1
<1> HIDE DEF Q
<1>6. Distinct(Q)
  <2> SUFFICES ASSUME NEW i \in 1..Len(Q), NEW j \in 1..Len(Q), i < j, Q[i].window # None
               PROVE  Q[i].window # Q[j].window
    BY DEF Distinct
  <2>1. i + 1 < j + 1 /\ i + 1 \in 1..Len(q) /\ j + 1 \in 1..Len(q)
    BY <1>1, <1>2
  <2>2. Q[i] = q[i + 1] /\ Q[j] = q[j + 1]
    BY <1>1
  <2>3. q[i + 1].window # q[j + 1].window
    BY <2>1, <2>2 DEF Distinct
  <2> QED
    BY <2>2, <2>3
<1>7. Held(q) \subseteq Held(Q) \cup ({Head(q).window} \ {None})
  <2> SUFFICES ASSUME NEW i \in 1..Len(q), q[i].window # None
               PROVE  q[i].window \in Held(Q) \cup {Head(q).window}
    BY <1>5 DEF Held
  <2>1. CASE i = 1
    BY <1>1, <2>1
  <2>2. CASE i # 1
    <3>1. i - 1 \in 1..Len(Q) /\ (i - 1) + 1 = i
      BY <1>3, <2>2
    <3>2. Q[i - 1] = q[i]
      BY <1>1, <3>1
    <3> QED
      BY <1>5, <3>1, <3>2 DEF Held
  <2> QED
    BY <2>1, <2>2
<1>8. Held(Q) \cup ({Head(q).window} \ {None}) \subseteq Held(q)
  <2>1. Head(q).window # None => Head(q).window \in Held(q)
    BY <1>1, <1>4, <1>5 DEF Held
  <2>2. ASSUME NEW i \in 1..Len(Q), Q[i].window # None PROVE Q[i].window \in Held(q)
    BY <1>1, <1>2, <1>5, <2>2 DEF Held
  <2>3. Held(Q) \subseteq Held(q)
    BY <1>5, <2>2 DEF Held
  <2> QED
    BY <2>1, <2>3
<1>9. Head(q).window \notin Held(Q)
  <2> SUFFICES ASSUME NEW i \in 1..Len(Q), Q[i].window # None PROVE Q[i].window # Head(q).window
    BY <1>5 DEF Held
  <2>1. Q[i] = q[i + 1] /\ i + 1 \in 1..Len(q) /\ 1 < i + 1
    BY <1>1, <1>2
  <2> QED
    BY <1>1, <1>4, <2>1 DEF Distinct
<1> QED
  BY <1>1, <1>6, <1>7, <1>8, <1>9 DEF Q

LEMMA PanelChanged ==
  ASSUME NEW f \in [Slots -> Refs \cup {None}], Apart(f), NEW s \in Slots, NEW w \in Refs \cup {None},
         w \notin PanelsOf(f)
  PROVE  LET g == [f EXCEPT ![s] = w] IN
         /\ g \in [Slots -> Refs \cup {None}] /\ Apart(g)
         /\ PanelsOf(g) = (PanelsOf(f) \ {f[s]}) \cup ({w} \ {None})
<1> DEFINE g == [f EXCEPT ![s] = w]
<1>1. g \in [Slots -> Refs \cup {None}] /\ g[s] = w /\ \A r \in Slots : r # s => g[r] = f[r]
  OBVIOUS
<1> HIDE DEF g
<1>2. \A r \in Slots : f[r] # None => f[r] # w
  BY DEF PanelsOf
<1>3. Apart(g)
  BY <1>1, <1>2 DEF Apart
<1>4. PanelsOf(g) \subseteq (PanelsOf(f) \ {f[s]}) \cup ({w} \ {None})
  <2> SUFFICES ASSUME NEW r \in Slots, g[r] # None, r # s
               PROVE  f[r] \in PanelsOf(f) \ {f[s]} /\ g[r] = f[r]
    BY <1>1 DEF PanelsOf
  <2> QED
    BY <1>1 DEF Apart, PanelsOf
<1>5. (PanelsOf(f) \ {f[s]}) \cup ({w} \ {None}) \subseteq PanelsOf(g)
  <2>1. ASSUME NEW r \in Slots, f[r] # None, f[r] # f[s] PROVE f[r] \in PanelsOf(g)
    BY <1>1, <2>1 DEF PanelsOf
  <2>2. PanelsOf(f) \ {f[s]} \subseteq PanelsOf(g)
    BY <2>1 DEF PanelsOf
  <2>3. w # None => w \in PanelsOf(g)
    BY <1>1 DEF PanelsOf
  <2> QED
    BY <2>2, <2>3
<1> QED
  BY <1>1, <1>3, <1>4, <1>5 DEF g

PType ==
  /\ refs \in 0..MaxRefs
  /\ events \in Seq(EventSet) /\ batch \in Seq(EventSet)
  /\ window \in [Slots -> Refs \cup {None}]
  /\ live \subseteq 1..refs /\ late \subseteq 1..refs

Once == Distinct(events) /\ Distinct(batch) /\ Apart(window)

\* What the place of the run loop tells: a batch is held only while it is applied, without
\* a loop no event is queued, only an ended loop leaves events that nobody will adopt, and
\* outside the loop there is neither a panel's window nor a decoder.
Where ==
  /\ bridge = "none" <=> rl = "off"
  /\ rl = "off" => events = << >>
  /\ rl # "apply" => batch = << >>
  /\ rl \in {"off", "init", "drain", "ended"} => owner = "idle" /\ PanelsOf(window) = {}
  /\ IF rl = "ended" THEN Held(events) \subseteq late ELSE Held(events) \cap late = {}

Owners ==
  /\ live \ late = (Held(events) \ late) \cup Held(batch) \cup PanelsOf(window)
  /\ (Held(events) \ late) \cap Held(batch) = {}
  /\ (Held(events) \ late) \cap PanelsOf(window) = {}
  /\ Held(batch) \cap PanelsOf(window) = {}

Shown == owner # "idle" => target = window[0] /\ target # None

PInv == PType /\ Once /\ Where /\ Owners /\ Shown

LEMMA OwnersAreSole == SoleOwner <=> Owners
  BY DEF SoleOwner, Owners, Panels, PanelsOf

\* A step that moves nothing but the place of the loop and the decoder.
LEMMA NothingMoves ==
  ASSUME PInv, UNCHANGED <<refs, events, batch, window, live, late>>, Where', Shown'
  PROVE  PInv'
  BY DEF PInv, PType, Once, Owners

\* attachSurface: the reference is new, so nobody holds it.
LEMMA Attached ==
  ASSUME PInv, NEW s \in Slots, attachSurface(s)
  PROVE  PInv'
<1> DEFINE n == refs + 1
           e == Event(s, n)
<1>1. /\ bridge = "live" /\ refs' = n /\ live' = live \cup {n} /\ events' = Append(events, e)
      /\ late' = IF rl = "ended" THEN late \cup {n} ELSE late
      /\ UNCHANGED <<bridge, rl, batch, window, target, owner>>
  BY DEF attachSurface, runvars, hvars
<1>2. n \in 0..MaxRefs /\ n \in Refs /\ n # None /\ n \notin 1..refs /\ 1..refs \subseteq 1..n /\ n \in 1..n
  BY PanelAssumption DEF PInv, PType, Refs, attachSurface
<1>3. e \in EventSet /\ e.window = n
  BY <1>2 DEF Event, EventSet
<1> HIDE DEF n, e
<1>4. n \notin live /\ n \notin late
  BY <1>2 DEF PInv, PType
<1>5. n \notin Held(events) /\ n \notin Held(batch) /\ n \notin PanelsOf(window)
  BY <1>4 DEF PInv, Owners
<1>6. /\ events' \in Seq(EventSet) /\ Distinct(events')
      /\ Held(events') = Held(events) \cup {n}
  <2>1. /\ Append(events, e) \in Seq(EventSet) /\ Distinct(Append(events, e))
        /\ Held(Append(events, e)) = Held(events) \cup ({e.window} \ {None})
    BY <1>3, <1>5, EventAdded DEF PInv, PType, Once
  <2> QED
    BY <1>1, <1>2, <1>3, <2>1
<1>7. PType'
  BY <1>1, <1>2, <1>6 DEF PInv, PType
<1>8. Once' /\ Shown'
  BY <1>1, <1>6 DEF PInv, Once, Shown
<1>9. rl # "off"
  BY <1>1 DEF PInv, Where
<1>10. Where'
  BY <1>1, <1>4, <1>6, <1>9 DEF PInv, Where
<1>11. Owners'
  <2>1. CASE rl = "ended"
    <3>1. late' = late \cup {n}
      BY <1>1, <2>1
    <3>2. live' \ late' = live \ late /\ Held(events') \ late' = Held(events) \ late
      BY <1>1, <1>4, <1>5, <1>6, <3>1
    <3> QED
      BY <1>1, <3>2 DEF PInv, Owners
  <2>2. CASE rl # "ended"
    <3>1. late' = late
      BY <1>1, <2>2
    <3>2. live' \ late' = (live \ late) \cup {n} /\ Held(events') \ late' = (Held(events) \ late) \cup {n}
      BY <1>1, <1>4, <1>5, <1>6, <3>1
    <3> QED
      BY <1>1, <1>5, <3>2 DEF PInv, Owners
  <2> QED
    BY <2>1, <2>2
<1> QED
  BY <1>7, <1>8, <1>10, <1>11 DEF PInv

LEMMA Detached ==
  ASSUME PInv, NEW s \in Slots, detachSurface(s)
  PROVE  PInv'
<1> DEFINE e == Event(s, None)
<1>1. /\ bridge = "live" /\ events' = Append(events, e)
      /\ UNCHANGED <<bridge, late, refs, live, rl, batch, window, target, owner>>
  BY DEF detachSurface, runvars, hvars
<1>2. e \in EventSet /\ e.window = None
  BY DEF Event, EventSet
<1>3. None \notin Held(events)
  BY DEF Held
<1> HIDE DEF e
<1>4. events' \in Seq(EventSet) /\ Distinct(events') /\ Held(events') = Held(events)
  <2>1. /\ Append(events, e) \in Seq(EventSet) /\ Distinct(Append(events, e))
        /\ Held(Append(events, e)) = Held(events) \cup ({e.window} \ {None})
    BY <1>2, <1>3, EventAdded DEF PInv, PType, Once
  <2> QED
    BY <1>1, <1>2, <2>1
<1>5. rl # "off"
  BY <1>1 DEF PInv, Where
<1>6. PType' /\ Once' /\ Shown'
  BY <1>1, <1>4 DEF PInv, PType, Once, Shown
<1>7. Where' /\ Owners'
  BY <1>1, <1>4, <1>5 DEF PInv, Where, Owners
<1> QED
  BY <1>6, <1>7 DEF PInv

\* ApplyAdopts: the batch's next window replaces the slot's, which is released.
LEMMA WindowAdopted ==
  ASSUME PInv, ApplyAdopts
  PROVE  PInv'
<1> DEFINE e == Head(batch)
           s == e.slot
           w == e.window
<1>1. /\ rl = "apply" /\ batch # << >> /\ (s = 0 => owner = "idle")
      /\ live' = live \ {window[s]} /\ window' = [window EXCEPT ![s] = w] /\ batch' = Tail(batch)
      /\ UNCHANGED <<bridge, late, refs, events, rl, target, owner>>
  BY DEF ApplyAdopts, NoDecoder, uivars, hvars
<1>2. /\ e \in EventSet /\ batch' \in Seq(EventSet) /\ Distinct(batch')
      /\ Held(batch) = Held(batch') \cup ({w} \ {None}) /\ w \notin Held(batch')
  BY <1>1, EventTaken DEF PInv, PType, Once
<1>3. s \in Slots /\ w \in Refs \cup {None}
  BY <1>2 DEF EventSet
<1> HIDE DEF e, s, w
<1>4. w \notin PanelsOf(window)
  <2>1. None \notin PanelsOf(window)
    BY DEF PanelsOf
  <2> QED
    BY <1>2, <2>1 DEF PInv, Owners
<1>5. /\ window' \in [Slots -> Refs \cup {None}] /\ Apart(window')
      /\ PanelsOf(window') = (PanelsOf(window) \ {window[s]}) \cup ({w} \ {None})
  BY <1>1, <1>3, <1>4, PanelChanged DEF PInv, PType, Once
<1>6. window[s] # None => window[s] \in PanelsOf(window)
  BY <1>3 DEF PanelsOf
<1>7. None \notin live /\ None \notin Held(events) /\ None \notin Held(batch)
  <2>0. 1..refs \subseteq Refs
    BY PanelAssumption DEF PInv, PType, Refs
  <2>1. live \subseteq Refs
    BY <2>0 DEF PInv, PType
  <2> QED
    BY <2>1, PanelAssumption DEF Held
<1>8. PType'
  BY <1>1, <1>2, <1>5 DEF PInv, PType
<1>9. Once'
  BY <1>1, <1>2, <1>5 DEF PInv, Once
<1>10. Where'
  BY <1>1 DEF PInv, Where
<1>11. Owners'
  <2>1. Held(batch') = Held(batch) \ {w}
    BY <1>2, <1>7
  <2>2. w # None => w \in Held(batch) /\ w \in live /\ w \notin late
    BY <1>2 DEF PInv, Owners
  <2>3. window[s] # w \/ window[s] = None
    BY <1>4, <1>6
  <2>4. live' \ late' = (live \ late) \ {window[s]} /\ Held(events') \ late' = Held(events) \ late
    BY <1>1
  <2>5. /\ live \ late = (Held(events) \ late) \cup Held(batch) \cup PanelsOf(window)
        /\ (Held(events) \ late) \cap Held(batch) = {}
        /\ (Held(events) \ late) \cap PanelsOf(window) = {}
        /\ Held(batch) \cap PanelsOf(window) = {}
    BY DEF PInv, Owners
  <2>6. None \notin live \ late /\ (w # None => w \in Held(batch))
    BY <1>7, <2>2
  <2>7. /\ (live \ late) \ {window[s]} = (Held(events) \ late) \cup Held(batch') \cup PanelsOf(window')
        /\ (Held(events) \ late) \cap Held(batch') = {}
        /\ (Held(events) \ late) \cap PanelsOf(window') = {}
        /\ Held(batch') \cap PanelsOf(window') = {}
    <3> DEFINE L == live \ late
               E == Held(events) \ late
               B == Held(batch)
               P == PanelsOf(window)
               C == Held(batch')
               Q == PanelsOf(window')
               v == window[s]
    <3>1. /\ L = E \cup B \cup P /\ E \cap B = {} /\ E \cap P = {} /\ B \cap P = {} /\ None \notin L
          /\ w # None => w \in B
          /\ v # None => v \in P
          /\ C = B \ {w}
          /\ Q = (P \ {v}) \cup ({w} \ {None})
      BY <1>5, <1>6, <2>1, <2>5, <2>6
    <3> HIDE DEF L, E, B, P, C, Q, v
    <3>2. E \cap C = {} /\ E \cap Q = {} /\ C \cap Q = {}
      BY <3>1
    <3>3. ASSUME NEW x \in L \ {v} PROVE x \in E \cup C \cup Q
      BY <3>1
    <3>4. ASSUME NEW x \in E \cup C \cup Q PROVE x \in L \ {v}
      BY <3>1
    <3>5. L \ {v} = E \cup C \cup Q
      BY <3>3, <3>4
    <3> QED
      BY <3>2, <3>5 DEF L, E, B, P, C, Q, v
  <2> QED
    BY <2>4, <2>7 DEF Owners
<1>12. Shown'
  BY <1>1, <1>3, PanelAssumption DEF PInv, PType, Shown
<1> QED
  BY <1>8, <1>9, <1>10, <1>11, <1>12 DEF PInv

\* The decoder's steps that change its owner, and those that do not.
LEMMA OwnerKept ==
  ASSUME LoopStep \/ Decode \/ HandOver
  PROVE  UNCHANGED owner
  BY DEF LoopStep, Decode, HandOver, LoopEnds, LoopGoes, DrainOne, DrainEnd, GetInput, Pop, PopStopped,
         QueueInput, DropOversized

LEMMA OwnerStops ==
  ASSUME NEW resume, ClearRunning \/ StopReceiver \/ Join(resume)
  PROVE  owner # "idle"
  BY DEF ClearRunning, StopReceiver, Join

LEMMA BridgeStep ==
  ASSUME PInv, [PNext]_pvars
  PROVE  PInv'
<1>0. << >> \in Seq(EventSet) /\ Held(<< >>) = {} /\ Distinct(<< >>)
  BY NoEvents
<1>1. CASE start
  <2>1. rl = "off" /\ events = << >> /\ batch = << >> /\ owner = "idle" /\ PanelsOf(window) = {}
    BY <1>1 DEF start, PInv, Where
  <2>2. /\ bridge' = "live" /\ events' = << >> /\ rl' = "init" /\ batch' = << >>
        /\ window' = [s \in Slots |-> None] /\ UNCHANGED <<live, late, refs, owner>>
    BY <1>1 DEF start
  <2>3. PanelsOf(window') = {} /\ Apart(window') /\ window' \in [Slots -> Refs \cup {None}]
    BY <2>2 DEF PanelsOf, Apart
  <2>4. PType' /\ Once' /\ Where' /\ Shown'
    BY <1>0, <2>1, <2>2, <2>3 DEF PInv, PType, Once, Where, Shown
  <2>5. Owners'
    BY <1>0, <2>1, <2>2, <2>3 DEF PInv, Owners
  <2> QED
    BY <2>4, <2>5 DEF PInv
<1>2. ASSUME NEW s \in Slots, attachSurface(s) \/ detachSurface(s) PROVE PInv'
  BY <1>2, Attached, Detached
<1>3. CASE setViewport \/ stopBridge
  <2>1. /\ (bridge' = "none" <=> bridge = "none")
        /\ UNCHANGED <<refs, events, batch, window, live, late, rl, owner, target>>
    BY <1>3 DEF setViewport, stopBridge, runvars, hvars
  <2>2. Where' /\ Shown'
    BY <2>1 DEF PInv, Where, Shown
  <2> QED
    BY <2>1, <2>2, NothingMoves
<1>4. CASE stopJoined
  <2>1. /\ rl = "ended" /\ rl' = "off" /\ bridge' = "none" /\ events' = << >>
        /\ UNCHANGED <<refs, batch, window, live, late, owner, target>>
    BY <1>4 DEF stopJoined, hvars
  <2>2. PType' /\ Once' /\ Where' /\ Shown'
    BY <1>0, <2>1 DEF PInv, PType, Once, Where, Shown
  <2>3. Owners'
    BY <1>0, <2>1 DEF PInv, Where, Owners
  <2> QED
    BY <2>2, <2>3 DEF PInv
<1>5. CASE RunInit
  <2>1. /\ rl = "init" /\ UNCHANGED <<bridge, refs, events, batch, window, live, owner, target>>
        /\ \/ rl' = "top" /\ late' = late
           \/ rl' = "ended" /\ late' = late \cup Held(events)
    BY <1>5 DEF RunInit, hvars
  <2>2. batch = << >> /\ PanelsOf(window) = {}
    BY <2>1 DEF PInv, Where
  <2>3. CASE rl' = "top" /\ late' = late
    <3>1. Where' /\ Shown'
      BY <2>1, <2>3 DEF PInv, Where, Shown
    <3> QED
      BY <2>1, <2>3, <3>1, NothingMoves
  <2>4. CASE rl' = "ended" /\ late' = late \cup Held(events)
    <3>1. Where' /\ Shown' /\ Once'
      BY <2>1, <2>4 DEF PInv, Where, Shown, Once
    <3>2. Owners'
      BY <1>0, <2>1, <2>2, <2>4 DEF PInv, Owners
    <3>3. Held(events) \subseteq live \cup late
      BY DEF PInv, Owners
    <3>4. PType'
      BY <2>1, <2>4, <3>3 DEF PInv, PType
    <3> QED
      BY <3>1, <3>2, <3>4 DEF PInv
  <2> QED
    BY <2>1, <2>3, <2>4
<1>6. CASE Pump \/ ApplyDone \/ Leaves
  <2>1. /\ rl \in {"top", "apply"} /\ batch' = << >> /\ rl' \in {"swap", "bring", "leave"}
        /\ UNCHANGED <<bridge, refs, events, batch, window, live, late, owner, target>>
    BY <1>6 DEF Pump, ApplyDone, Leaves, uivars, hvars, PInv, Where
  <2>2. Where' /\ Shown'
    BY <2>1 DEF PInv, Where, Shown
  <2> QED
    BY <2>1, <2>2, NothingMoves
<1>7. CASE PumpFeeds \/ DecodeStep
  <2>1. UNCHANGED <<bridge, refs, events, batch, window, live, late, rl, owner, target>>
    BY <1>7, OwnerKept DEF PumpFeeds, DecodeStep, uivars, runvars
  <2>2. Where' /\ Shown'
    BY <2>1 DEF PInv, Where, Shown
  <2> QED
    BY <2>1, <2>2, NothingMoves
<1>8. CASE SwapEvents
  <2>1. /\ rl = "swap" /\ rl' = "apply" /\ batch' = events /\ events' = << >>
        /\ UNCHANGED <<bridge, refs, window, live, late, owner, target>>
    BY <1>8 DEF SwapEvents, uivars, hvars
  <2>2. batch = << >> /\ Held(events) \cap late = {}
    BY <2>1 DEF PInv, Where
  <2>3. PType' /\ Once' /\ Where' /\ Shown'
    BY <1>0, <2>1, <2>2 DEF PInv, PType, Once, Where, Shown
  <2>4. Owners'
    BY <1>0, <2>1, <2>2 DEF PInv, Owners
  <2> QED
    BY <2>3, <2>4 DEF PInv
<1>9. CASE ApplyStops \/ LeaveStops
  <2>1. /\ UNCHANGED <<bridge, refs, events, batch, window, live, late, rl, target>>
        /\ owner # "idle"
    BY <1>9, OwnerStops DEF ApplyStops, LeaveStops, uivars, runvars
  <2>2. Where' /\ Shown'
    BY <2>1 DEF PInv, Where, Shown
  <2> QED
    BY <2>1, <2>2, NothingMoves
<1>10. CASE ApplyAdopts
  BY <1>10, WindowAdopted
<1>11. CASE BringUp
  <2>1. /\ rl = "bring" /\ rl' = "top"
        /\ UNCHANGED <<bridge, refs, events, batch, window, live, late>>
    BY <1>11 DEF BringUp, uivars
  <2>2. \/ UNCHANGED <<target, owner>>
        \/ window[0] # None /\ target' = window[0]
    BY <1>11 DEF BringUp, DecoderDue, hvars
  <2>3. Where' /\ Shown'
    BY <2>1, <2>2 DEF PInv, Where, Shown
  <2> QED
    BY <2>1, <2>3, NothingMoves
<1>12. CASE LeaveReleases
  <2>1. /\ rl = "leave" /\ rl' = "drain" /\ owner = "idle" /\ live' = live \ PanelsOf(window)
        /\ window' = [s \in Slots |-> None]
        /\ UNCHANGED <<bridge, refs, events, batch, late, owner, target>>
    BY <1>12 DEF LeaveReleases, Panels, PanelsOf, uivars, hvars
  <2>2. PanelsOf(window') = {} /\ Apart(window') /\ window' \in [Slots -> Refs \cup {None}]
    BY <2>1 DEF PanelsOf, Apart
  <2>3. PType' /\ Once' /\ Where' /\ Shown'
    BY <2>1, <2>2 DEF PInv, PType, Once, Where, Shown
  <2>4. Owners'
    BY <2>1, <2>2 DEF PInv, Owners
  <2> QED
    BY <2>3, <2>4 DEF PInv
<1>13. CASE LeaveDrains
  <2>1. /\ rl = "drain" /\ rl' = "ended" /\ live' = live \ Held(events) /\ events' = << >>
        /\ UNCHANGED <<bridge, refs, batch, window, late, owner, target>>
    BY <1>13 DEF LeaveDrains, QueuedWindows, uivars, hvars
  <2>2. batch = << >> /\ PanelsOf(window) = {}
    BY <2>1 DEF PInv, Where
  <2>3. PType' /\ Once' /\ Where' /\ Shown'
    BY <1>0, <2>1 DEF PInv, PType, Once, Where, Shown
  <2>4. Owners'
    BY <1>0, <2>1, <2>2 DEF PInv, Owners
  <2> QED
    BY <2>3, <2>4 DEF PInv
<1>14. CASE UNCHANGED pvars
  <2>1. UNCHANGED <<bridge, refs, events, batch, window, live, late, rl, owner, target>>
    BY <1>14 DEF pvars, uivars, runvars, hvars
  <2>2. Where' /\ Shown'
    BY <2>1 DEF PInv, Where, Shown
  <2> QED
    BY <2>1, <2>2, NothingMoves
<1> QED
  BY <1>1, <1>2, <1>3, <1>4, <1>5, <1>6, <1>7, <1>8, <1>9, <1>10, <1>11, <1>12, <1>13, <1>14
     DEF PNext, UiStep, RunStep

LEMMA BridgeInv == PSpec => []PInv
<1>1. PInit => PInv
  <2> SUFFICES ASSUME PInit PROVE PInv
    OBVIOUS
  <2>0. << >> \in Seq(EventSet) /\ Held(<< >>) = {} /\ Distinct(<< >>)
    BY NoEvents
  <2>1. /\ bridge = "none" /\ events = << >> /\ batch = << >> /\ rl = "off"
        /\ window = [s \in Slots |-> None] /\ live = {} /\ late = {} /\ refs = 0 /\ owner = "idle"
    BY DEF PInit, HInit
  <2>2. PanelsOf(window) = {} /\ Apart(window) /\ window \in [Slots -> Refs \cup {None}]
    BY <2>1 DEF PanelsOf, Apart
  <2>3. PType
    BY <2>0, <2>1, <2>2, PanelAssumption DEF PType
  <2>4. Once /\ Where /\ Owners /\ Shown
    BY <2>0, <2>1, <2>2 DEF Once, Where, Owners, Shown
  <2> QED
    BY <2>3, <2>4 DEF PInv
<1> QED
  BY <1>1, BridgeStep, PTL DEF PSpec

\* jni_bridge.cpp: attachSurface, run and stop, in any interleaving, keep every window
\* reference in one place, and release it once.
THEOREM PanelSoleOwner == PSpec => []SoleOwner
<1>1. PInv => SoleOwner
  BY OwnersAreSole DEF PInv
<1> QED
  BY <1>1, BridgeInv, PTL

\* jni_bridge.cpp: a decoder's codec renders into the window of its slot, and the window is
\* released only after stop() has returned.
THEOREM PanelCodecOnLiveWindow == PSpec => []CodecOnLiveWindow
<1>1. ASSUME PInv PROVE CodecOnLiveWindow
  <2> SUFFICES ASSUME owner # "idle" PROVE target \in live /\ target = window[0]
    BY DEF CodecOnLiveWindow
  <2>1. target = window[0] /\ target # None
    BY <1>1 DEF PInv, Shown
  <2>2. target \in PanelsOf(window)
    BY <2>1, PanelAssumption DEF PanelsOf
  <2> QED
    BY <1>1, <2>1, <2>2 DEF PInv, Owners
<1> QED
  BY <1>1, BridgeInv, PTL
=============================================================================
