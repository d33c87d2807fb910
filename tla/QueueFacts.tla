----------------------------- MODULE QueueFacts -----------------------------
(***************************************************************************)
(* What the proofs need of queues: the channels, sockets and command       *)
(* queues of the models are sequences that are read at the head and        *)
(* written at the end.                                                     *)
(***************************************************************************)
EXTENDS Naturals, Sequences, SequenceTheorems, TLAPS

\* Taking from a queue, and adding to it: the head stays the head.
LEMMA HeadTail ==
  ASSUME NEW S, NEW q \in Seq(S), q # <<>>
  PROVE  Head(q) \in S /\ Tail(q) \in Seq(S)
  BY HeadTailProperties

\* A frame that joins the socket leaves the one being handled in its place.
LEMMA AppendKeepsHead ==
  ASSUME NEW S, NEW q \in Seq(S), NEW f \in S
  PROVE  /\ Append(q, f) \in Seq(S) /\ Append(q, f) # <<>>
         /\ q # <<>> => Head(Append(q, f)) = Head(q)
<1>1. /\ Append(q, f) \in Seq(S) /\ Len(Append(q, f)) = Len(q) + 1
      /\ \A i \in 1..Len(q) : Append(q, f)[i] = q[i]
  BY AppendProperties
<1>2. Len(q) \in Nat /\ (q # <<>> => Len(q) # 0)
  BY EmptySeq, LenProperties
<1> QED
  BY <1>1, <1>2, EmptySeq

\* What a queue holds, that it holds nothing twice, and what comes before what.
Elems(q) == {q[i] : i \in 1..Len(q)}
Distinct(q) == \A i, j \in 1..Len(q) : q[i] = q[j] => i = j
Before(q, x, y) == \E i, j \in 1..Len(q) : i < j /\ q[i] = x /\ q[j] = y


\* The frame that joins the socket, or the command that joins a queue, comes
\* after the others.
LEMMA AppendElems ==
  ASSUME NEW S, NEW q \in Seq(S), NEW x \in S
  PROVE  /\ Append(q, x) \in Seq(S) /\ Elems(Append(q, x)) = Elems(q) \cup {x}
         /\ Distinct(q) /\ x \notin Elems(q) => Distinct(Append(q, x))
         /\ \A y, z : Before(Append(q, x), y, z) =>
              Before(q, y, z) \/ (z = x /\ y \in Elems(q))
<1>1. /\ Append(q, x) \in Seq(S) /\ Len(Append(q, x)) = Len(q) + 1 /\ Len(q) \in Nat
      /\ \A i \in 1..Len(q) : Append(q, x)[i] = q[i]
      /\ Append(q, x)[Len(q) + 1] = x
  BY AppendProperties, LenProperties
<1>2. \A i \in 1..(Len(q) + 1) : i \in 1..Len(q) \/ i = Len(q) + 1
  BY <1>1
<1>3. Elems(Append(q, x)) = Elems(q) \cup {x}
  BY <1>1, <1>2 DEF Elems
<1>4. ASSUME Distinct(q), x \notin Elems(q) PROVE Distinct(Append(q, x))
  BY <1>1, <1>2, <1>4 DEF Elems, Distinct
<1>5. ASSUME NEW y, NEW z, Before(Append(q, x), y, z)
      PROVE  Before(q, y, z) \/ (z = x /\ y \in Elems(q))
  <2>1. PICK i, j \in 1..(Len(q) + 1) : i < j /\ Append(q, x)[i] = y /\ Append(q, x)[j] = z
    BY <1>1, <1>5 DEF Before
  <2>2. i \in 1..Len(q) /\ q[i] = y
    BY <1>1, <2>1
  <2> QED
    BY <1>1, <1>2, <2>1, <2>2 DEF Before, Elems
<1> QED
  BY <1>1, <1>3, <1>4, <1>5

\* Taking the head of a queue that holds nothing twice takes it out.
LEMMA TailElems ==
  ASSUME NEW S, NEW q \in Seq(S), q # <<>>, Distinct(q)
  PROVE  /\ Head(q) \in S /\ Tail(q) \in Seq(S) /\ Head(q) \in Elems(q)
         /\ Elems(Tail(q)) = Elems(q) \ {Head(q)}
         /\ Distinct(Tail(q))
         /\ \A y, z : Before(Tail(q), y, z) => Before(q, y, z)
         /\ \A z \in Elems(q) : z # Head(q) => Before(q, Head(q), z)
<1>1. /\ Head(q) \in S /\ Tail(q) \in Seq(S) /\ Len(Tail(q)) = Len(q) - 1 /\ Head(q) = q[1]
      /\ Len(q) \in Nat /\ Len(q) >= 1
      /\ \A i \in 1..Len(Tail(q)) : Tail(q)[i] = q[i + 1]
  BY HeadTailProperties, EmptySeq, LenProperties
<1>2. /\ \A i \in 1..Len(Tail(q)) : i + 1 \in 1..Len(q) /\ i + 1 # 1
      /\ \A i \in 1..Len(q) : i = 1 \/ (i - 1 \in 1..Len(Tail(q)) /\ (i - 1) + 1 = i)
      /\ 1 \in 1..Len(q)
  BY <1>1
<1>3. Elems(Tail(q)) = Elems(q) \ {Head(q)}
  <2>1. ASSUME NEW z \in Elems(Tail(q)) PROVE z \in Elems(q) \ {Head(q)}
    BY <1>1, <1>2, <2>1 DEF Elems, Distinct
  <2>2. ASSUME NEW z \in Elems(q), z # Head(q) PROVE z \in Elems(Tail(q))
    <3>1. PICK i \in 1..Len(q) : q[i] = z
      BY <2>2 DEF Elems
    <3>2. i - 1 \in 1..Len(Tail(q)) /\ Tail(q)[i - 1] = z
      BY <1>1, <1>2, <2>2, <3>1
    <3> QED
      BY <3>2 DEF Elems
  <2> QED
    BY <2>1, <2>2
<1>4. Distinct(Tail(q))
  BY <1>1, <1>2 DEF Distinct
<1>5. ASSUME NEW y, NEW z, Before(Tail(q), y, z) PROVE Before(q, y, z)
  <2>1. PICK i, j \in 1..Len(Tail(q)) : i < j /\ Tail(q)[i] = y /\ Tail(q)[j] = z
    BY <1>5 DEF Before
  <2> QED
    BY <1>1, <1>2, <2>1 DEF Before
<1>6. ASSUME NEW z \in Elems(q), z # Head(q) PROVE Before(q, Head(q), z)
  <2>1. PICK i \in 1..Len(q) : q[i] = z
    BY DEF Elems
  <2> QED
    BY <1>1, <1>2, <1>6, <2>1 DEF Before
<1>7. Head(q) \in Elems(q)
  BY <1>1, <1>2 DEF Elems
<1> QED
  BY <1>1, <1>3, <1>4, <1>5, <1>6, <1>7

\* x is in q at most once.
Once(q, x) == \A i, j \in 1..Len(q) : q[i] = x /\ q[j] = x => i = j

\* Taking the head leaves the rest, in its order, also where frames repeat; a frame
\* that is there once is gone once it is taken.
LEMMA TailRest ==
  ASSUME NEW S, NEW q \in Seq(S), q # <<>>
  PROVE  /\ Head(q) \in S /\ Tail(q) \in Seq(S)
         /\ Elems(q) = Elems(Tail(q)) \cup {Head(q)}
         /\ \A x : Once(q, x) => Once(Tail(q), x) /\ (x = Head(q) => x \notin Elems(Tail(q)))
         /\ \A y, z : Before(Tail(q), y, z) => Before(q, y, z)
         /\ \A z \in Elems(Tail(q)) : Before(q, Head(q), z)
<1>1. /\ Head(q) \in S /\ Tail(q) \in Seq(S) /\ Len(Tail(q)) = Len(q) - 1 /\ Head(q) = q[1]
      /\ Len(q) \in Nat /\ Len(q) >= 1
      /\ \A i \in 1..Len(Tail(q)) : Tail(q)[i] = q[i + 1]
  BY HeadTailProperties, EmptySeq, LenProperties
<1>2. /\ \A i \in 1..Len(Tail(q)) : i + 1 \in 1..Len(q) /\ i + 1 # 1
      /\ \A i \in 1..Len(q) : i = 1 \/ (i - 1 \in 1..Len(Tail(q)) /\ (i - 1) + 1 = i)
      /\ 1 \in 1..Len(q)
  BY <1>1
<1>3. Elems(q) = Elems(Tail(q)) \cup {Head(q)}
  <2>1. ASSUME NEW z \in Elems(Tail(q)) PROVE z \in Elems(q)
    BY <1>1, <1>2, <2>1 DEF Elems
  <2>2. ASSUME NEW z \in Elems(q), z # Head(q) PROVE z \in Elems(Tail(q))
    <3>1. PICK i \in 1..Len(q) : q[i] = z
      BY <2>2 DEF Elems
    <3>2. i - 1 \in 1..Len(Tail(q)) /\ Tail(q)[i - 1] = z
      BY <1>1, <1>2, <2>2, <3>1
    <3> QED
      BY <3>2 DEF Elems
  <2>3. Head(q) \in Elems(q)
    BY <1>1, <1>2 DEF Elems
  <2> QED
    BY <2>1, <2>2, <2>3
<1>4. ASSUME NEW x, Once(q, x) PROVE Once(Tail(q), x)
  BY <1>1, <1>2, <1>4 DEF Once
<1>5. Once(q, Head(q)) => Head(q) \notin Elems(Tail(q))
  BY <1>1, <1>2 DEF Once, Elems
<1>6. ASSUME NEW y, NEW z, Before(Tail(q), y, z) PROVE Before(q, y, z)
  <2>1. PICK i, j \in 1..Len(Tail(q)) : i < j /\ Tail(q)[i] = y /\ Tail(q)[j] = z
    BY <1>6 DEF Before
  <2> QED
    BY <1>1, <1>2, <2>1 DEF Before
<1>7. ASSUME NEW z \in Elems(Tail(q)) PROVE Before(q, Head(q), z)
  <2>1. PICK i \in 1..Len(Tail(q)) : Tail(q)[i] = z
    BY DEF Elems
  <2> QED
    BY <1>1, <1>2, <2>1 DEF Before
<1> QED
  BY <1>1, <1>3, <1>4, <1>5, <1>6, <1>7

\* A frame joins the queue: the others are there as often as before.
LEMMA AppendOnce ==
  ASSUME NEW S, NEW q \in Seq(S), NEW x \in S, NEW y, Once(q, y), x # y \/ y \notin Elems(q)
  PROVE  Once(Append(q, x), y)
<1>1. /\ Len(Append(q, x)) = Len(q) + 1 /\ Len(q) \in Nat /\ Append(q, x)[Len(q) + 1] = x
      /\ \A i \in 1..Len(q) : Append(q, x)[i] = q[i]
  BY AppendProperties, LenProperties
<1>2. \A i \in 1..(Len(q) + 1) : i \in 1..Len(q) \/ i = Len(q) + 1
  BY <1>1
<1> QED
  BY <1>1, <1>2 DEF Once, Elems

\* An empty queue holds nothing.
LEMMA EmptyElems == Elems(<<>>) = {} /\ Distinct(<<>>) /\ \A y, z : ~Before(<<>>, y, z)
  BY EmptySeq DEF Elems, Distinct, Before

\* Taking the head leaves only what was there.
LEMMA TailSubset ==
  ASSUME NEW S, NEW q \in Seq(S), q # <<>>
  PROVE  Head(q) \in Elems(q) /\ Elems(Tail(q)) \subseteq Elems(q)
<1>1. /\ Len(Tail(q)) = Len(q) - 1 /\ Head(q) = q[1] /\ Len(q) \in Nat /\ Len(q) >= 1
      /\ \A i \in 1..Len(Tail(q)) : Tail(q)[i] = q[i + 1]
  BY HeadTailProperties, EmptySeq, LenProperties
<1>2. 1 \in 1..Len(q) /\ \A i \in 1..Len(Tail(q)) : i + 1 \in 1..Len(q)
  BY <1>1
<1> QED
  BY <1>1, <1>2 DEF Elems

\* What a queue of S holds is in S.
LEMMA ElemsType ==
  ASSUME NEW S, NEW q \in Seq(S) PROVE Elems(q) \subseteq S
  BY ElementOfSeq DEF Elems
=============================================================================
