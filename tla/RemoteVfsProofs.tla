-------------------------- MODULE RemoteVfsProofs ---------------------------
(***************************************************************************)
(* Theorems about RemoteVfs, for every tree of paths, every set of tasks   *)
(* and contents: types; answers are fresh while their generation stands;   *)
(* for one task, the cache agrees with the host.                           *)
(***************************************************************************)
EXTENDS RemoteVfs, SequenceTheorems, TLAPS

-----------------------------------------------------------------------------
(* Paths *)

\* A path is a sequence of components.
Path == Seq(STRING)

\* The paths of the model are paths.
LEMMA PathsType == \A p \in Paths : p \in Path /\ Len(p) \in Nat
  BY VfsAssumption, LenProperties DEF Path

\* The part of a path between two positions.
LEMMA PartOf ==
  ASSUME NEW p \in Path, NEW m \in Nat \ {0}, NEW n \in Nat, n <= Len(p)
  PROVE  /\ SubSeq(p, m, n) \in Path
         /\ Len(SubSeq(p, m, n)) = IF m <= n THEN n - m + 1 ELSE 0
         /\ \A i \in 1..(n - m + 1) : SubSeq(p, m, n)[i] = p[m + i - 1]
<1>1. Len(p) \in Nat /\ \A i \in 1..Len(p) : p[i] \in STRING
  BY LenProperties, ElementOfSeq DEF Path
<1>2. \A i \in m..n : p[i] \in STRING
  BY <1>1
<1> QED
  BY <1>2, SubSeqProperties DEF Path

\* A path without its last component.
LEMMA ParentOf ==
  ASSUME NEW p \in Path, p # Root
  PROVE  /\ Len(p) \in Nat \ {0} /\ Parent(p) \in Path /\ Len(Parent(p)) = Len(p) - 1
         /\ \A i \in 1..(Len(p) - 1) : Parent(p)[i] = p[i]
<1>1. Len(p) \in Nat \ {0}
  BY EmptySeq DEF Path, Root
<1>2. Parent(p) = SubSeq(p, 1, Len(p) - 1)
  BY DEF Parent
<1>3. 1 \in Nat \ {0} /\ Len(p) - 1 \in Nat /\ Len(p) - 1 <= Len(p)
  BY <1>1
<1>4. /\ SubSeq(p, 1, Len(p) - 1) \in Path
      /\ Len(SubSeq(p, 1, Len(p) - 1)) = IF 1 <= Len(p) - 1 THEN (Len(p) - 1) - 1 + 1 ELSE 0
      /\ \A i \in 1..((Len(p) - 1) - 1 + 1) : SubSeq(p, 1, Len(p) - 1)[i] = p[1 + i - 1]
  BY <1>3, PartOf
<1>5. Len(Parent(p)) = Len(p) - 1
  <2>1. Len(Parent(p)) = IF 1 <= Len(p) - 1 THEN (Len(p) - 1) - 1 + 1 ELSE 0
    BY <1>2, <1>4
  <2>2. \A n \in Nat \ {0} : (IF 1 <= n - 1 THEN (n - 1) - 1 + 1 ELSE 0) = n - 1
    OBVIOUS
  <2> QED
    BY <1>1, <2>1, <2>2
<1>6. ASSUME NEW i \in 1..(Len(p) - 1) PROVE Parent(p)[i] = p[i]
  <2>1. i \in 1..((Len(p) - 1) - 1 + 1) /\ 1 + i - 1 = i
    BY <1>1
  <2> QED
    BY <1>2, <1>4, <2>1
<1> QED
  BY <1>1, <1>2, <1>4, <1>5, <1>6

\* A path is given by its components.
LEMMA SamePath ==
  ASSUME NEW p \in Path, NEW q \in Path, Len(p) = Len(q), \A i \in 1..Len(p) : p[i] = q[i]
  PROVE  p = q
  BY SeqEqual DEF Path

\* To be under a path is to begin like it.
LEMMA UnderMeans ==
  ASSUME NEW p \in Path, NEW q \in Path
  PROVE  Under(p, q) <=> Len(p) <= Len(q) /\ \A i \in 1..Len(p) : p[i] = q[i]
<1>1. Len(p) \in Nat /\ Len(q) \in Nat
  BY LenProperties DEF Path
<1> SUFFICES ASSUME Len(p) <= Len(q)
             PROVE  SubSeq(q, 1, Len(p)) = p <=> \A i \in 1..Len(p) : p[i] = q[i]
  BY DEF Under
<1> DEFINE s == SubSeq(q, 1, Len(p))
<1>2. s \in Path /\ Len(s) = Len(p) /\ \A i \in 1..Len(p) : s[i] = q[i]
  <2>1. /\ s \in Path /\ Len(s) = IF 1 <= Len(p) THEN Len(p) - 1 + 1 ELSE 0
        /\ \A i \in 1..(Len(p) - 1 + 1) : s[i] = q[1 + i - 1]
    BY <1>1, PartOf
  <2>2. ASSUME NEW i \in 1..Len(p) PROVE s[i] = q[i]
    <3>1. i \in 1..(Len(p) - 1 + 1) /\ 1 + i - 1 = i
      BY <1>1
    <3> HIDE DEF s
    <3> QED
      BY <2>1, <3>1
  <2> HIDE DEF s
  <2> QED
    BY <1>1, <2>1, <2>2
<1> HIDE DEF s
<1>3. (\A i \in 1..Len(p) : p[i] = q[i]) => s = p
  BY <1>1, <1>2, SamePath
<1> QED
  BY <1>2, <1>3 DEF s

\* Parent and name make the path.
LEMMA ParentAndName ==
  ASSUME NEW p \in Path, NEW q \in Path, p # Root, q # Root, Parent(p) = Parent(q), Name(p) = Name(q)
  PROVE  p = q
<1>1. /\ Len(p) \in Nat \ {0} /\ Len(q) \in Nat \ {0}
      /\ Len(Parent(p)) = Len(p) - 1 /\ Len(Parent(q)) = Len(q) - 1
      /\ \A i \in 1..(Len(p) - 1) : Parent(p)[i] = p[i]
      /\ \A i \in 1..(Len(q) - 1) : Parent(q)[i] = q[i]
  BY ParentOf
<1>2. Len(p) = Len(q)
  BY <1>1
<1>3. ASSUME NEW i \in 1..Len(p) PROVE p[i] = q[i]
  <2>1. CASE i = Len(p)
    BY <1>2, <2>1 DEF Name
  <2>2. CASE i # Len(p)
    <3>1. i \in 1..(Len(p) - 1) /\ i \in 1..(Len(q) - 1)
      BY <1>1, <1>2, <2>2
    <3> QED
      BY <1>1, <3>1
  <2> QED
    BY <2>1, <2>2
<1> QED
  BY <1>2, <1>3, SamePath

\* Whatever is under a path, and is not the path, has its parent under it.
LEMMA UnderParent ==
  ASSUME NEW p \in Path, NEW q \in Path, Under(p, q), q # p
  PROVE  q # Root /\ Len(q) > Len(p) /\ Under(p, Parent(q))
<1>1. Len(p) \in Nat /\ Len(q) \in Nat
  BY LenProperties DEF Path
<1>2. Len(p) <= Len(q) /\ \A i \in 1..Len(p) : p[i] = q[i]
  BY UnderMeans
<1>3. Len(p) # Len(q)
  BY <1>2, SamePath
<1>4. q # Root
  BY <1>1, <1>2, <1>3, EmptySeq DEF Root
<1>5. /\ Parent(q) \in Path /\ Len(Parent(q)) = Len(q) - 1
      /\ \A i \in 1..(Len(q) - 1) : Parent(q)[i] = q[i]
  BY <1>4, ParentOf
<1>6. Len(p) <= Len(Parent(q)) /\ \A i \in 1..Len(p) : p[i] = Parent(q)[i]
  BY <1>1, <1>2, <1>3, <1>5
<1> QED
  BY <1>1, <1>2, <1>3, <1>4, <1>5, <1>6, UnderMeans

\* What has its parent under a path is under it, and longer.
LEMMA ParentUnder ==
  ASSUME NEW p \in Path, NEW q \in Path, q # Root, Under(p, Parent(q))
  PROVE  Under(p, q) /\ Len(q) > Len(p)
<1>1. Len(p) \in Nat
  BY LenProperties DEF Path
<1>2. /\ Len(q) \in Nat \ {0} /\ Parent(q) \in Path /\ Len(Parent(q)) = Len(q) - 1
      /\ \A i \in 1..(Len(q) - 1) : Parent(q)[i] = q[i]
  BY ParentOf
<1>3. Len(p) <= Len(q) - 1 /\ \A i \in 1..Len(p) : p[i] = Parent(q)[i]
  BY <1>2, UnderMeans
<1>4. Len(p) <= Len(q) /\ Len(q) > Len(p) /\ \A i \in 1..Len(p) : p[i] = q[i]
  BY <1>1, <1>2, <1>3
<1> QED
  BY <1>4, UnderMeans

\* A moved path: the new directory, then what it had below the old one.
LEMMA MovedMeans ==
  ASSUME NEW q \in Path, NEW from \in Path, NEW to \in Path, Len(from) <= Len(q)
  PROVE  /\ Moved(q, from, to) \in Path
         /\ Len(Moved(q, from, to)) = Len(to) + (Len(q) - Len(from))
         /\ \A i \in 1..Len(to) : Moved(q, from, to)[i] = to[i]
         /\ \A i \in 1..(Len(q) - Len(from)) : Moved(q, from, to)[Len(to) + i] = q[Len(from) + i]
<1>1. Len(q) \in Nat /\ Len(from) \in Nat /\ Len(to) \in Nat
  BY LenProperties DEF Path
<1> DEFINE s == SubSeq(q, Len(from) + 1, Len(q))
           n == Len(q) - Len(from)
<1>2. n \in Nat
  BY <1>1
<1>3. s \in Path /\ Len(s) = n /\ \A i \in 1..n : s[i] = q[Len(from) + i]
  <2>1. Len(from) + 1 \in Nat \ {0} /\ Len(q) <= Len(q)
    BY <1>1
  <2>2. /\ s \in Path
        /\ Len(s) = IF Len(from) + 1 <= Len(q) THEN Len(q) - (Len(from) + 1) + 1 ELSE 0
        /\ \A i \in 1..(Len(q) - (Len(from) + 1) + 1) : s[i] = q[(Len(from) + 1) + i - 1]
    BY <1>1, <2>1, PartOf
  <2>3. ASSUME NEW i \in 1..n PROVE s[i] = q[Len(from) + i]
    <3>1. i \in 1..(Len(q) - (Len(from) + 1) + 1) /\ (Len(from) + 1) + i - 1 = Len(from) + i
      BY <1>1
    <3> HIDE DEF s
    <3> QED
      BY <2>2, <3>1
  <2>4. Len(s) = n
    <3> HIDE DEF s
    <3> QED
      BY <1>1, <2>2
  <2> QED
    BY <2>2, <2>3, <2>4
<1> HIDE DEF s
<1>4. Moved(q, from, to) = to \o s
  BY DEF Moved, s
<1>5. /\ to \o s \in Path /\ Len(to \o s) = Len(to) + n
      /\ \A i \in 1..(Len(to) + n) : (to \o s)[i] = IF i <= Len(to) THEN to[i] ELSE s[i - Len(to)]
  <2>1. /\ to \o s \in Path /\ Len(to \o s) = Len(to) + Len(s)
        /\ \A i \in 1..(Len(to) + Len(s)) : (to \o s)[i] = IF i <= Len(to) THEN to[i] ELSE s[i - Len(to)]
    BY <1>3, ConcatProperties DEF Path
  <2>2. Len(s) = n
    BY <1>3
  <2> HIDE DEF n
  <2> QED
    BY <2>1, <2>2
<1>6. ASSUME NEW i \in 1..Len(to) PROVE (to \o s)[i] = to[i]
  <2>1. i \in 1..(Len(to) + n) /\ i <= Len(to)
    BY <1>1, <1>2
  <2> QED
    BY <1>5, <2>1
<1>7. ASSUME NEW i \in 1..n PROVE (to \o s)[Len(to) + i] = q[Len(from) + i]
  <2>1. Len(to) + i \in 1..(Len(to) + n) /\ ~(Len(to) + i <= Len(to)) /\ (Len(to) + i) - Len(to) = i
    BY <1>1, <1>2
  <2> QED
    BY <1>3, <1>5, <2>1
<1> QED
  BY <1>4, <1>5, <1>6, <1>7

\* A moved path is under the new directory, and moves back.
LEMMA MovedBack ==
  ASSUME NEW q \in Path, NEW from \in Path, NEW to \in Path, Under(from, q)
  PROVE  /\ Moved(q, from, to) \in Path /\ Under(to, Moved(q, from, to))
         /\ Moved(Moved(q, from, to), to, from) = q
<1> DEFINE m == Moved(q, from, to)
           b == Moved(m, to, from)
           n == Len(q) - Len(from)
<1>1. Len(q) \in Nat /\ Len(from) \in Nat /\ Len(to) \in Nat
  BY LenProperties DEF Path
<1>2. Len(from) <= Len(q) /\ \A i \in 1..Len(from) : from[i] = q[i]
  BY UnderMeans
<1>3. /\ m \in Path /\ Len(m) = Len(to) + n /\ \A i \in 1..Len(to) : m[i] = to[i]
      /\ \A i \in 1..n : m[Len(to) + i] = q[Len(from) + i]
  BY <1>2, MovedMeans, ZenonT(60)
<1> HIDE DEF m
<1>4. Len(to) <= Len(m)
  BY <1>1, <1>2, <1>3
<1>5. Under(to, m)
  BY <1>3, <1>4, UnderMeans
<1>6. /\ b \in Path /\ Len(b) = Len(from) + (Len(m) - Len(to)) /\ \A i \in 1..Len(from) : b[i] = from[i]
      /\ \A i \in 1..(Len(m) - Len(to)) : b[Len(from) + i] = m[Len(to) + i]
  <2>1. m \in Path /\ Len(to) <= Len(m)
    BY <1>3, <1>4
  <2> QED
    BY <2>1, MovedMeans, ZenonT(60)
<1> HIDE DEF b
<1>7. Len(b) = Len(q)
  BY <1>1, <1>2, <1>3, <1>6
<1>8. ASSUME NEW i \in 1..Len(b) PROVE b[i] = q[i]
  <2>1. CASE i <= Len(from)
    <3>1. i \in 1..Len(from)
      BY <1>1, <2>1
    <3> QED
      BY <1>2, <1>6, <3>1
  <2>2. CASE ~(i <= Len(from))
    <3>1. i - Len(from) \in 1..n /\ i - Len(from) \in 1..(Len(m) - Len(to)) /\ Len(from) + (i - Len(from)) = i
      BY <1>1, <1>2, <1>3, <1>7, <2>2
    <3>2. b[i] = m[Len(to) + (i - Len(from))] /\ m[Len(to) + (i - Len(from))] = q[i]
      BY <1>3, <1>6, <3>1
    <3> QED
      BY <3>2
  <2> QED
    BY <2>1, <2>2
<1>9. b = q
  BY <1>6, <1>7, <1>8, SamePath
<1> QED
  BY <1>3, <1>5, <1>9 DEF m, b

\* Moving keeps names and takes parents along.
LEMMA MovedParent ==
  ASSUME NEW q \in Path, NEW from \in Path, NEW to \in Path, q # Root, Under(from, Parent(q))
  PROVE  /\ Moved(q, from, to) # Root /\ Name(Moved(q, from, to)) = Name(q)
         /\ Parent(Moved(q, from, to)) = Moved(Parent(q), from, to)
<1> DEFINE m == Moved(q, from, to)
           r == Moved(Parent(q), from, to)
           n == Len(q) - Len(from)
<1>1. Len(q) \in Nat \ {0} /\ Len(from) \in Nat /\ Len(to) \in Nat
  BY LenProperties, ParentOf DEF Path
<1>2. Len(q) > Len(from)
  BY ParentUnder
<1>3. /\ Parent(q) \in Path /\ Len(Parent(q)) = Len(q) - 1
      /\ \A i \in 1..(Len(q) - 1) : Parent(q)[i] = q[i]
  BY ParentOf
<1>4. n \in Nat \ {0} /\ Len(from) <= Len(q) /\ Len(from) <= Len(Parent(q))
  BY <1>1, <1>2, <1>3
<1>5. /\ m \in Path /\ Len(m) = Len(to) + n /\ \A i \in 1..Len(to) : m[i] = to[i]
      /\ \A i \in 1..n : m[Len(to) + i] = q[Len(from) + i]
  BY <1>4, MovedMeans, ZenonT(60)
<1>6. /\ r \in Path /\ Len(r) = Len(to) + (Len(Parent(q)) - Len(from)) /\ \A i \in 1..Len(to) : r[i] = to[i]
      /\ \A i \in 1..(Len(Parent(q)) - Len(from)) : r[Len(to) + i] = Parent(q)[Len(from) + i]
  <2>1. Parent(q) \in Path /\ Len(from) <= Len(Parent(q))
    BY <1>3, <1>4
  <2> QED
    BY <2>1, MovedMeans, ZenonT(60)
<1> HIDE DEF m, r
<1>7. m # Root
  BY <1>1, <1>4, <1>5, EmptySeq DEF Root
<1>8. Name(m) = Name(q)
  <2>1. n \in 1..n /\ Len(from) + n = Len(q)
    BY <1>1, <1>4
  <2> QED
    BY <1>5, <2>1 DEF Name
<1>9. /\ Parent(m) \in Path /\ Len(Parent(m)) = Len(m) - 1
      /\ \A i \in 1..(Len(m) - 1) : Parent(m)[i] = m[i]
  BY <1>5, <1>7, ParentOf
<1>10. Len(Parent(m)) = Len(r)
  BY <1>1, <1>3, <1>4, <1>5, <1>6, <1>9
<1>11. ASSUME NEW i \in 1..Len(r) PROVE Parent(m)[i] = r[i]
  <2>1. i \in 1..(Len(m) - 1) /\ Parent(m)[i] = m[i]
    BY <1>1, <1>4, <1>5, <1>9, <1>10
  <2>2. CASE i <= Len(to)
    <3>1. i \in 1..Len(to)
      BY <1>1, <2>2
    <3> QED
      BY <1>5, <1>6, <2>1, <3>1
  <2>3. CASE ~(i <= Len(to))
    <3> DEFINE j == i - Len(to)
    <3>1. j \in 1..n /\ j \in 1..(Len(Parent(q)) - Len(from)) /\ Len(to) + j = i /\ Len(from) + j \in 1..(Len(q) - 1)
      BY <1>1, <1>3, <1>4, <1>6, <2>3
    <3> HIDE DEF j
    <3>2. m[i] = q[Len(from) + j] /\ r[i] = Parent(q)[Len(from) + j] /\ Parent(q)[Len(from) + j] = q[Len(from) + j]
      BY <1>3, <1>5, <1>6, <3>1
    <3> QED
      BY <2>1, <3>2
  <2> QED
    BY <2>2, <2>3
<1>12. Parent(m) = r
  BY <1>6, <1>9, <1>10, <1>11, SamePath
<1> QED
  BY <1>7, <1>8, <1>12 DEF m, r

-----------------------------------------------------------------------------
(* Types *)

Requests == [op : AllOps, path : Paths, to : Paths, hint : Answers, toHint : Answers]
Responses == [answer : Answers, stat : Answers, invalidate : BOOLEAN]

\* Errors, and what names a node, are answers.
LEMMA AnswerTypes ==
  /\ \A code \in ErrorCodes : Err(code) \in Answers
  /\ \A n \in Nodes : Found(n) \in Answers
  /\ NoAnswer \in Answers /\ Answer("none", {}) \in Answers
<1> DEFINE Values == ({""} \cup {Name(p) : p \in Paths \ {Root}}) \X Nodes
<1>1. \A code \in ErrorCodes \cup {"none", "unknown"}, value \in SUBSET Values : Answer(code, value) \in Answers
  BY DEF Answer, Answers
<1>2. {} \in SUBSET Values /\ \A n \in Nodes : {<<"", n>>} \in SUBSET Values
  <2> DEFINE Names == {""} \cup {Name(p) : p \in Paths \ {Root}}
  <2>1. "" \in Names
    OBVIOUS
  <2> HIDE DEF Names
  <2>2. \A n \in Nodes : <<"", n>> \in Names \X Nodes
    BY <2>1
  <2>3. Values = Names \X Nodes
    BY DEF Names
  <2> HIDE DEF Values
  <2> QED
    BY <2>2, <2>3
<1> HIDE DEF Values
<1> QED
  BY <1>1, <1>2 DEF Err, Found, NoAnswer

\* Nothing, directories and files with contents are nodes.
LEMMA NodeTypes == Absent \in Nodes /\ Dir \in Nodes /\ \A v \in Versions : File(v) \in Nodes
  BY DEF Nodes

\* What the host says of a path is an answer.
LEMMA HostTypes ==
  ASSUME node \in [Paths -> Nodes]
  PROVE  /\ \A p \in Paths : HostStat(p) \in Answers
         /\ \A k \in Keys : HostAnswer(k) \in Answers
<1>1. {"NotFound", "PermissionDenied", "IsDirectory", "NotDirectory"} \subseteq ErrorCodes
  BY DEF ErrorCodes
<1>2. \A p \in Paths : HostStat(p) \in Answers
  BY <1>1, AnswerTypes DEF HostStat
<1>3. ASSUME NEW p \in Paths
      PROVE  Answer("none", {<<Name(q), node[q]>> : q \in Children(p)}) \in Answers
  <2>1. \A q \in Children(p) : q \in Paths \ {Root}
    BY DEF Children
  <2> DEFINE Names == {Name(q) : q \in Paths \ {Root}}
  <2>3. \A q \in Children(p) : Name(q) \in Names /\ node[q] \in Nodes
    BY <2>1
  <2> HIDE DEF Names
  <2>4. \A q \in Children(p) : <<Name(q), node[q]>> \in ({""} \cup Names) \X Nodes
    BY <2>3
  <2>2. {<<Name(q), node[q]>> : q \in Children(p)} \subseteq ({""} \cup {Name(q) : q \in Paths \ {Root}}) \X Nodes
    BY <2>4 DEF Names
  <2> QED
    BY <2>2 DEF Answer, Answers
<1>4. ASSUME NEW k \in Keys PROVE HostAnswer(k) \in Answers
  <2>1. k[2] \in Paths /\ node[k[2]] \in Nodes
    BY DEF Keys
  <2> QED
    BY <1>1, <1>2, <1>3, <2>1, AnswerTypes DEF HostAnswer
<1> QED
  BY <1>2, <1>4

\* The idle cache and its requests.
LEMMA NothingTyped == NoRequest \in Requests /\ NoResponse \in Responses
  BY AnswerTypes, VfsAssumption DEF NoRequest, NoResponse, Requests, Responses, AllOps, Reads

\* What is inserted are answers.
LEMMA InsertedType ==
  ASSUME NEW c \in [Keys -> Answers], NEW r \in Requests, NEW s \in Responses
  PROVE  Inserted(c, r, s) \in [Keys -> Answers]
<1>1. s.answer \in Answers /\ s.stat \in Answers
  BY DEF Responses
<1>2. ASSUME NEW name, \E x \in s.answer.value : x[1] = name
      PROVE  Found((CHOOSE x \in s.answer.value : x[1] = name)[2]) \in Answers
  <2>1. PICK x : x = (CHOOSE y \in s.answer.value : y[1] = name)
    OBVIOUS
  <2>2. x \in s.answer.value
    BY <1>2, <2>1
  <2>3. s.answer.value \subseteq ({""} \cup {Name(p) : p \in Paths \ {Root}}) \X Nodes
    BY <1>1 DEF Answers
  <2>4. x[2] \in Nodes
    BY <2>2, <2>3
  <2> QED
    BY <2>1, <2>4, AnswerTypes
<1> DEFINE Entry(k) == IF IsRead(r) /\ k = KeyOf(r) /\ Cacheable(s.answer) THEN s.answer
     ELSE IF r.op = "list" /\ k[1] = "stat" /\ k[2] # Root /\ Parent(k[2]) = r.path
             /\ \E x \in s.answer.value : x[1] = Name(k[2])
       THEN Found((CHOOSE x \in s.answer.value : x[1] = Name(k[2]))[2])
     ELSE IF k = <<"stat", r.path>> /\ Known(s.stat) /\ Cacheable(s.stat) THEN s.stat
     ELSE c[k]
<1>3. \A k \in Keys : Entry(k) \in Answers
  BY <1>1, <1>2
<1>4. Inserted(c, r, s) = [k \in Keys |-> Entry(k)]
  BY DEF Inserted
<1> HIDE DEF Entry
<1> QED
  BY <1>3, <1>4

\* What is left of the cache are answers.
LEMMA RenamedType ==
  ASSUME NEW c \in [Keys -> Answers], NEW from \in Paths, NEW to \in Paths
  PROVE  /\ Invalidated(c, from) \in [Keys -> Answers]
         /\ RenamedCache(c, from, to) \in [Keys -> Answers]
<1>1. Invalidated(c, from) \in [Keys -> Answers]
  BY AnswerTypes DEF Invalidated
<1>2. \A k \in Keys : Moved(k[2], to, from) \in Paths => c[<<k[1], Moved(k[2], to, from)>>] \in Answers
  BY DEF Keys
<1>3. RenamedCache(c, from, to) \in [Keys -> Answers]
  BY <1>2, AnswerTypes DEF RenamedCache
<1> QED
  BY <1>1, <1>3

-----------------------------------------------------------------------------
(* What the host may do with a request. *)

\* An outcome: a failure, a read or a mutation that changed something, with what the
\* response says of it.
Proper(r, st, o) ==
  /\ o.node \in [Paths -> Nodes] /\ o.response \in Responses
  /\ \/ /\ o.node = node /\ ~o.response.invalidate
        /\ o.response.stat \in {st, NoAnswer}
        /\ IsRead(r) => \/ o.response.answer.err # "none"
                        \/ o.response.answer = HostAnswer(KeyOf(r))
     \/ /\ o.response.invalidate /\ ~IsRead(r) /\ r.op # "rename"
        /\ \A p \in Paths : p # r.path => o.node[p] = node[p]
     \/ /\ r.op = "rename" /\ "rename" \in Methods /\ o.response.invalidate
        /\ o.node = RenamedNodes(r.path, r.to)
        /\ \A p \in Paths : Under(r.path, p) /\ node[p] # Absent => Moved(p, r.path, r.to) \in Paths
     \/ r.op = "rename" /\ "rename" \notin Methods

\* A failure has the code of one, or of a stat that was never made.
Reported == ErrorCodes \cup {"unknown"}

\* A failure is proper.
LEMMA FailureProper ==
  ASSUME TypeOK, NEW r \in Requests, NEW st \in Answers, NEW code \in Reported
  PROVE  Proper(r, st, Failure(code, st))
<1>1. Failure(code, st).node = node /\ Failure(code, st).response = [answer |-> Err(code), stat |-> st, invalidate |-> FALSE]
  BY DEF Failure, Outcome
<1>2. Err(code).err = code /\ code # "none" /\ Err(code) \in Answers
  BY AnswerTypes DEF Err, Answer, ErrorCodes, Reported, NoAnswer
<1>3. Failure(code, st).response \in Responses
  BY <1>1, <1>2 DEF Responses
<1>4. node \in [Paths -> Nodes]
  BY DEF TypeOK
<1> QED
  BY <1>1, <1>2, <1>3, <1>4 DEF Proper

\* So is a read.
LEMMA AnswerProper ==
  ASSUME TypeOK, NEW r \in Requests, IsRead(r), NEW st \in Answers
  PROVE  Proper(r, st, Outcome(node, HostAnswer(KeyOf(r)), st, FALSE))
<1> DEFINE o == Outcome(node, HostAnswer(KeyOf(r)), st, FALSE)
<1>1. o.node = node /\ o.response = [answer |-> HostAnswer(KeyOf(r)), stat |-> st, invalidate |-> FALSE]
  BY DEF Outcome
<1>2. KeyOf(r) \in Keys
  BY DEF Requests, KeyOf, Keys, IsRead
<1>3. node \in [Paths -> Nodes] /\ HostAnswer(KeyOf(r)) \in Answers
  BY <1>2, HostTypes DEF TypeOK
<1> HIDE DEF o
<1>4. o.response \in Responses
  BY <1>1, <1>3 DEF Responses
<1>5. ~o.response.invalidate /\ o.response.stat = st /\ o.response.answer = HostAnswer(KeyOf(r))
  BY <1>1
<1>6. Proper(r, st, o)
  BY <1>1, <1>3, <1>4, <1>5 DEF Proper
<1> QED
  BY <1>6 DEF o

\* And a write, a delete or a new directory.
LEMMA ChangeProper ==
  ASSUME TypeOK, NEW r \in Requests, ~IsRead(r), r.op # "rename", NEW st \in Answers, NEW n \in Nodes
  PROVE  Proper(r, st, Changed(r.path, n))
<1> DEFINE o == Changed(r.path, n)
<1>1. /\ o.node = [node EXCEPT ![r.path] = n]
      /\ o.response = [answer |-> Answer("none", {}), stat |-> NoAnswer, invalidate |-> TRUE]
  BY DEF Changed, Outcome
<1>2. o.node \in [Paths -> Nodes] /\ \A p \in Paths : p # r.path => o.node[p] = node[p]
  <2>1. node \in [Paths -> Nodes] /\ r.path \in Paths
    BY DEF TypeOK, Requests
  <2> HIDE DEF o
  <2> QED
    BY <1>1, <2>1
<1>3. o.response \in Responses /\ o.response.invalidate
  <2> HIDE DEF o
  <2> QED
    BY <1>1, AnswerTypes DEF Responses
<1> HIDE DEF o
<1> QED
  BY <1>2, <1>3 DEF Proper, o

\* Why a parent will not do is an error the handler reports.
LEMMA ParentErrors == \A p \in Paths : ParentError(p) # "none" => ParentError(p) \in Reported
  BY DEF ParentError, ErrorCodes, Reported

\* So is the error of a stat.
LEMMA StatErrors == \A st \in Answers : st.err # "none" => st.err \in Reported
  BY DEF Answers, Reported

\* Reads answer what the host has, or fail.
LEMMA ReadProper ==
  ASSUME TypeOK, NEW r \in Requests, IsRead(r), NEW st \in Answers, NEW o \in ReadOutcomes(r, st)
  PROVE  Proper(r, st, o)
<1>1. st.err # "none" => st.err \in Reported
  BY StatErrors
<1>2. {"PermissionDenied", "IsDirectory", "NotDirectory"} \subseteq Reported
  BY DEF Reported, ErrorCodes
<1>3. \/ r.op = "stat" /\ o = Outcome(node, HostAnswer(KeyOf(r)), NoAnswer, FALSE)
      \/ r.op # "stat" /\ st.err # "none" /\ o = Failure(st.err, st)
      \/ \E code \in {"PermissionDenied", "IsDirectory", "NotDirectory"} : o = Failure(code, st)
      \/ o = Outcome(node, HostAnswer(KeyOf(r)), st, FALSE)
  BY DEF ReadOutcomes
<1>4. ASSUME o = Outcome(node, HostAnswer(KeyOf(r)), NoAnswer, FALSE) PROVE Proper(r, st, o)
  <2>1. Proper(r, NoAnswer, o)
    BY <1>4, AnswerProper, AnswerTypes
  <2> QED
    BY <2>1 DEF Proper
<1> QED
  BY <1>1, <1>2, <1>3, <1>4, FailureProper, AnswerProper

\* Writes change the file they are about, or fail.
LEMMA WriteProper ==
  ASSUME TypeOK, NEW r \in Requests, r.op \in {"write", "append", "truncate"}, NEW st \in Answers,
         NEW o \in WriteOutcomes(r, st)
  PROVE  Proper(r, st, o)
<1>1. st.err # "none" => st.err \in Reported
  BY StatErrors
<1>2. {"PermissionDenied", "IsDirectory", "NotFound"} \subseteq Reported
  BY DEF Reported, ErrorCodes
<1>3. ParentError(r.path) # "none" => ParentError(r.path) \in Reported
  BY ParentErrors DEF Requests
<1>4. ~IsRead(r) /\ r.op # "rename"
  BY DEF IsRead, Reads
<1>5. \/ \E code \in Reported : o = Failure(code, st)
      \/ \E v \in Versions : o = Changed(r.path, File(v))
  <2>1. \/ st.err # "none" /\ o = Failure(st.err, st)
        \/ \E code \in {"PermissionDenied", "IsDirectory", "NotFound"} : o = Failure(code, st)
        \/ ParentError(r.path) # "none" /\ o = Failure(ParentError(r.path), st)
        \/ \E v \in Versions : o = Changed(r.path, File(v))
    BY DEF WriteOutcomes
  <2> QED
    BY <1>1, <1>2, <1>3, <2>1
<1> QED
  BY <1>4, <1>5, FailureProper, ChangeProper, NodeTypes

\* So do deletes and new directories.
LEMMA DeleteProper ==
  ASSUME TypeOK, NEW r \in Requests, r.op \in {"unlink", "rmdir", "mkdir"}, NEW st \in Answers,
         NEW o \in DeleteOutcomes(r, st) \cup MkdirOutcomes(r, st)
  PROVE  Proper(r, st, o)
<1>1. st.err # "none" => st.err \in Reported
  BY StatErrors
<1>2. {"AlreadyExists", "IsDirectory", "NotDirectory", "NotFound", "DirectoryNotEmpty"} \subseteq Reported
  BY DEF Reported, ErrorCodes
<1>3. ParentError(r.path) # "none" => ParentError(r.path) \in Reported
  BY ParentErrors DEF Requests
<1>4. ~IsRead(r) /\ r.op # "rename"
  BY DEF IsRead, Reads
<1>5. (\E code \in Reported : o = Failure(code, st)) \/ o \in {Changed(r.path, Absent), Changed(r.path, Dir)}
  <2>1. \/ st.err # "none" /\ o = Failure(st.err, st)
        \/ \E code \in {"AlreadyExists", "IsDirectory", "NotDirectory", "NotFound", "DirectoryNotEmpty"} :
             o = Failure(code, st)
        \/ ParentError(r.path) # "none" /\ o = Failure(ParentError(r.path), st)
        \/ o \in {Changed(r.path, Absent), Changed(r.path, Dir)}
    BY DEF DeleteOutcomes, MkdirOutcomes
  <2> QED
    BY <1>1, <1>2, <1>3, <2>1
<1> QED
  BY <1>4, <1>5, FailureProper, ChangeProper, NodeTypes

\* The tree after a rename is one of nodes.
LEMMA RenamedNodesType ==
  ASSUME TypeOK, NEW from \in Paths, NEW to \in Paths
  PROVE  RenamedNodes(from, to) \in [Paths -> Nodes]
  BY NodeTypes DEF RenamedNodes, TypeOK

\* A rename without its method copies and deletes; what it leaves is a tree.
LEMMA FallbackTyped ==
  ASSUME TypeOK, NEW r \in Requests, NEW st \in Answers, NEW o \in FallbackOutcomes(r, st)
  PROVE  o.node \in [Paths -> Nodes] /\ o.response \in Responses
<1> DEFINE to == Resolved(r.to, r.toHint)
           copied == [node EXCEPT ![r.to] = node[r.path]]
<1>1. r.path \in Paths /\ r.to \in Paths /\ r.toHint \in Answers /\ node \in [Paths -> Nodes]
  BY DEF Requests, TypeOK
<1>2. to \in Answers
  BY <1>1, HostTypes DEF Resolved
<1>3. to.err # "none" => to.err \in Reported
  BY <1>2, StatErrors
<1>4. {"PermissionDenied", "IsDirectory", "NotFound"} \subseteq Reported
  BY DEF Reported, ErrorCodes
<1>5. \/ \E code \in Reported : o = Failure(code, st)
      \/ o = Outcome(copied, Err("Io"), st, FALSE)
      \/ o = Outcome([copied EXCEPT ![r.path] = Absent], Answer("none", {}), NoAnswer, TRUE)
  <2>1. \/ \E code \in {"PermissionDenied", "IsDirectory", "NotFound"} : o = Failure(code, st)
        \/ to.err # "none" /\ o = Failure(to.err, st)
        \/ o = Outcome(copied, Err("Io"), st, FALSE)
        \/ o = Outcome([copied EXCEPT ![r.path] = Absent], Answer("none", {}), NoAnswer, TRUE)
    BY DEF FallbackOutcomes
  <2> HIDE DEF to, copied
  <2> QED
    BY <1>3, <1>4, <2>1
<1>6. copied \in [Paths -> Nodes] /\ [copied EXCEPT ![r.path] = Absent] \in [Paths -> Nodes]
  BY <1>1, NodeTypes
<1>7. Err("Io") \in Answers /\ Answer("none", {}) \in Answers /\ NoAnswer \in Answers
  BY AnswerTypes DEF ErrorCodes
<1> HIDE DEF to, copied
<1>8. ASSUME NEW n \in [Paths -> Nodes], NEW a \in Answers, NEW s \in Answers, NEW b \in BOOLEAN
      PROVE  Outcome(n, a, s, b).node \in [Paths -> Nodes] /\ Outcome(n, a, s, b).response \in Responses
  BY DEF Outcome, Responses
<1>9. ASSUME NEW code \in Reported, o = Failure(code, st) PROVE o.node \in [Paths -> Nodes] /\ o.response \in Responses
  BY <1>9, FailureProper DEF Proper
<1>10. CASE o = Outcome(copied, Err("Io"), st, FALSE)
  BY <1>6, <1>7, <1>8, <1>10
<1>11. CASE o = Outcome([copied EXCEPT ![r.path] = Absent], Answer("none", {}), NoAnswer, TRUE)
  BY <1>6, <1>7, <1>8, <1>11
<1> QED
  BY <1>5, <1>9, <1>10, <1>11

\* Renames are proper.
LEMMA RenameProper ==
  ASSUME TypeOK, NEW r \in Requests, r.op = "rename", NEW st \in Answers, NEW o \in RenameOutcomes(r, st)
  PROVE  Proper(r, st, o)
<1>1. st.err # "none" => st.err \in Reported
  BY StatErrors
<1>2. {"NotFound", "AlreadyExists", "Io"} \subseteq Reported
  BY DEF Reported, ErrorCodes
<1>3. /\ ParentError(r.path) # "none" => ParentError(r.path) \in Reported
      /\ ParentError(r.to) # "none" => ParentError(r.to) \in Reported
  BY ParentErrors DEF Requests
<1> DEFINE renamed == Outcome(RenamedNodes(r.path, r.to), Answer("none", {}), NoAnswer, TRUE)
           Fits == \A p \in Paths : Under(r.path, p) /\ node[p] # Absent => Moved(p, r.path, r.to) \in Paths
<1>4. \/ \E code \in Reported : o = Failure(code, st)
      \/ o = Outcome(node, Answer("none", {}), NoAnswer, FALSE)
      \/ "rename" \in Methods /\ o = renamed /\ Fits
      \/ "rename" \notin Methods /\ o \in FallbackOutcomes(r, st)
  <2>1. \/ st.err # "none" /\ o = Failure(st.err, st)
        \/ ParentError(r.path) # "none" /\ o = Failure(ParentError(r.path), st)
        \/ ParentError(r.to) # "none" /\ o = Failure(ParentError(r.to), st)
        \/ o = Failure("Io", st)
        \/ o = Outcome(node, Answer("none", {}), NoAnswer, FALSE)
        \/ "rename" \in Methods /\ o \in MethodOutcomes(r, st)
        \/ "rename" \notin Methods /\ o \in FallbackOutcomes(r, st)
    BY DEF RenameOutcomes
  <2>2. ASSUME o \in MethodOutcomes(r, st)
        PROVE  o \in {Failure("NotFound", st), Failure("AlreadyExists", st), Failure("Io", st)}
               \/ (o = renamed /\ Fits)
    BY <2>2 DEF MethodOutcomes
  <2> HIDE DEF renamed, Fits
  <2> QED
    BY <1>1, <1>2, <1>3, <2>1, <2>2
<1>5. ~IsRead(r)
  BY DEF IsRead, Reads
<1>6. node \in [Paths -> Nodes] /\ r.path \in Paths /\ r.to \in Paths
  BY DEF TypeOK, Requests
<1>7. Answer("none", {}) \in Answers /\ NoAnswer \in Answers
  BY AnswerTypes
<1>8. CASE o = Outcome(node, Answer("none", {}), NoAnswer, FALSE)
  <2>1. o.node = node /\ o.response = [answer |-> Answer("none", {}), stat |-> NoAnswer, invalidate |-> FALSE]
    BY <1>8 DEF Outcome
  <2>2. o.response \in Responses
    BY <1>7, <2>1 DEF Responses
  <2> QED
    BY <1>5, <1>6, <2>1, <2>2 DEF Proper
<1>9. CASE "rename" \in Methods /\ o = renamed /\ Fits
  <2>1. o.node = RenamedNodes(r.path, r.to) /\ o.response = [answer |-> Answer("none", {}), stat |-> NoAnswer, invalidate |-> TRUE]
    BY <1>9 DEF Outcome
  <2>2. o.response \in Responses
    BY <1>7, <2>1 DEF Responses
  <2>3. o.node \in [Paths -> Nodes]
    BY <1>6, <2>1, RenamedNodesType
  <2>4. o.response.invalidate
    BY <2>1
  <2>5. "rename" \in Methods /\ Fits
    BY <1>9
  <2> HIDE DEF renamed
  <2> QED
    BY <2>1, <2>2, <2>3, <2>4, <2>5 DEF Proper
<1>10. CASE "rename" \notin Methods /\ o \in FallbackOutcomes(r, st)
  BY <1>10, FallbackTyped DEF Proper
<1> HIDE DEF renamed, Fits
<1> QED
  BY <1>4, <1>8, <1>9, <1>10, FailureProper

\* Whatever the host does with a request is proper.
LEMMA OutcomeProper ==
  ASSUME TypeOK, NEW r \in Requests, NEW st \in Answers, NEW o \in Outcomes(r, st) \cup {Failure("Io", st)}
  PROVE  Proper(r, st, o)
<1>1. "Io" \in Reported
  BY DEF Reported, ErrorCodes
<1>2. \/ IsRead(r) \/ r.op \in {"write", "append", "truncate"} \/ r.op \in {"unlink", "rmdir"}
      \/ r.op = "mkdir" \/ r.op = "rename"
  BY DEF Requests, AllOps, IsRead
<1>3. IsRead(r) => r.op \in {"stat", "read", "list"}
  BY DEF IsRead, Reads
<1>4. \/ o = Failure("Io", st)
      \/ IsRead(r) /\ o \in ReadOutcomes(r, st)
      \/ r.op \in {"write", "append", "truncate"} /\ o \in WriteOutcomes(r, st)
      \/ r.op \in {"unlink", "rmdir", "mkdir"} /\ o \in DeleteOutcomes(r, st) \cup MkdirOutcomes(r, st)
      \/ r.op = "rename" /\ o \in RenameOutcomes(r, st)
  BY <1>2, <1>3 DEF Outcomes
<1> QED
  BY <1>1, <1>4, FailureProper, ReadProper, WriteProper, DeleteProper, RenameProper

-----------------------------------------------------------------------------
(* Every step keeps the types. *)

\* A request over is the request that never was.
LEMMA ReturnTyped ==
  ASSUME TypeOK, NEW t \in Procs, Return(t)
  PROVE  /\ pc' \in [Procs -> {"idle", "looked", "sent", "resolved", "served", "insert", "inval"}]
         /\ req' \in [Procs -> Requests] /\ resp' \in [Procs -> Responses]
         /\ current' \in [Procs -> BOOLEAN] /\ gone' \in [Procs -> BOOLEAN]
  BY NothingTyped DEF TypeOK, Return, Requests, Responses

\* The guest's side: lookups, hits, misses, and the ends of executions.
LEMMA TypeOKAsk ==
  ASSUME TypeOK, NEW t \in Procs,
         \/ \E op \in Ops, p \in Paths, q \in Paths : Look(t, op, p, q)
         \/ Hit(t) \/ Send(t) \/ Drop(t)
  PROVE  TypeOK'
<1>1. ASSUME NEW op \in Ops, NEW p \in Paths, NEW q \in Paths, Look(t, op, p, q) PROVE TypeOK'
  <2> DEFINE r == [op |-> op, path |-> p, to |-> q,
                   hint |-> IF op = "stat" THEN NoAnswer ELSE cache[<<"stat", p>>],
                   toHint |-> IF op = "rename" THEN cache[<<"stat", q>>] ELSE NoAnswer]
  <2>1. <<"stat", p>> \in Keys /\ <<"stat", q>> \in Keys /\ op \in AllOps
    BY VfsAssumption DEF Keys, Reads
  <2>2. r \in Requests
    BY <2>1, AnswerTypes DEF Requests, TypeOK
  <2>3. req' = [req EXCEPT ![t] = r] /\ pc' = [pc EXCEPT ![t] = "looked"]
        /\ UNCHANGED <<node, cache, resp, current, gone, out>>
    BY <1>1 DEF Look
  <2> HIDE DEF r
  <2> QED
    BY <2>2, <2>3 DEF TypeOK, Requests
<1>2. CASE Hit(t) \/ (Drop(t) /\ Return(t))
  BY <1>2, ReturnTyped DEF Hit, Drop, TypeOK, Requests, Responses
<1>3. CASE Send(t) \/ (Drop(t) /\ ~Return(t))
  BY <1>3 DEF Send, Drop, TypeOK
<1> QED
  BY <1>1, <1>2, <1>3

\* The host's side.
LEMMA TypeOKHost ==
  ASSUME TypeOK, NEW t \in Procs, Resolve(t) \/ Serve(t)
  PROVE  TypeOK'
<1>1. req[t] \in Requests /\ resp[t] \in Responses /\ resp[t].stat \in Answers /\ node \in [Paths -> Nodes]
  BY DEF TypeOK, Requests, Responses
<1>2. CASE Resolve(t)
  <2> DEFINE st == IF req[t].op = "stat" THEN NoAnswer ELSE Resolved(req[t].path, req[t].hint)
  <2>1. st \in Answers
    BY <1>1, HostTypes, AnswerTypes DEF Resolved, Requests
  <2>2. resp' = [resp EXCEPT ![t].stat = st] /\ pc' = [pc EXCEPT ![t] = "resolved"]
        /\ UNCHANGED <<node, cache, req, current, gone, out>>
    BY <1>2 DEF Resolve
  <2> HIDE DEF st
  <2> QED
    BY <2>1, <2>2, SMTT(30) DEF TypeOK
<1>3. CASE Serve(t)
  <2>1. PICK o \in Outcomes(req[t], resp[t].stat) \cup {Failure("Io", resp[t].stat)} :
          /\ node' = o.node
          /\ \/ /\ ~gone[t]
                /\ pc' = [pc EXCEPT ![t] = "served"]
                /\ resp' = [resp EXCEPT ![t] = o.response]
                /\ UNCHANGED <<req, current, gone>>
             \/ gone[t] /\ Return(t)
    BY <1>3 DEF Serve
  <2>2. o.node \in [Paths -> Nodes] /\ o.response \in Responses
    BY <1>1, OutcomeProper DEF Proper
  <2>3. UNCHANGED <<cache, out>>
    BY <1>3 DEF Serve
  <2>4. CASE Return(t)
    BY <2>1, <2>2, <2>3, <2>4, ReturnTyped DEF TypeOK, Requests, Responses
  <2>5. CASE /\ pc' = [pc EXCEPT ![t] = "served"]
             /\ resp' = [resp EXCEPT ![t] = o.response]
             /\ UNCHANGED <<req, current, gone>>
    BY <2>1, <2>2, <2>3, <2>5 DEF TypeOK, Responses
  <2> QED
    BY <2>1, <2>4, <2>5
<1> QED
  BY <1>2, <1>3

\* The answer's way into the cache.
LEMMA TypeOKAnswer ==
  ASSUME TypeOK, NEW t \in Procs, Receive(t) \/ Insert(t) \/ Invalidate(t)
  PROVE  TypeOK'
<1>1. req[t] \in Requests /\ resp[t] \in Responses /\ cache \in [Keys -> Answers]
      /\ req[t].path \in Paths /\ req[t].to \in Paths
  BY DEF TypeOK, Requests, Responses
<1>2. CASE Receive(t) /\ ~Return(t)
  BY <1>2 DEF Receive, MoveGeneration, TypeOK
<1>3. CASE Receive(t) /\ Return(t)
  BY <1>3, ReturnTyped DEF Receive, TypeOK, Requests, Responses
<1>4. CASE Insert(t) \/ Invalidate(t)
  <2>1. cache' \in [Keys -> Answers]
    BY <1>1, <1>4, InsertedType, RenamedType DEF Insert, Invalidate
  <2> QED
    BY <1>4, <2>1, ReturnTyped DEF Insert, Invalidate, TypeOK, Requests, Responses
<1> QED
  BY <1>2, <1>3, <1>4

\* The application's changes.
LEMMA TypeOKOutside ==
  ASSUME TypeOK, (\E p \in Paths, v \in Versions : OutsideChange(p, v)) \/ InvalidateBegins \/ InvalidateEnds
  PROVE  TypeOK'
<1>1. ASSUME NEW p \in Paths, NEW v \in Versions, OutsideChange(p, v) PROVE TypeOK'
  BY <1>1, NodeTypes DEF OutsideChange, TypeOK
<1>2. CASE InvalidateBegins
  BY <1>2 DEF InvalidateBegins, MoveGeneration, TypeOK
<1>3. CASE InvalidateEnds
  <2>1. out.path \in Paths
    BY DEF TypeOK
  <2>2. cache' \in [Keys -> Answers]
    BY <1>3, <2>1, RenamedType DEF InvalidateEnds, TypeOK
  <2> QED
    BY <1>3, <2>2 DEF InvalidateEnds, TypeOK
<1> QED
  BY <1>1, <1>2, <1>3

\* A daemon without requests and with an empty cache is well typed.
LEMMA TypeOKInit == Init => TypeOK
<1> SUFFICES ASSUME Init PROVE TypeOK
  OBVIOUS
<1>1. Root \in Paths /\ NoAnswer \in Answers /\ NoRequest \in Requests /\ NoResponse \in Responses
  BY VfsAssumption, NothingTyped, AnswerTypes
<1> QED
  BY <1>1 DEF Init, TypeOK, Requests, Responses

\* Every step of a task, of the host and of the application keeps the types.
LEMMA TypeOKStep == TypeOK /\ [Next]_vars => TypeOK'
<1> SUFFICES ASSUME TypeOK, [Next]_vars PROVE TypeOK'
  OBVIOUS
<1>1. CASE UNCHANGED vars
  BY <1>1 DEF TypeOK, vars
<1> QED
  BY <1>1, TypeOKAsk, TypeOKHost, TypeOKAnswer, TypeOKOutside DEF Next, Task

-----------------------------------------------------------------------------
(* What a change of the tree changes. *)

\* A path is under itself.
LEMMA UnderItself == \A p \in Paths : Under(p, p)
<1> SUFFICES ASSUME NEW p \in Paths PROVE Under(p, p)
  OBVIOUS
<1>1. p \in Path /\ Len(p) \in Nat
  BY PathsType
<1> QED
  BY <1>1, UnderMeans

\* A change under two paths leaves every answer alone that invalidating the two would
\* leave in the cache: of the listings above, only their parents' can be told apart.
LEMMA AnswerStays ==
  ASSUME NEW k \in Keys, NEW a \in Paths, NEW b \in Paths,
         \A p \in Paths : node'[p] # node[p] => Under(a, p) \/ Under(b, p),
         ~Covers(a, k), ~Covers(b, k)
  PROVE  HostAnswer(k)' = HostAnswer(k)
<1>1. k = <<k[1], k[2]>> /\ k[1] \in Reads /\ k[2] \in Paths
  BY DEF Keys
<1>2. ~Under(a, k[2]) /\ ~Under(b, k[2])
  BY DEF Covers
<1>3. node'[k[2]] = node[k[2]]
  BY <1>1, <1>2
<1>4. CASE k[1] # "list"
  BY <1>1, <1>3, <1>4 DEF HostAnswer, HostStat, Reads
<1>5. CASE k[1] = "list"
  <2>1. ASSUME NEW q \in Paths, q # Root, Parent(q) = k[2] PROVE node'[q] = node[q]
    <3>1. ASSUME NEW c \in Paths, Under(c, q), ~Covers(c, k) PROVE FALSE
      <4>1. c \in Path /\ q \in Path
        BY PathsType
      <4>2. CASE c = q
        BY <1>1, <1>5, <2>1, <3>1, <4>2 DEF Covers
      <4>3. CASE c # q
        <5>1. Under(c, k[2])
          BY <2>1, <3>1, <4>1, <4>3, UnderParent
        <5> QED
          BY <3>1, <5>1 DEF Covers
      <4> QED
        BY <4>2, <4>3
    <3> QED
      BY <3>1
  <2>2. Children(k[2])' = Children(k[2])
    BY <2>1 DEF Children
  <2>3. \A q \in Children(k[2]) : node'[q] = node[q]
    BY <2>1 DEF Children
  <2>4. {<<Name(q), node'[q]>> : q \in Children(k[2])'} = {<<Name(q), node[q]>> : q \in Children(k[2])}
    BY <2>2, <2>3
  <2> QED
    BY <1>3, <1>5, <2>4 DEF HostAnswer, HostStat
<1> QED
  BY <1>4, <1>5

\* Errors and what was found can be told apart.
LEMMA AnswersDiffer ==
  /\ \A code : Err(code).err = code /\ Err(code).value = {}
  /\ \A n : Found(n).err = "none" /\ Found(n).value = {<<"", n>>} /\ Known(Found(n))
  /\ \A n, m : Found(n) = Found(m) => n = m
<1>1. \A code : Err(code).err = code /\ Err(code).value = {}
  BY DEF Err, Answer
<1>2. \A n : Found(n).err = "none" /\ Found(n).value = {<<"", n>>}
  BY DEF Found, Answer
<1>3. NoAnswer.err = "unknown"
  BY DEF NoAnswer, Answer
<1>4. \A n : Known(Found(n))
  BY <1>2, <1>3 DEF Known
<1>5. ASSUME NEW n, NEW m, Found(n) = Found(m) PROVE n = m
  <2>1. {<<"", n>>} = {<<"", m>>}
    BY <1>2, <1>5
  <2>2. <<"", n>> = <<"", m>>
    BY <2>1
  <2> QED
    BY <2>2
<1> QED
  BY <1>1, <1>2, <1>4, <1>5

\* The host's stat is an answer of its own.
LEMMA StatKnown == \A p : Known(HostStat(p))
<1>1. NoAnswer.err = "unknown"
  BY DEF NoAnswer, Answer
<1>2. Known(Err("NotFound"))
  BY <1>1, AnswersDiffer DEF Known
<1> QED
  BY <1>2, AnswersDiffer DEF HostStat

\* Given the host's own stat, a read answers what the host has now, errors included, or
\* the handler raised.
LEMMA ReadTold ==
  ASSUME TypeOK, NEW r \in Requests, IsRead(r), NEW st,
         st = IF r.op = "stat" THEN NoAnswer ELSE HostStat(r.path),
         NEW o \in ReadOutcomes(r, st) \cup {Failure("Io", st)}
  PROVE  o.response.answer \in {HostAnswer(KeyOf(r)), Err("Io")}
<1> DEFINE n == node[r.path]
<1>1. r.path \in Paths /\ n \in Nodes /\ KeyOf(r)[1] = r.op /\ KeyOf(r)[2] = r.path
  BY DEF Requests, TypeOK, KeyOf
<1>2. \A code : Failure(code, st).response.answer = Err(code)
  BY DEF Failure, Outcome
<1>3. \A s : Outcome(node, HostAnswer(KeyOf(r)), s, FALSE).response.answer = HostAnswer(KeyOf(r))
  BY DEF Outcome
<1>4. CASE o = Failure("Io", st)
  BY <1>2, <1>4
<1>5. CASE o \in ReadOutcomes(r, st) /\ r.op = "stat"
  BY <1>3, <1>5 DEF ReadOutcomes
<1>6. CASE o \in ReadOutcomes(r, st) /\ r.op # "stat" /\ n = Absent
  <2>1. st = Err("NotFound") /\ HostAnswer(KeyOf(r)) = Err("NotFound")
    BY <1>1, <1>6 DEF HostStat, HostAnswer
  <2>2. o = Failure("NotFound", st)
    BY <1>6, <2>1, AnswersDiffer DEF ReadOutcomes
  <2> QED
    BY <1>2, <2>1, <2>2
<1>7. CASE o \in ReadOutcomes(r, st) /\ r.op # "stat" /\ n # Absent
  <2>1. st = Found(n) /\ st.err = "none"
    BY <1>7, AnswersDiffer DEF HostStat
  <2>2. IsDir(st) <=> n = Dir
    <3>1. st.value = {<<"", n>>}
      BY <2>1, AnswersDiffer
    <3>2. {<<"", n>>} = {<<"", Dir>>} => Found(n) = Found(Dir)
      BY DEF Found
    <3> QED
      BY <3>1, <3>2, AnswersDiffer DEF IsDir
  <2>3. Denied(st, Unreadable) <=> n.version \in Unreadable
    <3>1. Denied(st, Unreadable) <=> \E v \in Unreadable : n = File(v)
      BY <2>1, AnswersDiffer DEF Denied
    <3>2. n = Dir \/ \E v \in Versions : n = File(v)
      BY <1>1, <1>7 DEF Nodes
    <3>3. Dir.version = 0 /\ \A v : File(v).version = v
      BY DEF Dir, File
    <3>4. 0 \notin Unreadable
      BY VfsAssumption
    <3>5. CASE n = Dir
      BY <3>1, <3>3, <3>4, <3>5
    <3>6. CASE \E v \in Versions : n = File(v)
      BY <3>1, <3>3, <3>6
    <3> QED
      BY <3>2, <3>5, <3>6
  <2>4. r.op \in {"read", "list"}
    BY <1>7 DEF IsRead, Reads
  <2>5. CASE n.version \in Unreadable
    <3>1. o = Failure("PermissionDenied", st)
      BY <1>7, <2>1, <2>3, <2>5 DEF ReadOutcomes
    <3>2. HostAnswer(KeyOf(r)) = Err("PermissionDenied")
      BY <1>1, <1>7, <2>4, <2>5 DEF HostAnswer
    <3> QED
      BY <1>2, <3>1, <3>2
  <2>6. CASE n.version \notin Unreadable /\ r.op = "read" /\ n = Dir
    <3>1. o = Failure("IsDirectory", st)
      BY <1>7, <2>1, <2>2, <2>3, <2>6 DEF ReadOutcomes
    <3>2. HostAnswer(KeyOf(r)) = Err("IsDirectory")
      BY <1>1, <1>7, <2>6 DEF HostAnswer
    <3> QED
      BY <1>2, <3>1, <3>2
  <2>7. CASE n.version \notin Unreadable /\ r.op = "list" /\ n # Dir
    <3>1. o = Failure("NotDirectory", st)
      BY <1>7, <2>1, <2>2, <2>3, <2>7 DEF ReadOutcomes
    <3>2. HostAnswer(KeyOf(r)) = Err("NotDirectory")
      BY <1>1, <1>7, <2>7 DEF HostAnswer
    <3> QED
      BY <1>2, <3>1, <3>2
  <2>8. CASE n.version \notin Unreadable /\ ~(r.op = "read" /\ n = Dir) /\ ~(r.op = "list" /\ n # Dir)
    <3>1. o = Outcome(node, HostAnswer(KeyOf(r)), st, FALSE)
      BY <1>7, <2>1, <2>2, <2>3, <2>8 DEF ReadOutcomes
    <3> QED
      BY <1>3, <3>1
  <2> QED
    BY <2>5, <2>6, <2>7, <2>8
<1> QED
  BY <1>4, <1>5, <1>6, <1>7

-----------------------------------------------------------------------------
(* What the host found out is fresh while the generation stands. *)

\* Executions end in the middle of reads only, and the host has a rename of its own
\* where guests rename: without, the host may have changed what nobody invalidates.
Orderly == Drops \subseteq Reads /\ ("rename" \in Ops => "rename" \in Methods)

\* Who asks, and for what: only mutations invalidate, only requests that the host has
\* not answered outlive their execution, and all but a stat have a stat to go by.
Askers ==
  \A t \in Procs :
    /\ pc[t] # "idle" => req[t].op \in Ops
    /\ gone[t] => pc[t] \in {"sent", "resolved"} /\ req[t].op \in Drops
    /\ pc[t] \in {"served", "insert", "inval"} /\ resp[t].invalidate => ~IsRead(req[t])
    /\ pc[t] = "resolved" => (resp[t].stat = NoAnswer <=> req[t].op = "stat")

\* Nobody asks in the beginning.
LEMMA AskersInit == Init => Askers
  BY DEF Init, Askers

\* Only a served mutation asks to invalidate, and only what is out at the host is gone.
LEMMA AskersStep == TypeOK /\ Askers /\ [Next]_vars => Askers'
<1> SUFFICES ASSUME TypeOK, Askers, [Next]_vars PROVE Askers'
  OBVIOUS
<1>1. CASE UNCHANGED vars \/ InvalidateBegins \/ InvalidateEnds \/ \E p \in Paths, v \in Versions : OutsideChange(p, v)
  BY <1>1 DEF Askers, vars, InvalidateBegins, InvalidateEnds, OutsideChange, IsRead
<1>2. ASSUME NEW t \in Procs, NEW op \in Ops, NEW p \in Paths, NEW q \in Paths, Look(t, op, p, q) PROVE Askers'
  <2>1. req'[t].op = op
    BY <1>2 DEF Look, TypeOK
  <2>2. \A u \in Procs : u # t => req'[u] = req[u] /\ pc'[u] = pc[u]
    BY <1>2 DEF Look, TypeOK
  <2>3. pc[t] = "idle" /\ pc'[t] = "looked" /\ UNCHANGED <<resp, gone>>
    BY <1>2 DEF Look, TypeOK
  <2>4. ~gone[t]
    BY <2>3 DEF Askers
  <2> QED
    BY <2>1, <2>2, <2>3, <2>4 DEF Askers, IsRead
<1>3. ASSUME NEW t \in Procs, Return(t) PROVE Askers'
  BY <1>3 DEF Return, Askers, TypeOK, IsRead
<1>4. ASSUME NEW t \in Procs, Send(t) \/ Resolve(t) PROVE Askers'
  <2>1. UNCHANGED <<req, gone>> /\ pc[t] \in {"looked", "sent"} /\ pc'[t] \in {"sent", "resolved"}
        /\ \A u \in Procs : u # t => pc'[u] = pc[u] /\ resp'[u] = resp[u]
    BY <1>4 DEF Send, Resolve, TypeOK
  <2>2. pc'[t] = "resolved" => resp'[t].stat = IF req[t].op = "stat" THEN NoAnswer
                                               ELSE Resolved(req[t].path, req[t].hint)
    BY <1>4 DEF Send, Resolve, TypeOK
  <2>3. Resolved(req[t].path, req[t].hint) # NoAnswer
    BY StatKnown DEF Resolved, Known
  <2> QED
    BY <2>1, <2>2, <2>3 DEF Askers, IsRead
<1>5. ASSUME NEW t \in Procs, Receive(t), ~Return(t) PROVE Askers'
  <2>1. UNCHANGED <<req, resp, gone>> /\ pc[t] = "served" /\ pc'[t] \in {"inval", "insert"}
        /\ \A u \in Procs : u # t => pc'[u] = pc[u]
    BY <1>5 DEF Receive, TypeOK
  <2> QED
    BY <2>1 DEF Askers, IsRead
<1>6. ASSUME NEW t \in Procs, Drop(t), ~Return(t) PROVE Askers'
  BY <1>6 DEF Drop, Askers, TypeOK, IsRead
<1>7. ASSUME NEW t \in Procs, Serve(t), ~Return(t) PROVE Askers'
  <2>1. PICK o \in Outcomes(req[t], resp[t].stat) \cup {Failure("Io", resp[t].stat)} :
          /\ ~gone[t] /\ pc' = [pc EXCEPT ![t] = "served"] /\ resp' = [resp EXCEPT ![t] = o.response]
          /\ UNCHANGED <<req, current, gone>>
    BY <1>7 DEF Serve
  <2>2. Proper(req[t], resp[t].stat, o)
    BY OutcomeProper DEF TypeOK, Requests
  <2>3. o.response.invalidate => ~IsRead(req[t])
    BY <2>2 DEF Proper, IsRead, Reads
  <2>4. pc[t] = "resolved" /\ pc'[t] = "served" /\ resp'[t] = o.response
        /\ \A u \in Procs : u # t => pc'[u] = pc[u] /\ resp'[u] = resp[u]
    BY <1>7, <2>1 DEF Serve, TypeOK
  <2> QED
    BY <2>1, <2>3, <2>4 DEF Askers, IsRead
<1> QED
  BY <1>1, <1>2, <1>3, <1>4, <1>5, <1>6, <1>7 DEF Next, Task, Hit, Insert, Invalidate

\* An invalidation that has not yet moved the generation.
Pending(k) ==
  \/ out.step = "changed" /\ Covers(out.path, k)
  \/ \E t \in Procs :
       /\ pc[t] = "served" /\ resp[t].invalidate
       /\ Covers(req[t].path, k) \/ Covers(req[t].to, k)

\* The host found out a for t, under the generation that stands: in answer to a read, or
\* as the stat of a request that brought none along.
Holds(t, k, a) ==
  /\ current[t]
  /\ \/ /\ pc[t] \in {"served", "insert"} /\ IsRead(req[t]) /\ KeyOf(req[t]) = k
        /\ a = resp[t].answer
        /\ a.err = "none" \/ (~Known(req[t].hint) /\ a.err # "Io")
     \/ /\ pc[t] \in {"resolved", "served", "insert"} /\ <<"stat", req[t].path>> = k
        /\ a = resp[t].stat /\ Known(a) /\ ~Known(req[t].hint)

\* What the host found out is so, unless the generation is about to move.
Fresh ==
  \A t \in Procs, k \in Keys, a \in Answers :
    Holds(t, k, a) => a = HostAnswer(k) \/ Pending(k)

\* An invalidation of a path's stat is one of its contents and its listing as well.
LEMMA PendingStat ==
  ASSUME NEW k \in Keys, Pending(<<"stat", k[2]>>)
  PROVE  Pending(k)
<1>1. \A p : Covers(p, <<"stat", k[2]>>) => Covers(p, k)
  BY DEF Covers
<1> QED
  BY <1>1 DEF Pending

\* Steps of a task that change no file and finish no mutation.
LEMMA FreshQuiet ==
  ASSUME Fresh, NEW t \in Procs, node' = node, out' = out,
         \A u \in Procs : u # t => /\ pc'[u] = pc[u] /\ req'[u] = req[u]
                                   /\ resp'[u] = resp[u] /\ current'[u] = current[u],
         ~(pc[t] = "served" /\ resp[t].invalidate),
         \A k \in Keys, a \in Answers :
           Holds(t, k, a)' => a = HostAnswer(k) \/ Pending(k) \/ Holds(t, k, a)
  PROVE  Fresh'
<1> SUFFICES ASSUME NEW u \in Procs, NEW k \in Keys, NEW a \in Answers, Holds(u, k, a)'
             PROVE  a = HostAnswer(k)' \/ Pending(k)'
  BY DEF Fresh
<1>1. HostAnswer(k)' = HostAnswer(k)
  BY DEF HostAnswer, HostStat, Children
<1>2. ASSUME Pending(k) PROVE Pending(k)'
  <2>1. CASE out.step = "changed" /\ Covers(out.path, k)
    BY <2>1 DEF Pending
  <2>2. ASSUME NEW v \in Procs, pc[v] = "served" /\ resp[v].invalidate,
               Covers(req[v].path, k) \/ Covers(req[v].to, k)
        PROVE  Pending(k)'
    <3>1. v # t
      BY <2>2
    <3>2. pc'[v] = pc[v] /\ req'[v] = req[v] /\ resp'[v] = resp[v]
      BY <3>1
    <3> QED
      BY <2>2, <3>2 DEF Pending
  <2> QED
    BY <1>2, <2>1, <2>2 DEF Pending
<1>3. Holds(u, k, a) => a = HostAnswer(k)' \/ Pending(k)'
  BY <1>1, <1>2 DEF Fresh
<1>4. CASE u # t
  <2>1. /\ pc'[u] = pc[u] /\ req'[u] = req[u]
        /\ resp'[u] = resp[u] /\ current'[u] = current[u]
    BY <1>4
  <2>2. Holds(u, k, a)
    BY <2>1 DEF Holds, IsRead, KeyOf
  <2> QED
    BY <1>3, <2>2
<1>5. CASE u = t
  BY <1>1, <1>2, <1>3, <1>5
<1> QED
  BY <1>4, <1>5

\* Changes of the host's tree that an invalidation of a and b is to follow.
LEMMA FreshChanged ==
  ASSUME Fresh, NEW p \in Paths, NEW q \in Paths, NEW k \in Keys, NEW a \in Answers,
         \A m \in Paths : node'[m] # node[m] => Under(p, m) \/ Under(q, m),
         Covers(p, k) \/ Covers(q, k) => Pending(k)', Pending(k) => Pending(k)',
         NEW u \in Procs, Holds(u, k, a)
  PROVE  a = HostAnswer(k)' \/ Pending(k)'
<1>1. a = HostAnswer(k) \/ Pending(k)
  BY DEF Fresh
<1>2. ~Covers(p, k) /\ ~Covers(q, k) => HostAnswer(k)' = HostAnswer(k)
  BY AnswerStays
<1> QED
  BY <1>1, <1>2

\* Files that a mutation's outcome changes are under the paths it invalidates.
LEMMA ChangeUnder ==
  ASSUME TypeOK, Askers, Orderly, NEW t \in Procs, pc[t] = "resolved",
         NEW o, Proper(req[t], resp[t].stat, o), o.response.invalidate
  PROVE  /\ ~IsRead(req[t]) /\ ~gone[t] /\ req[t].path \in Paths /\ req[t].to \in Paths
         /\ \A p \in Paths : o.node[p] # node[p] => Under(req[t].path, p) \/ Under(req[t].to, p)
<1>1. req[t].op \in Ops /\ req[t].path \in Paths /\ req[t].to \in Paths
  BY DEF Askers, TypeOK
<1>2. ~IsRead(req[t])
  BY DEF Proper, IsRead, Reads
<1>3. ~gone[t]
  BY <1>2 DEF Askers, Orderly, IsRead
<1>4. \/ \A p \in Paths : p # req[t].path => o.node[p] = node[p]
      \/ o.node = RenamedNodes(req[t].path, req[t].to)
  BY <1>1 DEF Proper, Orderly
<1>5. \A p \in Paths : o.node[p] # node[p] => Under(req[t].path, p) \/ Under(req[t].to, p)
  <2>1. Under(req[t].path, req[t].path)
    BY <1>1, UnderItself
  <2>2. \A p \in Paths : RenamedNodes(req[t].path, req[t].to)[p] # node[p] => Under(req[t].path, p) \/ Under(req[t].to, p)
    BY DEF RenamedNodes
  <2> QED
    BY <1>4, <2>1, <2>2
<1> QED
  BY <1>1, <1>2, <1>3, <1>5

\* Nothing else a served request does changes a file.
LEMMA NoChange ==
  ASSUME TypeOK, Askers, Orderly, NEW t \in Procs, pc[t] = "resolved",
         NEW o, Proper(req[t], resp[t].stat, o), ~o.response.invalidate
  PROVE  /\ o.node = node /\ o.response.stat \in {resp[t].stat, NoAnswer}
         /\ IsRead(req[t]) /\ o.response.answer.err = "none" => o.response.answer = HostAnswer(KeyOf(req[t]))
<1>1. req[t].op \in Ops
  BY DEF Askers
<1> QED
  BY <1>1 DEF Proper, Orderly

\* An error that follows from what the host found out itself is the host's error.
LEMMA FreshError ==
  ASSUME TypeOK, Askers, Fresh, NEW t \in Procs, pc[t] = "resolved", current[t],
         IsRead(req[t]), ~Known(req[t].hint), NEW k \in Keys, KeyOf(req[t]) = k,
         NEW o \in Outcomes(req[t], resp[t].stat) \cup {Failure("Io", resp[t].stat)},
         o.response.answer.err # "Io"
  PROVE  o.response.answer = HostAnswer(k) \/ Pending(k)
<1> DEFINE st == resp[t].stat
           s == <<"stat", req[t].path>>
<1>1. req[t] \in Requests /\ st \in Answers /\ s \in Keys /\ k[2] = req[t].path
  BY DEF TypeOK, Requests, Keys, Reads, KeyOf
<1>2. o \in ReadOutcomes(req[t], st) \cup {Failure("Io", st)}
  BY DEF Outcomes, IsRead, Reads
<1>3. st = (IF req[t].op = "stat" THEN NoAnswer ELSE HostStat(req[t].path))
      => o.response.answer = HostAnswer(k)
  <2> SUFFICES ASSUME st = (IF req[t].op = "stat" THEN NoAnswer ELSE HostStat(req[t].path))
               PROVE  o.response.answer = HostAnswer(k)
    OBVIOUS
  <2>1. o.response.answer \in {HostAnswer(KeyOf(req[t])), Err("Io")}
    <3> HIDE DEF st
    <3> QED
      BY <1>1, <1>2, ReadTold
  <2> QED
    BY <2>1, AnswersDiffer
<1>4. CASE req[t].op = "stat"
  BY <1>3, <1>4 DEF Askers
<1>5. CASE req[t].op # "stat"
  <2>1. Holds(t, s, st)
    BY <1>5 DEF Holds, Askers, Known
  <2>2. st = HostAnswer(s) \/ Pending(s)
    BY <1>1, <2>1 DEF Fresh
  <2>3. HostAnswer(s) = HostStat(req[t].path)
    BY DEF HostAnswer
  <2>4. Pending(s) => Pending(k)
    BY <1>1, PendingStat
  <2> QED
    BY <1>3, <1>5, <2>2, <2>3, <2>4
<1> QED
  BY <1>4, <1>5

\* What the host answers is fresh, and what it changes will be invalidated.
LEMMA FreshServe ==
  ASSUME TypeOK, Askers, Orderly, Fresh, NEW t \in Procs, Serve(t)
  PROVE  Fresh'
<1>1. PICK o \in Outcomes(req[t], resp[t].stat) \cup {Failure("Io", resp[t].stat)} :
        /\ node' = o.node
        /\ \/ /\ ~gone[t]
              /\ pc' = [pc EXCEPT ![t] = "served"]
              /\ resp' = [resp EXCEPT ![t] = o.response]
              /\ UNCHANGED <<req, current, gone>>
           \/ gone[t] /\ Return(t)
  BY DEF Serve
<1>2. Proper(req[t], resp[t].stat, o)
  BY OutcomeProper DEF TypeOK, Requests
<1>3. pc[t] = "resolved" /\ out' = out
  BY DEF Serve
<1>4. /\ \A u \in Procs : u # t => /\ pc'[u] = pc[u] /\ req'[u] = req[u]
                                   /\ resp'[u] = resp[u] /\ current'[u] = current[u]
      /\ gone[t] => pc'[t] = "idle"
      /\ ~gone[t] => pc'[t] = "served" /\ resp'[t] = o.response /\ req' = req
  BY <1>1 DEF Return, TypeOK
<1>5. CASE ~o.response.invalidate
  <2>1. /\ o.node = node /\ o.response.stat \in {resp[t].stat, NoAnswer}
        /\ IsRead(req[t]) /\ o.response.answer.err = "none" => o.response.answer = HostAnswer(KeyOf(req[t]))
    BY <1>2, <1>3, <1>5, NoChange
  <2>2. ASSUME NEW k \in Keys, NEW a \in Answers, Holds(t, k, a)'
        PROVE  a = HostAnswer(k) \/ Pending(k) \/ Holds(t, k, a)
    <3>1. /\ ~gone[t] /\ req' = req /\ current'[t] = current[t]
          /\ resp'[t].answer = o.response.answer /\ resp'[t].stat = o.response.stat
      BY <1>1, <1>4, <2>2 DEF Holds
    <3>2. CASE a = resp'[t].stat /\ Known(a) /\ ~Known(req[t].hint) /\ <<"stat", req[t].path>> = k
      <4>1. a = resp[t].stat
        BY <2>1, <3>1, <3>2 DEF Known
      <4> QED
        BY <1>3, <2>2, <3>1, <3>2, <4>1 DEF Holds
    <3>3. CASE /\ IsRead(req[t]) /\ KeyOf(req[t]) = k /\ a = o.response.answer
               /\ a.err = "none" \/ (~Known(req[t].hint) /\ a.err # "Io")
      <4>1. CASE a.err = "none"
        BY <2>1, <3>3, <4>1
      <4>2. CASE a.err # "none"
        BY <1>1, <1>3, <2>2, <3>1, <3>3, <4>2, FreshError DEF Holds
      <4> QED
        BY <4>1, <4>2
    <3>4. IsRead(req[t])' = IsRead(req[t]) /\ KeyOf(req[t])' = KeyOf(req[t])
      BY <3>1 DEF IsRead, KeyOf
    <3> QED
      BY <2>2, <3>1, <3>2, <3>3, <3>4 DEF Holds
  <2> QED
    BY <1>1, <1>3, <1>4, <2>1, <2>2, FreshQuiet
<1>6. CASE o.response.invalidate
  <2>1. /\ ~IsRead(req[t]) /\ ~gone[t] /\ req[t].path \in Paths /\ req[t].to \in Paths
        /\ \A p \in Paths : node'[p] # node[p] => Under(req[t].path, p) \/ Under(req[t].to, p)
    BY <1>1, <1>2, <1>3, <1>6, ChangeUnder
  <2> SUFFICES ASSUME NEW u \in Procs, NEW k \in Keys, NEW a \in Answers, Holds(u, k, a)'
               PROVE  a = HostAnswer(k)' \/ Pending(k)'
    BY DEF Fresh
  <2>2. Covers(req[t].path, k) \/ Covers(req[t].to, k) => Pending(k)'
    <3>1. pc'[t] = "served" /\ resp'[t].invalidate /\ req'[t] = req[t]
      BY <1>4, <1>6, <2>1
    <3> QED
      BY <3>1 DEF Pending
  <2>3. ASSUME Pending(k) PROVE Pending(k)'
    <3>1. CASE out.step = "changed" /\ Covers(out.path, k)
      BY <1>3, <3>1 DEF Pending
    <3>2. ASSUME NEW v \in Procs, pc[v] = "served" /\ resp[v].invalidate,
                 Covers(req[v].path, k) \/ Covers(req[v].to, k)
          PROVE  Pending(k)'
      <4>1. v # t
        BY <1>3, <3>2
      <4>2. pc'[v] = pc[v] /\ req'[v] = req[v] /\ resp'[v] = resp[v]
        BY <1>4, <4>1
      <4> QED
        BY <3>2, <4>2 DEF Pending
    <3> QED
      BY <2>3, <3>1, <3>2 DEF Pending
  <2>4. CASE u = t
    <3>1. req'[t] = req[t] /\ ~IsRead(req'[t])
      BY <1>4, <2>1 DEF IsRead
    <3>2. k = <<"stat", req[t].path>>
      BY <2>4, <3>1 DEF Holds, IsRead
    <3>3. Covers(req[t].path, k)
      BY <2>1, <3>2, UnderItself DEF Covers
    <3> QED
      BY <2>2, <3>3
  <2>5. CASE u # t
    <3>1. Holds(u, k, a)
      BY <1>4, <2>5 DEF Holds, IsRead, KeyOf
    <3> QED
      BY <2>1, <2>2, <2>3, <3>1, FreshChanged
  <2> QED
    BY <2>4, <2>5
<1> QED
  BY <1>5, <1>6

\* The application's change is announced before the generation moves.
LEMMA FreshOutside ==
  ASSUME TypeOK, Fresh, NEW p \in Paths, NEW v \in Versions, OutsideChange(p, v)
  PROVE  Fresh'
<1> SUFFICES ASSUME NEW u \in Procs, NEW k \in Keys, NEW a \in Answers, Holds(u, k, a)'
             PROVE  a = HostAnswer(k)' \/ Pending(k)'
  BY DEF Fresh
<1>1. /\ out.step = "idle" /\ out' = [step |-> "changed", path |-> p]
      /\ node' = [node EXCEPT ![p] = File(v)] /\ UNCHANGED <<cache, pc, req, resp, current, gone>>
  BY DEF OutsideChange
<1>2. \A q \in Paths : node'[q] # node[q] => Under(p, q) \/ Under(p, q)
  BY <1>1, UnderItself DEF TypeOK
<1>3. Covers(p, k) \/ Covers(p, k) => Pending(k)'
  BY <1>1 DEF Pending
<1>4. Pending(k) => Pending(k)'
  BY <1>1 DEF Pending
<1>5. Holds(u, k, a)
  BY <1>1 DEF Holds, IsRead, KeyOf
<1> QED
  BY <1>2, <1>3, <1>4, <1>5, FreshChanged

\* A step that moves the generation leaves nobody with an answer to insert.
LEMMA FreshMoved ==
  ASSUME MoveGeneration PROVE Fresh'
  BY DEF MoveGeneration, Fresh, Holds

\* Every step keeps what may be inserted fresh.
LEMMA FreshStep ==
  ASSUME TypeOK, Askers, Orderly, Fresh, [Next]_vars
  PROVE  Fresh'
<1>1. CASE UNCHANGED vars \/ InvalidateEnds
  <2>1. UNCHANGED <<node, pc, req, resp, current>> /\ (out' = out \/ (out.step = "bumped" /\ out'.step = "idle"))
    BY <1>1 DEF vars, InvalidateEnds, TypeOK
  <2> SUFFICES ASSUME NEW u \in Procs, NEW k \in Keys, NEW a \in Answers, Holds(u, k, a)'
               PROVE  a = HostAnswer(k)' \/ Pending(k)'
    BY DEF Fresh
  <2>2. HostAnswer(k)' = HostAnswer(k)
    BY <2>1 DEF HostAnswer, HostStat, Children
  <2>3. Pending(k) => Pending(k)'
    BY <2>1 DEF Pending
  <2>4. Holds(u, k, a)
    BY <2>1 DEF Holds, IsRead, KeyOf
  <2> QED
    BY <2>2, <2>3, <2>4 DEF Fresh
<1>2. CASE InvalidateBegins \/ \E t \in Procs : Receive(t) /\ resp[t].invalidate
  BY <1>2, FreshMoved DEF InvalidateBegins, Receive
<1>3. ASSUME NEW t \in Procs, ~(pc[t] = "served" /\ resp[t].invalidate), Return(t), UNCHANGED <<node, out>>
      PROVE  Fresh'
  <2>1. /\ \A u \in Procs : u # t => /\ pc'[u] = pc[u] /\ req'[u] = req[u]
                                     /\ resp'[u] = resp[u] /\ current'[u] = current[u]
        /\ pc'[t] = "idle"
    BY <1>3 DEF Return, TypeOK
  <2>2. \A k \in Keys, a \in Answers : ~Holds(t, k, a)'
    BY <2>1 DEF Holds
  <2> QED
    BY <1>3, <2>1, <2>2, FreshQuiet
<1>4. ASSUME NEW t \in Procs,
             Send(t) \/ \E op \in Ops, p \in Paths, q \in Paths : Look(t, op, p, q)
      PROVE  Fresh'
  <2>1. /\ \A u \in Procs : u # t => /\ pc'[u] = pc[u] /\ req'[u] = req[u]
                                     /\ resp'[u] = resp[u] /\ current'[u] = current[u]
        /\ pc'[t] \in {"looked", "sent"} /\ pc[t] # "served" /\ node' = node /\ out' = out
    BY <1>4 DEF Send, Look, TypeOK
  <2>2. \A k \in Keys, a \in Answers : ~Holds(t, k, a)'
    BY <2>1 DEF Holds
  <2> QED
    BY <2>1, <2>2, FreshQuiet
<1>9. ASSUME NEW t \in Procs, Resolve(t) PROVE Fresh'
  <2>1. /\ \A u \in Procs : u # t => /\ pc'[u] = pc[u] /\ req'[u] = req[u]
                                     /\ resp'[u] = resp[u] /\ current'[u] = current[u]
        /\ pc[t] = "sent" /\ pc'[t] = "resolved" /\ UNCHANGED <<node, out, req, current>>
        /\ resp'[t].stat = IF req[t].op = "stat" THEN NoAnswer
                           ELSE Resolved(req[t].path, req[t].hint)
    BY <1>9 DEF Resolve, TypeOK
  <2>2. ASSUME NEW k \in Keys, NEW a \in Answers, Holds(t, k, a)' PROVE a = HostAnswer(k)
    <3>1. a = resp'[t].stat /\ Known(a) /\ ~Known(req[t].hint) /\ k = <<"stat", req[t].path>>
      BY <2>1, <2>2 DEF Holds
    <3>2. a = HostStat(req[t].path)
      BY <2>1, <3>1 DEF Resolved, Known
    <3> QED
      BY <3>1, <3>2 DEF HostAnswer
  <2> QED
    BY <2>1, <2>2, FreshQuiet
<1>10. ASSUME NEW t \in Procs, Drop(t), ~Return(t) PROVE Fresh'
  <2>1. pc[t] \in {"sent", "resolved"} /\ UNCHANGED <<node, out, pc, req, resp, current>>
    BY <1>10 DEF Drop
  <2>2. \A k \in Keys, a \in Answers : Holds(t, k, a)' => Holds(t, k, a)
    BY <2>1 DEF Holds, IsRead, KeyOf
  <2> QED
    BY <2>1, <2>2, FreshQuiet
<1>5. ASSUME NEW t \in Procs, Receive(t), ~resp[t].invalidate, ~Return(t) PROVE Fresh'
  <2>1. /\ \A u \in Procs : u # t => /\ pc'[u] = pc[u] /\ req'[u] = req[u]
                                     /\ resp'[u] = resp[u] /\ current'[u] = current[u]
        /\ pc[t] = "served" /\ UNCHANGED <<req, resp, current, node, out>>
    BY <1>5 DEF Receive, TypeOK
  <2>2. \A k \in Keys, a \in Answers : Holds(t, k, a)' => Holds(t, k, a)
    BY <2>1 DEF Holds, IsRead, KeyOf
  <2> QED
    BY <1>5, <2>1, <2>2, FreshQuiet
<1>6. ASSUME NEW t \in Procs, Drop(t), Return(t) PROVE Fresh'
  <2>1. IsRead(req[t]) /\ UNCHANGED <<node, out>>
    BY <1>6 DEF Drop, Orderly, IsRead
  <2>2. ~(pc[t] = "served" /\ resp[t].invalidate)
    BY <2>1 DEF Askers
  <2> QED
    BY <1>3, <1>6, <2>1, <2>2
<1>7. ASSUME NEW t \in Procs, Hit(t) \/ Insert(t) \/ Invalidate(t) PROVE Fresh'
  <2>1. pc[t] # "served" /\ Return(t) /\ UNCHANGED <<node, out>>
    BY <1>7 DEF Hit, Insert, Invalidate
  <2> QED
    BY <1>3, <2>1
<1>8. ASSUME NEW t \in Procs, Receive(t), ~resp[t].invalidate, Return(t) PROVE Fresh'
  BY <1>3, <1>8 DEF Receive
<1> QED
  BY <1>1, <1>2, <1>4, <1>5, <1>6, <1>7, <1>8, <1>9, <1>10, FreshServe, FreshOutside DEF Next, Task

\* Requests, responses, the cache and the host's tree keep their types: whatever
\* invoke_vfs_handler answers to a request, and whatever request_with_rename inserts, moves
\* or drops, a slot of the cache holds an answer and a path a node.
THEOREM VfsTyped == Spec => []TypeOK
  BY TypeOKInit, TypeOKStep, PTL DEF Spec

\* Whatever the host found out for a request is so as long as the generation stands that
\* the request loaded, for any number of tasks, with changes by the application and
\* executions that end in the middle of a read, whether or not errors are cached.
THEOREM FreshFindings == Orderly => (Spec => []Fresh)
<1> SUFFICES ASSUME Orderly PROVE Spec => []Fresh
  OBVIOUS
<1>1. Init => Fresh
  BY DEF Init, Fresh, Holds
<1>2. TypeOK /\ Askers /\ Fresh /\ [Next]_vars => Fresh'
  BY FreshStep
<1> QED
  BY <1>1, <1>2, TypeOKInit, TypeOKStep, AskersInit, AskersStep, PTL DEF Spec

\* So request_with_rename may insert what passed its generation check, answers and stats,
\* if the host found it out.  What goes back to a cached stat that the request brought
\* along may be stale: that stat was cached before the generation was loaded.
THEOREM FreshAnswers == Orderly => (Spec => []FreshWhileCurrent)
<1> SUFFICES ASSUME Orderly PROVE Spec => []FreshWhileCurrent
  OBVIOUS
<1>1. TypeOK /\ Fresh => FreshWhileCurrent
  <2> SUFFICES ASSUME TypeOK, Fresh PROVE FreshWhileCurrent
    OBVIOUS
  <2> SUFFICES ASSUME NEW t \in Procs, pc[t] \in {"served", "insert"}, current[t],
                      NEW k \in Keys, NEW a \in Answers, Cacheable(a),
                      \/ /\ IsRead(req[t]) /\ k = KeyOf(req[t]) /\ a = resp[t].answer
                         /\ a.err = "none" \/ ~Known(req[t].hint)
                      \/ k = <<"stat", req[t].path>> /\ a = resp[t].stat /\ ~Known(req[t].hint)
               PROVE  a = HostAnswer(k) \/ Owed(k)
    <3>1. ASSUME NEW t \in Procs PROVE resp[t].answer \in Answers /\ resp[t].stat \in Answers
      BY DEF TypeOK
    <3>2. ASSUME NEW t \in Procs PROVE <<"stat", req[t].path>> \in Keys
      <4>1. req[t].path \in Paths
        BY DEF TypeOK
      <4> QED
        BY <4>1 DEF Keys, Reads
    <3>3. ASSUME NEW t \in Procs, IsRead(req[t]) PROVE KeyOf(req[t]) \in Keys
      <4>1. req[t].path \in Paths
        BY DEF TypeOK
      <4> QED
        BY <3>3, <4>1 DEF Keys, IsRead, KeyOf
    <3> QED
      BY <3>1, <3>2, <3>3 DEF FreshWhileCurrent
  <2>1. a.err \notin {"Io", "unknown"}
    BY DEF Cacheable
  <2>2. Known(a)
    BY <2>1 DEF Known, NoAnswer, Answer
  <2>3. a = HostAnswer(k) \/ Pending(k)
    BY <2>1, <2>2 DEF Fresh, Holds
  <2>4. Pending(k) => Owed(k)
    BY DEF Pending, Owed
  <2> QED
    BY <2>3, <2>4
<1> QED
  BY <1>1, VfsTyped, FreshFindings, PTL

-----------------------------------------------------------------------------
(* With one task, the cache agrees with the host. *)

\* One task, and nobody behind its back.
Alone == (\A t, u \in Procs : t = u) /\ ~Outside

\* What the task was told is so: by the cache when it looked, by the host's stat, and by
\* the answer it is about to insert.
Told ==
  \A t \in Procs :
    /\ pc[t] # "idle" /\ req[t].op # "rename" => req[t].to = req[t].path
    /\ pc[t] = "inval" => resp[t].invalidate
    /\ pc[t] = "insert" => ~resp[t].invalidate
    /\ \A p \in Paths :
         /\ p = req[t].path /\ pc[t] \in {"looked", "sent"} /\ Known(req[t].hint)
            => req[t].hint = HostStat(p)
         /\ p = req[t].path /\ pc[t] = "resolved"
            => resp[t].stat = IF req[t].op = "stat" THEN NoAnswer ELSE HostStat(p)
         /\ p = req[t].path /\ pc[t] \in {"served", "insert"} /\ ~resp[t].invalidate /\ Known(resp[t].stat)
            => resp[t].stat = HostStat(p)
    /\ \A k \in Keys : k = KeyOf(req[t]) /\ pc[t] \in {"served", "insert"} /\ ~resp[t].invalidate
         => resp[t].answer \in {HostAnswer(k), Err("Io")}

\* What a rename is about to move in the cache is what the host says of it at its new place.
Moving ==
  \A t \in Procs, k \in Keys, from \in Paths, to \in Paths, m \in Paths :
    /\ pc[t] \in {"served", "inval"} /\ resp[t].invalidate /\ req[t].op = "rename"
    /\ from = req[t].path /\ to = req[t].to
    /\ Under(to, k[2]) /\ m = Moved(k[2], to, from) /\ Known(cache[<<k[1], m>>])
    => cache[<<k[1], m>>] = HostAnswer(k)

\* The application has announced nothing.
Quiet == out.step = "idle"

\* As long as the tree stands, so does what the host says.
LEMMA SameTree ==
  ASSUME node' = node
  PROVE  (\A p \in Paths : HostStat(p)' = HostStat(p)) /\ (\A k \in Keys : HostAnswer(k)' = HostAnswer(k))
  BY DEF HostAnswer, HostStat, Children

\* After a rename the host says of the new place what it said of the old one: the file,
\* the directory and its listing move with their names.
LEMMA RenamedAnswer ==
  ASSUME TypeOK, NEW from \in Paths, NEW to \in Paths, node' = RenamedNodes(from, to),
         \A p \in Paths : Under(from, p) /\ node[p] # Absent => Moved(p, from, to) \in Paths,
         NEW k \in Keys, Under(to, k[2]), NEW m \in Paths, m = Moved(k[2], to, from)
  PROVE  HostAnswer(k)' = HostAnswer(<<k[1], m>>)
<1> DEFINE q == k[2]
<1>1. k = <<k[1], q>> /\ k[1] \in Reads /\ q \in Paths
  BY DEF Keys
<1>2. q \in Path /\ from \in Path /\ to \in Path /\ m \in Path
  BY <1>1, PathsType
<1>3. Under(from, m) /\ Moved(m, from, to) = q
  BY <1>2, MovedBack
<1> HIDE DEF q
<1>4. node'[q] = node[m]
  BY <1>1 DEF RenamedNodes, q
<1>5. ASSUME NEW c \in Paths, c # Root, Parent(c) = q
      PROVE  LET d == Moved(c, to, from)
             IN  /\ d \in Paths => node'[c] = node[d] /\ d # Root /\ Parent(d) = m /\ Name(d) = Name(c)
                 /\ d \notin Paths => node'[c] = Absent
  <2>1. c \in Path /\ Under(to, Parent(c))
    BY <1>5, PathsType DEF q
  <2>2. Under(to, c)
    BY <1>2, <1>5, <2>1, ParentUnder
  <2>3. /\ Moved(c, to, from) # Root /\ Name(Moved(c, to, from)) = Name(c)
        /\ Parent(Moved(c, to, from)) = m
    BY <1>2, <1>5, <2>1, MovedParent DEF q
  <2> QED
    BY <2>2, <2>3 DEF RenamedNodes
<1>6. ASSUME NEW d \in Paths, d # Root, Parent(d) = m, node[d] # Absent
      PROVE  LET c == Moved(d, from, to)
             IN  c \in Paths /\ c # Root /\ Parent(c) = q /\ Moved(c, to, from) = d
  <2>1. d \in Path /\ Under(from, Parent(d))
    BY <1>3, <1>6, PathsType
  <2>2. Under(from, d)
    BY <1>2, <1>6, <2>1, ParentUnder
  <2>3. Moved(d, from, to) # Root /\ Parent(Moved(d, from, to)) = q
    BY <1>2, <1>3, <1>6, <2>1, MovedParent
  <2>4. Moved(d, from, to) \in Paths
    BY <1>6, <2>2
  <2>5. Moved(Moved(d, from, to), to, from) = d
    BY <1>2, <2>1, <2>2, MovedBack
  <2> QED
    BY <2>3, <2>4, <2>5
<1>7. {<<Name(c), node'[c]>> : c \in Children(q)'} = {<<Name(d), node[d]>> : d \in Children(m)}
  <2>1. ASSUME NEW c \in Children(q)' PROVE <<Name(c), node'[c]>> \in {<<Name(d), node[d]>> : d \in Children(m)}
    <3>1. c \in Paths /\ c # Root /\ Parent(c) = q /\ node'[c] # Absent
      BY DEF Children
    <3>2. PICK d \in Paths : d = Moved(c, to, from)
      BY <1>5, <3>1
    <3>3. node'[c] = node[d] /\ d # Root /\ Parent(d) = m /\ Name(d) = Name(c)
      BY <1>5, <3>1, <3>2
    <3>4. d \in Children(m)
      BY <3>1, <3>3 DEF Children
    <3> QED
      BY <3>3, <3>4
  <2>2. ASSUME NEW d \in Children(m) PROVE <<Name(d), node[d]>> \in {<<Name(c), node'[c]>> : c \in Children(q)'}
    <3>1. d \in Paths /\ d # Root /\ Parent(d) = m /\ node[d] # Absent
      BY DEF Children
    <3>2. PICK c \in Paths : c = Moved(d, from, to) /\ c # Root /\ Parent(c) = q /\ Moved(c, to, from) = d
      BY <1>6, <3>1
    <3>3. node'[c] = node[d] /\ Name(d) = Name(c)
      BY <1>5, <3>1, <3>2
    <3>4. c \in Children(q)'
      BY <3>1, <3>2, <3>3 DEF Children
    <3> QED
      BY <3>3, <3>4
  <2> QED
    BY <2>1, <2>2
<1>8. k[2] = q /\ <<k[1], m>>[1] = k[1] /\ <<k[1], m>>[2] = m
  BY DEF q
<1>9. CASE k[1] # "list"
  BY <1>1, <1>4, <1>8, <1>9 DEF HostAnswer, HostStat, Reads
<1>10. CASE k[1] = "list"
  BY <1>4, <1>7, <1>8, <1>10 DEF HostAnswer, HostStat
<1> QED
  BY <1>9, <1>10

\* What is inserted is what the host says: the answer, the stats of listed entries and the
\* stat that came along.
LEMMA InsertedTold ==
  ASSUME TypeOK, NEW r \in Requests, NEW s \in Responses,
         IsRead(r) => s.answer \in {HostAnswer(KeyOf(r)), Err("Io")},
         Known(s.stat) => s.stat = HostStat(r.path),
         NEW k \in Keys, Inserted(cache, r, s)[k] # cache[k]
  PROVE  Inserted(cache, r, s)[k] = HostAnswer(k)
<1> DEFINE new == Inserted(cache, r, s)[k]
<1>1. k = <<k[1], k[2]>> /\ k[1] \in Reads /\ k[2] \in Paths /\ r.path \in Paths
  BY DEF Keys, Requests
<1>2. \/ IsRead(r) /\ k = KeyOf(r) /\ Cacheable(s.answer) /\ new = s.answer
      \/ /\ r.op = "list" /\ k[1] = "stat" /\ k[2] # Root /\ Parent(k[2]) = r.path
         /\ \E x \in s.answer.value : x[1] = Name(k[2])
         /\ new = Found((CHOOSE x \in s.answer.value : x[1] = Name(k[2]))[2])
      \/ k = <<"stat", r.path>> /\ Known(s.stat) /\ new = s.stat
  BY DEF Inserted
<1> HIDE DEF new
<1>3. CASE IsRead(r) /\ k = KeyOf(r) /\ Cacheable(s.answer) /\ new = s.answer
  <2>1. ~Cacheable(Err("Io"))
    BY AnswersDiffer DEF Cacheable
  <2> QED
    BY <1>3, <2>1 DEF new
<1>4. CASE k = <<"stat", r.path>> /\ Known(s.stat) /\ new = s.stat
  <2>1. HostAnswer(k) = HostStat(r.path)
    BY <1>4 DEF HostAnswer
  <2> QED
    BY <1>4, <2>1 DEF new
<1>5. CASE /\ r.op = "list" /\ k[1] = "stat" /\ k[2] # Root /\ Parent(k[2]) = r.path
           /\ \E x \in s.answer.value : x[1] = Name(k[2])
           /\ new = Found((CHOOSE x \in s.answer.value : x[1] = Name(k[2]))[2])
  <2>1. PICK x \in s.answer.value : x[1] = Name(k[2]) /\ new = Found(x[2])
    <3>1. PICK x : x = (CHOOSE y \in s.answer.value : y[1] = Name(k[2]))
      OBVIOUS
    <3>2. x \in s.answer.value /\ x[1] = Name(k[2])
      BY <1>5, <3>1
    <3> QED
      BY <1>5, <3>1, <3>2
  <2>2. s.answer = HostAnswer(<<"list", r.path>>)
    <3>1. IsRead(r) /\ KeyOf(r) = <<"list", r.path>>
      BY <1>5 DEF IsRead, Reads, KeyOf
    <3>2. s.answer # Err("Io")
      BY <2>1, AnswersDiffer
    <3> QED
      BY <3>1, <3>2
  <2>3. s.answer = Answer("none", {<<Name(q), node[q]>> : q \in Children(r.path)})
    <3>1. \A code : s.answer # Err(code)
      BY <2>1, AnswersDiffer
    <3>2. node[r.path] # Absent
      BY <2>2, <3>1 DEF HostAnswer, HostStat
    <3> QED
      BY <2>2, <3>1, <3>2 DEF HostAnswer
  <2>4. PICK q \in Children(r.path) : x = <<Name(q), node[q]>>
    BY <2>1, <2>3 DEF Answer
  <2>5. q \in Paths /\ q # Root /\ Parent(q) = r.path /\ node[q] # Absent
    BY <2>4 DEF Children
  <2>6. q = k[2]
    BY <1>1, <1>5, <2>1, <2>4, <2>5, PathsType, ParentAndName
  <2>7. new = Found(node[k[2]])
    BY <2>1, <2>4, <2>6
  <2>8. HostAnswer(k) = Found(node[k[2]])
    BY <1>5, <2>5, <2>6 DEF HostAnswer, HostStat
  <2> QED
    BY <2>7, <2>8 DEF new
<1> QED
  BY <1>2, <1>3, <1>4, <1>5

\* Only the task's own mutation is owed to the cache.
LEMMA OwedBy ==
  ASSUME Alone, Quiet, NEW t \in Procs, NEW k \in Keys, Owed(k)
  PROVE  /\ pc[t] \in {"served", "inval"} /\ resp[t].invalidate
         /\ Covers(req[t].path, k) \/ Covers(req[t].to, k)
  BY DEF Alone, Quiet, Owed

\* So nothing is owed when the task has no mutation under way, and the cache agrees.
LEMMA Agreed ==
  ASSUME Alone, Quiet, Coherent, NEW t \in Procs, ~(pc[t] \in {"served", "inval"} /\ resp[t].invalidate),
         NEW k \in Keys, Known(cache[k])
  PROVE  cache[k] = HostAnswer(k)
  BY OwedBy DEF Coherent

\* A request that is over leaves nothing to say of it.
LEMMA ReturnTold ==
  ASSUME TypeOK, Alone, NEW t \in Procs, Return(t)
  PROVE  Told' /\ Moving'
<1>1. \A u \in Procs : u = t
  BY DEF Alone
<1>2. pc'[t] = "idle"
  BY DEF Return, TypeOK
<1> QED
  BY <1>1, <1>2 DEF Told, Moving

\* The cache still agrees after a step that changes neither it nor the tree, if the task
\* owed nothing.
LEMMA CoherentKept ==
  ASSUME Alone, Quiet, Coherent, NEW t \in Procs, ~(pc[t] \in {"served", "inval"} /\ resp[t].invalidate),
         node' = node, cache' = cache
  PROVE  Coherent'
<1> SUFFICES ASSUME NEW k \in Keys, Known(cache[k])' PROVE cache'[k] = HostAnswer(k)'
  BY DEF Coherent
<1>1. cache[k] = HostAnswer(k)
  BY Agreed DEF Known
<1>2. HostAnswer(k)' = HostAnswer(k)
  BY SameTree
<1> QED
  BY <1>1, <1>2

\* Lookups, misses and the host's stat, and executions that end before the host answers.
LEMMA ToldAsk ==
  ASSUME TypeOK, Alone, Quiet, Coherent, Told, NEW t \in Procs,
         \/ \E op \in Ops, p \in Paths, q \in Paths : Look(t, op, p, q)
         \/ Send(t) \/ Resolve(t) \/ (Drop(t) /\ ~Return(t))
  PROVE  Coherent' /\ Told' /\ Moving'
<1>1. \A u \in Procs : u = t
  BY DEF Alone
<1>2. /\ node' = node /\ cache' = cache /\ pc[t] \in {"idle", "looked", "sent", "resolved"}
      /\ pc'[t] \in {"looked", "sent", "resolved"}
  BY DEF Look, Send, Resolve, Drop, TypeOK
<1>3. Coherent'
  BY <1>2, CoherentKept
<1>4. Moving'
  BY <1>1, <1>2 DEF Moving
<1>5. \A p \in Paths : HostStat(p)' = HostStat(p)
  BY <1>2, SameTree
<1>6. ASSUME NEW op \in Ops, NEW p \in Paths, NEW q \in Paths, Look(t, op, p, q) PROVE Told'
  <2> DEFINE r == [op |-> op, path |-> p, to |-> q,
                   hint |-> IF op = "stat" THEN NoAnswer ELSE cache[<<"stat", p>>],
                   toHint |-> IF op = "rename" THEN cache[<<"stat", q>>] ELSE NoAnswer]
  <2>1. req'[t] = r /\ pc'[t] = "looked" /\ pc[t] = "idle" /\ (op # "rename" => q = p)
    BY <1>6 DEF Look, TypeOK
  <2>2. r.op = op /\ r.path = p /\ r.to = q /\ r.hint = (IF op = "stat" THEN NoAnswer ELSE cache[<<"stat", p>>])
    OBVIOUS
  <2> HIDE DEF r
  <2>3. <<"stat", p>> \in Keys
    BY DEF Keys, Reads
  <2>4. Known(cache[<<"stat", p>>]) => cache[<<"stat", p>>] = HostStat(p)
    <3>1. HostAnswer(<<"stat", p>>) = HostStat(p)
      BY DEF HostAnswer
    <3> QED
      BY <2>1, <2>3, <3>1, Agreed
  <2>5. Known(r.hint) => r.hint = HostStat(p)'
    BY <1>5, <2>2, <2>4 DEF Known
  <2> QED
    BY <1>1, <2>1, <2>2, <2>5 DEF Told, Known
<1>7. CASE Send(t)
  <2>1. req' = req /\ pc'[t] = "sent" /\ pc[t] = "looked"
    BY <1>7 DEF Send, TypeOK
  <2>2. Told'
    BY <1>1, <1>5, <2>1 DEF Told, Known
  <2> QED
    BY <1>3, <1>4, <2>2
<1>8. CASE Drop(t) /\ ~Return(t)
  <2>1. UNCHANGED <<req, pc, resp>>
    BY <1>8 DEF Drop
  <2>2. Told'
    BY <1>1, <1>2, <1>5, <2>1 DEF Told, Known
  <2> QED
    BY <1>3, <1>4, <2>2
<1>9. CASE Resolve(t)
  <2>1. /\ req' = req /\ pc'[t] = "resolved" /\ pc[t] = "sent"
        /\ resp'[t].stat = IF req[t].op = "stat" THEN NoAnswer ELSE Resolved(req[t].path, req[t].hint)
    BY <1>9 DEF Resolve, TypeOK
  <2>2. PICK p \in Paths : p = req[t].path
    BY DEF TypeOK
  <2>3. Resolved(p, req[t].hint) = HostStat(p)
    BY <2>1, <2>2 DEF Told, Resolved
  <2>4. resp'[t].stat = IF req[t].op = "stat" THEN NoAnswer ELSE HostStat(p)'
    BY <1>5, <2>1, <2>2, <2>3
  <2>5. Told'
    BY <1>1, <2>1, <2>2, <2>4 DEF Told
  <2> QED
    BY <1>3, <1>4, <2>5
<1> QED
  BY <1>3, <1>4, <1>6, <1>7, <1>8, <1>9

\* The host's answer, and the change that its invalidation is to follow.
LEMMA ToldServe ==
  ASSUME TypeOK, Askers, Orderly, Alone, Quiet, Coherent, Told, NEW t \in Procs, Serve(t)
  PROVE  Coherent' /\ Told' /\ Moving'
<1>1. PICK o \in Outcomes(req[t], resp[t].stat) \cup {Failure("Io", resp[t].stat)} :
        /\ node' = o.node
        /\ \/ /\ ~gone[t]
              /\ pc' = [pc EXCEPT ![t] = "served"]
              /\ resp' = [resp EXCEPT ![t] = o.response]
              /\ UNCHANGED <<req, current, gone>>
           \/ gone[t] /\ Return(t)
  BY DEF Serve
<1>2. Proper(req[t], resp[t].stat, o)
  BY OutcomeProper DEF TypeOK, Requests
<1>3. pc[t] = "resolved" /\ cache' = cache /\ \A u \in Procs : u = t
  BY DEF Serve, Alone
<1>4. PICK p \in Paths : p = req[t].path
  BY DEF TypeOK
<1>5. resp[t].stat = IF req[t].op = "stat" THEN NoAnswer ELSE HostStat(p)
  BY <1>3, <1>4 DEF Told
<1>6. ~gone[t] => pc'[t] = "served" /\ resp'[t] = o.response /\ req' = req
  BY <1>1 DEF TypeOK
<1>7. req[t].op # "rename" => req[t].to = req[t].path
  BY <1>3 DEF Told
<1>8. CASE ~o.response.invalidate
  <2>1. node' = node /\ o.response.stat \in {resp[t].stat, NoAnswer}
    BY <1>1, <1>2, <1>3, <1>8, NoChange
  <2>2. Coherent'
    BY <1>3, <2>1, CoherentKept
  <2>3. CASE gone[t]
    BY <1>1, <2>2, <2>3, ReturnTold
  <2>4. CASE ~gone[t]
    <3>1. Moving'
      BY <1>3, <1>6, <1>8, <2>4 DEF Moving
    <3>2. Known(o.response.stat) => o.response.stat = HostStat(p)'
      BY <1>5, <2>1, SameTree DEF Known
    <3>3. ASSUME NEW k \in Keys, k = KeyOf(req[t]) PROVE o.response.answer \in {HostAnswer(k)', Err("Io")}
      <4>1. IsRead(req[t])
        BY <3>3 DEF KeyOf, Keys, IsRead
      <4>2. o \in ReadOutcomes(req[t], resp[t].stat) \cup {Failure("Io", resp[t].stat)}
        BY <4>1 DEF Outcomes, IsRead, Reads
      <4>3. req[t] \in Requests
        BY DEF TypeOK, Requests
      <4>4. o.response.answer \in {HostAnswer(k), Err("Io")}
        BY <1>4, <1>5, <3>3, <4>1, <4>2, <4>3, ReadTold
      <4> QED
        BY <2>1, <4>4, SameTree
    <3>4. Told'
      <4>1. KeyOf(req[t])' = KeyOf(req[t])
        BY <1>6, <2>4 DEF KeyOf
      <4> QED
        BY <1>3, <1>4, <1>6, <1>7, <1>8, <2>4, <3>2, <3>3, <4>1 DEF Told, Known
    <3> QED
      BY <2>2, <3>1, <3>4
  <2> QED
    BY <2>3, <2>4
<1>9. CASE o.response.invalidate
  <2>1. /\ ~IsRead(req[t]) /\ ~gone[t] /\ req[t].path \in Paths /\ req[t].to \in Paths
        /\ \A q \in Paths : node'[q] # node[q] => Under(req[t].path, q) \/ Under(req[t].to, q)
    BY <1>1, <1>2, <1>3, <1>9, ChangeUnder
  <2>2. pc'[t] = "served" /\ resp'[t] = o.response /\ req' = req
    BY <1>6, <2>1
  <2>3. Told'
    BY <1>3, <1>7, <1>9, <2>2 DEF Told
  <2>4. Coherent'
    <3> SUFFICES ASSUME NEW k \in Keys, Known(cache[k])', ~Owed(k)' PROVE cache'[k] = HostAnswer(k)'
      BY DEF Coherent
    <3>1. cache[k] = HostAnswer(k)
      BY <1>3, Agreed DEF Known
    <3>2. ~Covers(req[t].path, k) /\ ~Covers(req[t].to, k)
      BY <1>9, <2>2 DEF Owed
    <3>3. HostAnswer(k)' = HostAnswer(k)
      BY <2>1, <3>2, AnswerStays
    <3> QED
      BY <1>3, <3>1, <3>3
  <2>5. Moving'
    <3> SUFFICES ASSUME NEW k \in Keys, NEW to \in Paths, NEW m \in Paths,
                        req[t].op = "rename", to = req[t].to, Under(to, k[2]), m = Moved(k[2], to, p),
                        Known(cache[<<k[1], m>>])
                 PROVE  cache[<<k[1], m>>] = HostAnswer(k)'
      BY <1>3, <1>4, <2>2 DEF Moving, Known
    <3>1. /\ o.node = RenamedNodes(p, to)
          /\ \A q \in Paths : Under(p, q) /\ node[q] # Absent => Moved(q, p, to) \in Paths
      BY <1>2, <1>3, <1>4, <1>9 DEF Proper, Askers, Orderly
    <3>2. HostAnswer(k)' = HostAnswer(<<k[1], m>>)
      BY <1>1, <3>1, RenamedAnswer
    <3>3. <<k[1], m>> \in Keys
      BY DEF Keys
    <3> QED
      BY <1>3, <3>2, <3>3, Agreed
  <2> QED
    BY <2>3, <2>4, <2>5
<1> QED
  BY <1>8, <1>9

\* The generation moves for a mutation, or its check passes.
LEMMA ToldReceive ==
  ASSUME TypeOK, Alone, Quiet, Coherent, Told, Moving, NEW t \in Procs, Receive(t)
  PROVE  Coherent' /\ Told' /\ Moving'
<1>1. pc[t] = "served" /\ UNCHANGED <<node, cache, out>> /\ \A u \in Procs : u = t
  BY DEF Receive, Alone
<1>2. /\ \A p \in Paths : HostStat(p)' = HostStat(p)
      /\ \A k \in Keys : HostAnswer(k)' = HostAnswer(k)
  BY <1>1, SameTree
<1>3. CASE ~resp[t].invalidate
  <2>1. Coherent'
    BY <1>1, <1>3, CoherentKept
  <2>2. CASE Return(t)
    BY <2>1, <2>2, ReturnTold
  <2>3. CASE ~Return(t)
    <3>1. pc'[t] = "insert" /\ UNCHANGED <<req, resp>>
      BY <1>3, <2>3 DEF Receive, TypeOK
    <3>2. Told'
      BY <1>1, <1>2, <1>3, <3>1 DEF Told, Known, KeyOf
    <3>3. Moving'
      BY <1>1, <3>1 DEF Moving
    <3> QED
      BY <2>1, <3>2, <3>3
  <2> QED
    BY <2>2, <2>3
<1>4. CASE resp[t].invalidate
  <2>1. pc'[t] = "inval" /\ UNCHANGED <<req, resp>>
    BY <1>4 DEF Receive, TypeOK
  <2>2. Told'
    BY <1>1, <1>4, <2>1 DEF Told
  <2>3. Moving'
    BY <1>1, <1>2, <2>1 DEF Moving
  <2>4. Coherent'
    <3> SUFFICES ASSUME NEW k \in Keys, Known(cache[k])', ~Owed(k)' PROVE cache'[k] = HostAnswer(k)'
      BY DEF Coherent
    <3>1. ~Owed(k)
      <4>1. ~Covers(req[t].path, k) /\ ~Covers(req[t].to, k)
        BY <1>4, <2>1 DEF Owed
      <4> QED
        BY <4>1, OwedBy
    <3> QED
      BY <1>1, <1>2, <3>1 DEF Coherent, Known
  <2> QED
    BY <2>2, <2>3, <2>4
<1> QED
  BY <1>3, <1>4

\* What is inserted is what the host says.
LEMMA ToldInsert ==
  ASSUME TypeOK, Alone, Quiet, Coherent, Told, NEW t \in Procs, Insert(t)
  PROVE  Coherent' /\ Told' /\ Moving'
<1>1. /\ pc[t] = "insert" /\ Return(t) /\ node' = node /\ cache' = Inserted(cache, req[t], resp[t])
  BY DEF Insert
<1>2. req[t] \in Requests /\ resp[t] \in Responses /\ req[t].path \in Paths
  BY DEF TypeOK, Requests, Responses
<1>3. Known(resp[t].stat) => resp[t].stat = HostStat(req[t].path)
  BY <1>1, <1>2 DEF Told
<1>4. IsRead(req[t]) => resp[t].answer \in {HostAnswer(KeyOf(req[t])), Err("Io")}
  <2>1. IsRead(req[t]) => KeyOf(req[t]) \in Keys
    BY <1>2 DEF IsRead, KeyOf, Keys
  <2> QED
    BY <1>1, <2>1 DEF Told
<1>5. Coherent'
  <2> SUFFICES ASSUME NEW k \in Keys, Known(cache[k])' PROVE cache'[k] = HostAnswer(k)'
    BY DEF Coherent
  <2>1. HostAnswer(k)' = HostAnswer(k)
    BY <1>1, SameTree
  <2>2. CASE cache'[k] # cache[k]
    BY <1>1, <1>2, <1>3, <1>4, <2>1, <2>2, InsertedTold
  <2>3. CASE cache'[k] = cache[k]
    BY <1>1, <2>1, <2>3, Agreed DEF Known
  <2> QED
    BY <2>2, <2>3
<1> QED
  BY <1>1, <1>5, ReturnTold

\* What a mutation leaves in the cache is what the host still says, what a rename moves in
\* it is what the host says now.
LEMMA ToldInvalidate ==
  ASSUME TypeOK, Alone, Quiet, Coherent, Told, Moving, NEW t \in Procs, Invalidate(t)
  PROVE  Coherent' /\ Told' /\ Moving'
<1>1. /\ pc[t] = "inval" /\ resp[t].invalidate /\ Return(t) /\ node' = node
      /\ req[t].op # "rename" => req[t].to = req[t].path
      /\ req[t].path \in Paths /\ req[t].to \in Paths
  BY DEF Invalidate, Told, TypeOK
<1>2. ASSUME NEW k \in Keys, ~Covers(req[t].path, k), ~Covers(req[t].to, k), Known(cache[k])
      PROVE  cache[k] = HostAnswer(k)
  BY <1>2, OwedBy DEF Coherent
<1>3. Coherent'
  <2> SUFFICES ASSUME NEW k \in Keys, Known(cache[k])' PROVE cache'[k] = HostAnswer(k)'
    BY DEF Coherent
  <2>1. HostAnswer(k)' = HostAnswer(k)
    BY <1>1, SameTree
  <2>2. CASE req[t].op # "rename"
    <3>1. cache' = Invalidated(cache, req[t].path)
      BY <2>2 DEF Invalidate
    <3>2. ~Covers(req[t].path, k) /\ cache'[k] = cache[k]
      BY <3>1 DEF Invalidated, Known
    <3> QED
      BY <1>1, <1>2, <2>1, <2>2, <3>2 DEF Known
  <2>3. CASE req[t].op = "rename"
    <3> DEFINE from == req[t].path
               to == req[t].to
               m == Moved(k[2], to, from)
    <3>1. cache' = RenamedCache(cache, from, to)
      BY <2>3 DEF Invalidate
    <3>2. /\ k \notin {<<"list", Parent(from)>>, <<"list", Parent(to)>>}
          /\ \/ Under(to, k[2]) /\ m \in Paths /\ cache'[k] = cache[<<k[1], m>>]
             \/ ~Under(to, k[2]) /\ ~Under(from, k[2]) /\ cache'[k] = cache[k]
      BY <3>1 DEF RenamedCache, Known
    <3>3. CASE Under(to, k[2]) /\ m \in Paths /\ cache'[k] = cache[<<k[1], m>>]
      <4>1. cache[<<k[1], m>>] = HostAnswer(k)
        BY <1>1, <2>3, <3>3 DEF Moving, Known
      <4> QED
        BY <2>1, <3>3, <4>1
    <3>4. CASE ~Under(to, k[2]) /\ ~Under(from, k[2]) /\ cache'[k] = cache[k]
      BY <1>2, <2>1, <3>2, <3>4 DEF Covers, Known
    <3> QED
      BY <3>2, <3>3, <3>4
  <2> QED
    BY <2>2, <2>3
<1> QED
  BY <1>1, <1>3, ReturnTold

\* Every step of the one task keeps the cache in agreement.
LEMMA CoherentStep ==
  ASSUME TypeOK, Askers, Orderly, Alone, Quiet, Coherent, Told, Moving, [Next]_vars
  PROVE  Quiet' /\ Coherent' /\ Told' /\ Moving'
<1>1. CASE UNCHANGED vars
  <2>1. UNCHANGED <<node, cache, pc, req, resp, out>>
    BY <1>1 DEF vars
  <2>2. /\ \A p \in Paths : HostStat(p)' = HostStat(p)
        /\ \A k \in Keys : HostAnswer(k)' = HostAnswer(k)
    BY <2>1, SameTree
  <2>3. \A k \in Keys : Owed(k)' <=> Owed(k)
    BY <2>1 DEF Owed
  <2>4. Quiet'
    BY <2>1 DEF Quiet
  <2>5. Coherent'
    BY <2>1, <2>2, <2>3 DEF Coherent, Known
  <2>6. Told'
    BY <2>1, <2>2 DEF Told, Known, KeyOf
  <2>7. Moving'
    BY <2>1, <2>2 DEF Moving, Known
  <2> QED
    BY <2>4, <2>5, <2>6, <2>7
<1>2. ~InvalidateBegins /\ ~InvalidateEnds /\ ~\E p \in Paths, v \in Versions : OutsideChange(p, v)
  BY DEF InvalidateBegins, InvalidateEnds, OutsideChange, Alone, Quiet
<1>3. ASSUME NEW t \in Procs, Task(t) PROVE Quiet' /\ Coherent' /\ Told' /\ Moving'
  <2>1. Quiet'
    BY <1>3 DEF Task, Look, Hit, Send, Resolve, Serve, Receive, Insert, Invalidate, Drop, Quiet
  <2>2. CASE Hit(t) \/ (Drop(t) /\ Return(t))
    <3>1. Return(t) /\ node' = node /\ cache' = cache
      BY <2>2 DEF Hit, Drop
    <3>2. ~(pc[t] \in {"served", "inval"} /\ resp[t].invalidate)
      BY <2>2 DEF Hit, Drop, Askers, Orderly, IsRead
    <3> QED
      BY <2>1, <3>1, <3>2, ReturnTold, CoherentKept
  <2> QED
    BY <1>3, <2>1, <2>2, ToldAsk, ToldServe, ToldReceive, ToldInsert, ToldInvalidate DEF Task
<1> QED
  BY <1>1, <1>2, <1>3 DEF Next

\* An empty cache agrees with every host.
LEMMA AgreesInit == Init => Quiet /\ Coherent /\ Told /\ Moving
<1> SUFFICES ASSUME Init PROVE Quiet /\ Coherent /\ Told /\ Moving
  OBVIOUS
<1>1. Quiet
  BY DEF Init, Quiet
<1>2. Coherent
  BY DEF Init, Coherent, Known
<1>3. \A t \in Procs : pc[t] = "idle"
  BY DEF Init
<1> QED
  BY <1>1, <1>2, <1>3 DEF Told, Moving

\* With one task, and no changes behind the cache, every cached answer - a file, a stat, a
\* listing, an error where errors are cached - is what the host would answer now, unless
\* the task's own mutation is about to drop it: request_with_rename, VfsCache::invalidate
\* and VfsCache::rename agree with invoke_vfs_handler for every tree, every sequence of
\* operations and executions that end in the middle of a read.
THEOREM CacheAgrees == Orderly /\ Alone => (Spec => []Coherent)
<1> SUFFICES ASSUME Orderly, Alone PROVE Spec => []Coherent
  OBVIOUS
<1>1. TypeOK /\ Askers /\ Quiet /\ Coherent /\ Told /\ Moving /\ [Next]_vars => Quiet' /\ Coherent' /\ Told' /\ Moving'
  BY CoherentStep
<1> QED
  BY <1>1, AgreesInit, TypeOKInit, TypeOKStep, AskersInit, AskersStep, PTL DEF Spec

\* With one task the stat that a request takes along is still the host's when it comes
\* back: a mutation in between is what request_with_rename's generation cannot tell.
THEOREM FreshAlone == Orderly /\ Alone => (Spec => []NothingStaleInserted)
<1> SUFFICES ASSUME Orderly, Alone PROVE Spec => []NothingStaleInserted
  OBVIOUS
<1>1. TypeOK /\ Told => NothingStaleInserted
  <2> SUFFICES ASSUME TypeOK, Told, NEW t \in Procs, pc[t] = "insert", Cacheable(resp[t].stat)
               PROVE  resp[t].stat = HostAnswer(<<"stat", req[t].path>>)
    BY DEF NothingStaleInserted
  <2>1. PICK p \in Paths : p = req[t].path
    BY DEF TypeOK
  <2>2. Known(resp[t].stat)
    BY DEF Known, NoAnswer, Answer, Cacheable
  <2>3. resp[t].stat = HostStat(p)
    BY <2>1, <2>2 DEF Told
  <2> QED
    BY <2>1, <2>3 DEF HostAnswer
<1>2. TypeOK /\ Askers /\ Quiet /\ Coherent /\ Told /\ Moving /\ [Next]_vars => Quiet' /\ Coherent' /\ Told' /\ Moving'
  BY CoherentStep
<1> QED
  BY <1>1, <1>2, AgreesInit, TypeOKInit, TypeOKStep, AskersInit, AskersStep, PTL DEF Spec
=============================================================================
