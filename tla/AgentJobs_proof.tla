---------------------------- MODULE AgentJobs_proof ---------------------------
(***************************************************************************)
(* Proofs about an agent and its background jobs, for any messages, jobs,  *)
(* limits and numbers of cancellations and failures.                       *)
(*                                                                         *)
(* The places a message can be are disjoint and make up what was sent.     *)
(* That an idle agent owes nobody a turn rests on the latched wake: while  *)
(* no turn is going to look at the inbox, a message that is neither quiet  *)
(* nor parked is there only if the wake is latched.  That the end of a job *)
(* is told once rests on the report: it is set for what is known, and for  *)
(* what a call that has been resolved is about to read.                    *)
(***************************************************************************)
EXTENDS AgentJobs, FunctionTheorems, FiniteSetTheorems, SequenceTheorems, TLAPS

-----------------------------------------------------------------------------
(* Lists without repetition *)

List(s) == s \in Seq(Msg) /\ IsInjective(s)

LEMMA EmptyList == List(<< >>) /\ Range(<< >>) = {} /\ Len(<< >>) = 0
BY DEF List, IsInjective, Range

LEMMA AppendToList ==
    ASSUME NEW s, List(s), NEW m \in Msg, m \notin Range(s)
    PROVE  List(Append(s, m)) /\ Range(Append(s, m)) = Range(s) \cup {m}
<1> DEFINE new == Append(s, m)
<1>1. /\ s \in Seq(Msg) /\ Len(s) \in Nat /\ DOMAIN s = 1 .. Len(s)
      /\ new \in Seq(Msg) /\ DOMAIN new = 1 .. Len(s) + 1
      /\ new[Len(s) + 1] = m /\ \A i \in 1 .. Len(s) : new[i] = s[i]
  BY DEF List
<1> HIDE DEF new
<1>2. \A i \in DOMAIN new : i \in DOMAIN s \/ i = Len(s) + 1
  BY <1>1
<1>3. \A i \in DOMAIN s : s[i] # m /\ i \in DOMAIN new
  BY <1>1 DEF Range
<1>4. IsInjective(new)
  BY <1>1, <1>2, <1>3 DEF IsInjective, List
<1>5. Range(new) = Range(s) \cup {m}
  BY <1>1, <1>2, <1>3 DEF Range
<1> QED BY <1>1, <1>4, <1>5 DEF List, new

LEMMA HeadAndTail ==
    ASSUME NEW s, List(s), s # << >>
    PROVE  /\ List(Tail(s)) /\ Head(s) \in Msg
           /\ Range(s) = Range(Tail(s)) \cup {Head(s)} /\ Head(s) \notin Range(Tail(s))
<1>1. /\ s \in Seq(Msg) /\ Len(s) \in Nat /\ Len(s) >= 1 /\ DOMAIN s = 1 .. Len(s)
      /\ Tail(s) \in Seq(Msg) /\ DOMAIN Tail(s) = 1 .. Len(s) - 1 /\ Head(s) = s[1] /\ Head(s) \in Msg
      /\ \A i \in 1 .. Len(s) - 1 : Tail(s)[i] = s[i + 1]
  BY DEF List
<1>2. \A i \in DOMAIN Tail(s) : i + 1 \in DOMAIN s /\ i + 1 # 1
  BY <1>1
<1>3. \A i \in DOMAIN s : i = 1 \/ (i - 1 \in DOMAIN Tail(s) /\ i = (i - 1) + 1)
  BY <1>1
<1>4. IsInjective(Tail(s))
  <2> SUFFICES ASSUME NEW a \in DOMAIN Tail(s), NEW b \in DOMAIN Tail(s), Tail(s)[a] = Tail(s)[b] PROVE a = b
    BY DEF IsInjective
  <2>1. a + 1 = b + 1
    BY <1>1, <1>2 DEF IsInjective, List
  <2> QED BY <1>1, <2>1
<1>5. 1 \in DOMAIN s
  BY <1>1
<1>6. Head(s) \notin Range(Tail(s))
  BY <1>1, <1>2, <1>5 DEF Range, IsInjective, List
<1>7. Range(s) = Range(Tail(s)) \cup {Head(s)}
  <2>1. \A i \in DOMAIN s : s[i] = Head(s) \/ \E k \in DOMAIN Tail(s) : s[i] = Tail(s)[k]
    BY <1>1, <1>3
  <2>2. \A k \in DOMAIN Tail(s) : Tail(s)[k] = s[k + 1]
    BY <1>1
  <2>3. Range(s) \subseteq Range(Tail(s)) \cup {Head(s)}
    BY <2>1 DEF Range
  <2>4. Range(Tail(s)) \cup {Head(s)} \subseteq Range(s)
    BY <1>1, <1>2, <1>5, <2>2 DEF Range
  <2> QED BY <2>3, <2>4
<1> QED BY <1>1, <1>4, <1>6, <1>7 DEF List

LEMMA WithoutRemoves ==
    ASSUME NEW s, List(s), NEW m
    PROVE  List(Without(s, m)) /\ Range(Without(s, m)) = Range(s) \ {m}
<1>1. CASE m \notin Range(s)
  BY <1>1 DEF Without
<1>2. CASE m \in Range(s)
  <2> DEFINE i == CHOOSE i \in DOMAIN s : s[i] = m
             new == SubSeq(s, 1, i - 1) \o SubSeq(s, i + 1, Len(s))
  <2>1. s \in Seq(Msg) /\ Len(s) \in Nat /\ DOMAIN s = 1 .. Len(s)
    BY DEF List
  <2>2. i \in 1 .. Len(s) /\ s[i] = m
    BY <1>2, <2>1 DEF Range
  <2>3. Without(s, m) = new
    BY <1>2 DEF Without, RemoveAt
  <2> HIDE DEF i
  <2>4. /\ SubSeq(s, 1, i - 1) \in Seq(Msg) /\ Len(SubSeq(s, 1, i - 1)) = i - 1
        /\ \A k \in 1 .. i - 1 : SubSeq(s, 1, i - 1)[k] = s[k]
    BY <2>1, <2>2
  <2>5. /\ SubSeq(s, i + 1, Len(s)) \in Seq(Msg) /\ Len(SubSeq(s, i + 1, Len(s))) = Len(s) - i
        /\ \A k \in 1 .. Len(s) - i : SubSeq(s, i + 1, Len(s))[k] = s[k + i]
    <3> DEFINE j == i + 1
    <3>1. j \in 1 .. Len(s) + 1 /\ Len(s) - j + 1 = Len(s) - i
      BY <2>1, <2>2
    <3>2. \A k : (j \in Int /\ k \in Int) => j + k - 1 = k + i
      BY <2>1, <2>2
    <3> HIDE DEF j
    <3>3. SubSeq(s, j, Len(s)) \in Seq(Msg)
      BY <2>1, <3>1
    <3>4. Len(SubSeq(s, j, Len(s))) = Len(s) - j + 1
      BY <2>1, <3>1
    <3>5. \A k \in 1 .. Len(s) - j + 1 : SubSeq(s, j, Len(s))[k] = s[j + k - 1]
      BY <2>1, <3>1
    <3>6. \A k \in 1 .. Len(s) - i : s[j + k - 1] = s[k + i]
      BY <2>1, <3>1, <3>2
    <3>7. \A k \in 1 .. Len(s) - i : SubSeq(s, j, Len(s))[k] = s[k + i]
      BY <3>1, <3>5, <3>6
    <3> QED BY <3>1, <3>3, <3>4, <3>7 DEF j
  <2>6. /\ new \in Seq(Msg) /\ DOMAIN new = 1 .. Len(s) - 1
        /\ \A k \in 1 .. i - 1 : new[k] = s[k]
        /\ \A k \in i .. Len(s) - 1 : new[k] = s[k + 1]
    <3> DEFINE a == SubSeq(s, 1, i - 1)
               b == SubSeq(s, i + 1, Len(s))
    <3>1. new = a \o b /\ a \in Seq(Msg) /\ b \in Seq(Msg) /\ Len(a) = i - 1 /\ Len(b) = Len(s) - i
      BY <2>4, <2>5
    <3> HIDE DEF a, b, new
    <3>2. a \o b \in Seq(Msg) /\ Len(a \o b) = Len(a) + Len(b) /\ DOMAIN (a \o b) = 1 .. Len(a \o b)
      <4>1. a \o b \in Seq(Msg)
        BY <3>1
      <4>2. Len(a \o b) = Len(a) + Len(b)
        BY <3>1, ConcatProperties
      <4>3. DOMAIN (a \o b) = 1 .. Len(a \o b)
        BY <4>1
      <4> QED BY <4>1, <4>2, <4>3
    <3>3. DOMAIN new = 1 .. Len(s) - 1 /\ new \in Seq(Msg)
      <4>1. Len(a) + Len(b) = Len(s) - 1
        BY <2>1, <2>2, <3>1
      <4> QED BY <3>1, <3>2, <4>1
    <3>4. \A k \in 1 .. Len(a) : new[k] = a[k]
      BY <3>1
    <3>5. \A k \in Len(a) + 1 .. Len(a) + Len(b) : new[k] = b[k - Len(a)]
      BY <3>1
    <3>6. \A k \in 1 .. i - 1 : new[k] = s[k]
      BY <2>4, <3>1, <3>4 DEF a
    <3>7. ASSUME NEW k \in i .. Len(s) - 1 PROVE new[k] = s[k + 1]
      <4>1. /\ k \in Len(a) + 1 .. Len(a) + Len(b) /\ k - Len(a) = k - i + 1
            /\ k - i + 1 \in 1 .. Len(s) - i /\ (k - i + 1) + i = k + 1
        BY <2>1, <2>2, <3>1
      <4>2. b[k - i + 1] = s[k + 1]
        BY <2>5, <4>1 DEF b
      <4> QED BY <3>5, <4>1, <4>2
    <3> QED BY <3>2, <3>3, <3>6, <3>7
  <2> HIDE DEF new
  <2> DEFINE from(k) == IF k < i THEN k ELSE k + 1
  <2>7. \A k \in DOMAIN new : from(k) \in DOMAIN s /\ from(k) # i /\ new[k] = s[from(k)]
    BY <2>1, <2>2, <2>6
  <2>8. \A k \in DOMAIN s : k # i => \E l \in DOMAIN new : k = from(l)
    <3> TAKE k \in DOMAIN s
    <3>1. CASE k < i
      BY <2>1, <2>2, <2>6, <3>1
    <3>2. CASE k > i
      <4>1. k - 1 \in DOMAIN new /\ k = from(k - 1)
        BY <2>1, <2>2, <2>6, <3>2
      <4> QED BY <4>1
    <3> QED BY <2>1, <2>2, <3>1, <3>2
  <2>9. \A k, l \in DOMAIN new : from(k) = from(l) => k = l
    BY <2>1, <2>2, <2>6
  <2> HIDE DEF from
  <2>10. IsInjective(new)
    BY <2>7, <2>9 DEF IsInjective, List
  <2>11. \A k \in DOMAIN s : s[k] = m => k = i
    BY <2>1, <2>2 DEF IsInjective, List
  <2>12. Range(new) = Range(s) \ {m}
    BY <2>7, <2>8, <2>2, <2>11 DEF Range
  <2> QED BY <2>3, <2>6, <2>10, <2>12 DEF List
<1> QED BY <1>1, <1>2

LEMMA ListIsCounted ==
    ASSUME NEW s, List(s)
    PROVE  IsFiniteSet(Range(s)) /\ Cardinality(Range(s)) = Len(s)
<1>1. s \in [1 .. Len(s) -> Range(s)] /\ Len(s) \in Nat
  BY DEF List, Range
<1>2. s \in Bijection(1 .. Len(s), Range(s))
  BY <1>1 DEF Bijection, Injection, Surjection, List, Range
<1>3. ExistsBijection(1 .. Len(s), Range(s))
  BY <1>2 DEF ExistsBijection
<1> QED BY <1>1, <1>3, FS_CountingElements, FS_NatBijection

-----------------------------------------------------------------------------
(* Where messages are *)

\* Six places, no two of them with a message in common, make up the sent.
Apart(A, B, C, h, d, x, s) ==
    /\ A \cap B = {} /\ A \cap C = {} /\ B \cap C = {}
    /\ (A \cup B \cup C) \cap (h \cup d \cup x) = {}
    /\ h \cap d = {} /\ h \cap x = {} /\ d \cap x = {}
    /\ s = A \cup B \cup C \cup h \cup d \cup x

Placed(nt, ns, b, h, d, x, s) ==
    /\ List(nt) /\ List(ns) /\ List(b) /\ IsFiniteSet(s) /\ s \subseteq Msg
    /\ Apart(Range(nt), Range(ns), Range(b), h, d, x, s)

LEMMA PlacedAtInit == Placed(<< >>, << >>, << >>, {}, {}, {}, {})
BY EmptyList, FS_EmptySet DEF Placed, Apart

\* A new message is put at the end of one of the two lists.
LEMMA PlaceNew ==
    ASSUME NEW nt, NEW ns, NEW b, NEW h, NEW d, NEW x, NEW s, Placed(nt, ns, b, h, d, x, s),
           NEW m \in Msg, m \notin s
    PROVE  /\ Placed(Append(nt, m), ns, b, h, d, x, s \cup {m})
           /\ Placed(nt, Append(ns, m), b, h, d, x, s \cup {m})
<1>1. m \notin Range(nt) /\ m \notin Range(ns)
  BY DEF Placed, Apart
<1>2. /\ List(Append(nt, m)) /\ Range(Append(nt, m)) = Range(nt) \cup {m}
      /\ List(Append(ns, m)) /\ Range(Append(ns, m)) = Range(ns) \cup {m}
  BY <1>1, AppendToList DEF Placed
<1>3. IsFiniteSet(s \cup {m}) /\ s \cup {m} \subseteq Msg
  BY FS_AddElement DEF Placed
<1>4. /\ Apart(Range(nt) \cup {m}, Range(ns), Range(b), h, d, x, s \cup {m})
      /\ Apart(Range(nt), Range(ns) \cup {m}, Range(b), h, d, x, s \cup {m})
  BY DEF Placed, Apart
<1> QED BY <1>2, <1>3, <1>4 DEF Placed

\* Next-step input, and the first prompt if there is one, are claimed.
LEMMA PlaceClaim ==
    ASSUME NEW nt, NEW ns, NEW h, NEW d, NEW x, NEW s, Placed(nt, ns, << >>, h, d, x, s)
    PROVE  /\ Placed(nt, << >>, ns, h, d, x, s)
           /\ nt # << >> => Placed(Tail(nt), << >>, Append(ns, Head(nt)), h, d, x, s)
<1>1. List(nt) /\ List(ns) /\ IsFiniteSet(s) /\ s \subseteq Msg
      /\ Apart(Range(nt), Range(ns), {}, h, d, x, s)
  BY EmptyList DEF Placed
<1>2. Apart(Range(nt), {}, Range(ns), h, d, x, s)
  BY <1>1 DEF Apart
<1>3. ASSUME nt # << >> PROVE Placed(Tail(nt), << >>, Append(ns, Head(nt)), h, d, x, s)
  <2>1. /\ List(Tail(nt)) /\ Head(nt) \in Msg
        /\ Range(nt) = Range(Tail(nt)) \cup {Head(nt)} /\ Head(nt) \notin Range(Tail(nt))
    BY <1>1, <1>3, HeadAndTail
  <2>2. Head(nt) \notin Range(ns)
    BY <1>1, <2>1 DEF Apart
  <2>3. List(Append(ns, Head(nt))) /\ Range(Append(ns, Head(nt))) = Range(ns) \cup {Head(nt)}
    BY <1>1, <2>1, <2>2, AppendToList
  <2>4. Apart(Range(Tail(nt)), {}, Range(ns) \cup {Head(nt)}, h, d, x, s)
    BY <1>1, <2>1 DEF Apart
  <2> QED BY <1>1, <2>1, <2>3, <2>4, EmptyList DEF Placed
<1> QED BY <1>1, <1>2, <1>3, EmptyList DEF Placed

\* A proposed batch enters the session, or is dropped.
LEMMA PlaceBatch ==
    ASSUME NEW nt, NEW ns, NEW b, NEW h, NEW d, NEW x, NEW s, Placed(nt, ns, b, h, d, x, s)
    PROVE  /\ Placed(nt, ns, << >>, h \cup Range(b), d, x, s)
           /\ Placed(nt, ns, << >>, h, d \cup Range(b), x, s)
<1>1. /\ Apart(Range(nt), Range(ns), {}, h \cup Range(b), d, x, s)
      /\ Apart(Range(nt), Range(ns), {}, h, d \cup Range(b), x, s)
  BY DEF Placed, Apart
<1> QED BY <1>1, EmptyList DEF Placed

LEMMA PlaceClear ==
    ASSUME NEW nt, NEW ns, NEW b, NEW h, NEW d, NEW x, NEW s, Placed(nt, ns, b, h, d, x, s)
    PROVE  Placed(<< >>, << >>, b, h, d, x \cup (Range(nt) \cup Range(ns)), s)
<1>1. Apart({}, {}, Range(b), h, d, x \cup (Range(nt) \cup Range(ns)), s)
  BY DEF Placed, Apart
<1> QED BY <1>1, EmptyList DEF Placed

\* A pending message is taken out: for good, or to be put in again.
LEMMA PlaceRemove ==
    ASSUME NEW nt, NEW ns, NEW b, NEW h, NEW d, NEW x, NEW s, Placed(nt, ns, b, h, d, x, s),
           NEW m \in Range(nt) \cup Range(ns)
    PROVE  /\ Placed(Without(nt, m), Without(ns, m), b, h, d, x \cup {m}, s)
           /\ Placed(Without(nt, m), Without(ns, m), b, h, d, x, s \ {m})
<1>1. /\ List(Without(nt, m)) /\ Range(Without(nt, m)) = Range(nt) \ {m}
      /\ List(Without(ns, m)) /\ Range(Without(ns, m)) = Range(ns) \ {m}
  BY WithoutRemoves DEF Placed
<1>2. Apart(Range(nt) \ {m}, Range(ns) \ {m}, Range(b), h, d, x \cup {m}, s)
  BY DEF Placed, Apart
<1>3. Apart(Range(nt) \ {m}, Range(ns) \ {m}, Range(b), h, d, x, s \ {m})
  BY DEF Placed, Apart
<1>4. IsFiniteSet(s \ {m})
  BY FS_Subset DEF Placed
<1> QED BY <1>1, <1>2, <1>3, <1>4 DEF Placed

\* What is placed so is counted so.
LEMMA PlacedIsCounted ==
    ASSUME NEW nt, NEW ns, NEW b, NEW h, NEW d, NEW x, NEW s, Placed(nt, ns, b, h, d, x, s)
    PROVE  /\ IsInjective(nt \o ns \o b)
           /\ Cardinality(Range(nt) \cup Range(ns)) + Len(b) + Cardinality(h) + Cardinality(d) + Cardinality(x)
                = Cardinality(s)
<1>1. IsInjective(nt \o ns \o b)
  <2> DEFINE all == nt \o ns \o b
             p == Len(nt)
             q == Len(nt) + Len(ns)
  <2>1. nt \in Seq(Msg) /\ ns \in Seq(Msg) /\ b \in Seq(Msg) /\ nt \o ns \in Seq(Msg)
    BY ConcatProperties DEF Placed, List
  <2>2. /\ Len(nt) \in Nat /\ Len(ns) \in Nat /\ Len(b) \in Nat
        /\ DOMAIN nt = 1 .. Len(nt) /\ DOMAIN ns = 1 .. Len(ns) /\ DOMAIN b = 1 .. Len(b)
        /\ Len(nt \o ns) = q
    BY <2>1, ConcatProperties
  <2>3. all \in Seq(Msg) /\ Len(all) = q + Len(b) /\ DOMAIN all = 1 .. q + Len(b)
    <3>1. all \in Seq(Msg) /\ Len(all) = Len(nt \o ns) + Len(b)
      BY <2>1, ConcatProperties
    <3>2. DOMAIN all = 1 .. Len(all)
      BY <3>1
    <3> QED BY <2>2, <3>1, <3>2
  <2>4. /\ \A i \in 1 .. p : all[i] = nt[i]
        /\ \A i \in p + 1 .. q : all[i] = ns[i - p]
        /\ \A i \in q + 1 .. q + Len(b) : all[i] = b[i - q]
    <3>1. \A i \in 1 .. Len(nt \o ns) + Len(b) :
             all[i] = IF i <= Len(nt \o ns) THEN (nt \o ns)[i] ELSE b[i - Len(nt \o ns)]
      BY <2>1, ConcatProperties
    <3>2. \A i \in 1 .. Len(nt) + Len(ns) : (nt \o ns)[i] = IF i <= Len(nt) THEN nt[i] ELSE ns[i - Len(nt)]
      BY <2>1, ConcatProperties
    <3> HIDE DEF all, p, q
    <3>3. p \in Nat /\ q \in Nat /\ Len(b) \in Nat /\ p = Len(nt) /\ q = p + Len(ns) /\ Len(nt \o ns) = q
      BY <2>2 DEF p, q
    <3>4. \A i \in 1 .. q : (nt \o ns)[i] = IF i <= p THEN nt[i] ELSE ns[i - p]
      BY <3>2, <3>3
    <3>5. \A i \in 1 .. q + Len(b) : all[i] = IF i <= q THEN (nt \o ns)[i] ELSE b[i - q]
      BY <3>1, <3>3
    <3>6. p <= q
      BY <2>2, <3>3
    <3>7. \A i \in 1 .. q : all[i] = (nt \o ns)[i]
      BY <3>3, <3>5
    <3>8. \A i \in 1 .. p : all[i] = nt[i]
      BY <3>3, <3>4, <3>6, <3>7
    <3>9. \A i \in p + 1 .. q : all[i] = ns[i - p]
      BY <3>3, <3>4, <3>7
    <3>10. \A i \in q + 1 .. q + Len(b) : all[i] = b[i - q]
      BY <3>3, <3>5
    <3> QED BY <3>8, <3>9, <3>10
  <2> HIDE DEF all, p, q
  <2>5. p \in Nat /\ q \in Nat /\ p = Len(nt) /\ q = p + Len(ns)
    BY <2>2 DEF p, q
  <2>6. \A i \in DOMAIN all :
           \/ i \in 1 .. p /\ i \in DOMAIN nt /\ all[i] = nt[i]
           \/ i \in p + 1 .. q /\ i - p \in DOMAIN ns /\ all[i] = ns[i - p]
           \/ i \in q + 1 .. q + Len(b) /\ i - q \in DOMAIN b /\ all[i] = b[i - q]
    BY <2>2, <2>3, <2>4, <2>5
  <2>7. /\ \A i \in DOMAIN nt, k \in DOMAIN ns : nt[i] # ns[k]
        /\ \A i \in DOMAIN nt, k \in DOMAIN b : nt[i] # b[k]
        /\ \A i \in DOMAIN ns, k \in DOMAIN b : ns[i] # b[k]
    BY DEF Placed, Apart, Range
  <2> SUFFICES ASSUME NEW i \in DOMAIN all, NEW k \in DOMAIN all, all[i] = all[k] PROVE i = k
    BY DEF IsInjective, all
  <2>8. CASE i \in 1 .. p /\ i \in DOMAIN nt /\ all[i] = nt[i]
    <3>1. k \in DOMAIN nt /\ all[k] = nt[k]
      BY <2>6, <2>7, <2>8
    <3> QED BY <2>8, <3>1 DEF Placed, List, IsInjective
  <2>9. CASE i \in p + 1 .. q /\ i - p \in DOMAIN ns /\ all[i] = ns[i - p]
    <3>1. k \in p + 1 .. q /\ k - p \in DOMAIN ns /\ all[k] = ns[k - p]
      BY <2>6, <2>7, <2>9
    <3>2. i - p = k - p
      BY <2>9, <3>1 DEF Placed, List, IsInjective
    <3> QED BY <2>5, <2>9, <3>1, <3>2
  <2>10. CASE i \in q + 1 .. q + Len(b) /\ i - q \in DOMAIN b /\ all[i] = b[i - q]
    <3>1. k \in q + 1 .. q + Len(b) /\ k - q \in DOMAIN b /\ all[k] = b[k - q]
      BY <2>6, <2>7, <2>10
    <3>2. i - q = k - q
      BY <2>10, <3>1 DEF Placed, List, IsInjective
    <3> QED BY <2>2, <2>5, <2>10, <3>1, <3>2
  <2> QED BY <2>6, <2>8, <2>9, <2>10
<1>2. Cardinality(Range(nt) \cup Range(ns)) + Len(b) + Cardinality(h) + Cardinality(d) + Cardinality(x)
        = Cardinality(s)
  <2> DEFINE P == Range(nt) \cup Range(ns)
             B == Range(b)
  <2>1. /\ IsFiniteSet(s) /\ s = P \cup B \cup h \cup d \cup x
        /\ P \cap B = {} /\ (P \cup B) \cap h = {} /\ (P \cup B \cup h) \cap d = {}
        /\ (P \cup B \cup h \cup d) \cap x = {} /\ Cardinality(B) = Len(b)
    BY ListIsCounted DEF Placed, Apart
  <2> HIDE DEF P, B
  <2>2. /\ IsFiniteSet(P) /\ IsFiniteSet(B) /\ IsFiniteSet(h) /\ IsFiniteSet(d) /\ IsFiniteSet(x)
        /\ IsFiniteSet(P \cup B) /\ IsFiniteSet(P \cup B \cup h) /\ IsFiniteSet(P \cup B \cup h \cup d)
    BY <2>1, FS_Subset
  <2>3. /\ Cardinality(P \cup B) = Cardinality(P) + Cardinality(B) - Cardinality({})
        /\ Cardinality(P \cup B \cup h) = Cardinality(P \cup B) + Cardinality(h) - Cardinality({})
        /\ Cardinality(P \cup B \cup h \cup d) = Cardinality(P \cup B \cup h) + Cardinality(d) - Cardinality({})
        /\ Cardinality(s) = Cardinality(P \cup B \cup h \cup d) + Cardinality(x) - Cardinality({})
    BY <2>1, <2>2, FS_Union
  <2>4. /\ Cardinality(P) \in Nat /\ Cardinality(B) \in Nat /\ Cardinality(h) \in Nat
        /\ Cardinality(d) \in Nat /\ Cardinality(x) \in Nat /\ Cardinality({}) = 0
    BY <2>2, FS_CardinalityType, FS_EmptySet
  <2> QED BY <2>1, <2>3, <2>4 DEF P
<1> QED BY <1>1, <1>2

-----------------------------------------------------------------------------
(* The inductive invariant of the agent *)

DriverTypes ==
    /\ pc \in {"off", "maintenance", "pre-step", "step", "stopping", "between", "retire", "fail"}
    /\ phase = CASE pc = "off" -> "idle" [] pc = "maintenance" -> "maintenance" [] OTHER -> "running"
    /\ abort \in {"none", "user", "disposed"} /\ wake \in BOOLEAN /\ stepped \in BOOLEAN
    /\ ends \in {"none", "completed", "max-tokens"}
    /\ batch # << >> => pc = "pre-step"
    /\ quiet \subseteq Msg /\ parked \subseteq Msg /\ events \in 0..MaxEvents

Sorted == Placed(nextTurn, nextStep, batch, heard, dropped, discarded, sent)

IdleIsReset == phase = "idle" => abort = "none" /\ ~wake

\* No turn will look at the inbox, unless the wake is latched: what is in
\* the inbox owes nobody a turn.
WakeIsLatched == ~TurnIsLive => wake \/ Pending \subseteq quiet \cup parked

AgentInv == DriverTypes /\ Sorted /\ IdleIsReset /\ WakeIsLatched

\* What others do to the agent's variables.
AgentStep ==
    \/ Drive
    \/ Speak
    \/ EditQueue
    \/ BeginMaintenance
    \/ UserCancel
    \/ Cancel("disposed", FALSE) /\ UNCHANGED events
    \/ \E j \in Job : Followup(j) \/ Inject(j)
    \/ UNCHANGED agentVars

LEMMA BatchIsHeld == AgentInv /\ pc # "pre-step" => batch = << >>
BY DEF AgentInv, DriverTypes

\* A turn opens, on lists that hold what is not elsewhere.
LEMMA TurnOpens ==
    ASSUME DriverTypes, NEW STATE turns, NEW STATE steps,
           Placed(turns, steps, << >>, heard, dropped, discarded, sent'),
           OpenTurn(turns, steps), UNCHANGED <<heard, dropped, discarded>>,
           quiet' \subseteq Msg, parked' \subseteq Msg, events' \in 0..MaxEvents
    PROVE  AgentInv'
<1>1. CASE turns = << >>
  <2>1. nextTurn' = turns /\ nextStep' = << >> /\ batch' = steps
    BY <1>1 DEF OpenTurn
  <2>2. Placed(turns, << >>, steps, heard, dropped, discarded, sent')
    BY PlaceClaim
  <2> QED BY <2>1, <2>2 DEF AgentInv, DriverTypes, Sorted, IdleIsReset, WakeIsLatched, TurnIsLive, OpenTurn
<1>2. CASE turns # << >>
  <2>1. nextTurn' = Tail(turns) /\ nextStep' = << >> /\ batch' = Append(steps, Head(turns))
    BY <1>2 DEF OpenTurn
  <2>2. Placed(Tail(turns), << >>, Append(steps, Head(turns)), heard, dropped, discarded, sent')
    BY <1>2, PlaceClaim
  <2> QED BY <2>1, <2>2 DEF AgentInv, DriverTypes, Sorted, IdleIsReset, WakeIsLatched, TurnIsLive, OpenTurn
<1> QED BY <1>1, <1>2

\* A message is delivered that was in none of the places, or just taken out.
LEMMA MessageIsDelivered ==
    ASSUME AgentInv, NEW m \in Msg, NEW target \in {"next-turn", "next-step"}, NEW waking \in BOOLEAN,
           NEW STATE prompts, Range(prompts) \subseteq Range(nextTurn), NEW STATE others,
           Placed(prompts, nextStep, batch, heard, dropped, discarded, others), m \notin others,
           sent' = others \cup {m}, ~waking => m \notin Pending,
           Deliver(m, target, waking, prompts, nextStep), events' \in 0..MaxEvents
    PROVE  AgentInv'
<1> DEFINE converging == waking /\ phase # "idle" /\ abort # "none"
           goal == IF converging THEN "next-turn" ELSE target
           turns == IF goal = "next-turn" THEN Append(prompts, m) ELSE prompts
           steps == IF goal = "next-step" THEN Append(nextStep, m) ELSE nextStep
           latches == waking /\ Latches(converging)
<1>1. /\ quiet' = IF waking \/ TurnIsLive THEN quiet ELSE quiet \cup {m}
      /\ parked' = IF waking /\ Unheeded THEN parked \cup {m} ELSE parked \ {m}
      /\ IF waking /\ phase = "idle" THEN OpenTurn(turns, steps)
         ELSE /\ nextTurn' = turns /\ nextStep' = steps /\ wake' = (wake \/ latches)
              /\ UNCHANGED <<phase, abort, pc, ends, stepped, batch>>
      /\ UNCHANGED <<heard, dropped, discarded>>
  BY DEF Deliver
<1>2. quiet' \subseteq Msg /\ parked' \subseteq Msg
  BY <1>1 DEF AgentInv, DriverTypes
<1>3. Placed(turns, steps, batch, heard, dropped, discarded, sent')
  <2>1. CASE goal = "next-turn"
    <3>1. turns = Append(prompts, m) /\ steps = nextStep
      BY <2>1
    <3> QED BY <3>1, PlaceNew
  <2>2. CASE goal = "next-step"
    <3>1. turns = prompts /\ steps = Append(nextStep, m)
      BY <2>2
    <3> QED BY <3>1, PlaceNew
  <2> QED BY <2>1, <2>2
<1>4. Range(turns) \cup Range(steps) \subseteq Pending \cup {m}
  <2>1. /\ Range(Append(prompts, m)) = Range(prompts) \cup {m}
        /\ Range(Append(nextStep, m)) = Range(nextStep) \cup {m}
    BY AppendToList DEF Placed, Apart
  <2> QED BY <2>1 DEF Pending
<1>5. CASE waking /\ phase = "idle"
  <2> HIDE DEF turns, steps
  <2>1. batch = << >> /\ OpenTurn(turns, steps)
    BY <1>1, <1>5 DEF AgentInv, DriverTypes
  <2> QED BY <1>1, <1>2, <1>3, <2>1, TurnOpens DEF AgentInv
<1>6. CASE ~(waking /\ phase = "idle")
  <2>1. /\ nextTurn' = turns /\ nextStep' = steps /\ wake' = (wake \/ latches)
        /\ UNCHANGED <<phase, abort, pc, ends, stepped, batch, heard, dropped, discarded>>
    BY <1>1, <1>6
  <2> HIDE DEF turns, steps
  <2>2. Sorted'
    BY <1>3, <2>1 DEF Sorted
  <2>3. latches => phase # "idle"
    BY <1>6
  <2>4. DriverTypes' /\ IdleIsReset'
    BY <1>2, <2>1, <2>3 DEF AgentInv, DriverTypes, IdleIsReset
  <2>5. WakeIsLatched'
    <3> SUFFICES ASSUME ~TurnIsLive, ~wake, ~latches PROVE Pending' \subseteq quiet' \cup parked'
      BY <2>1 DEF WakeIsLatched, TurnIsLive
    <3>1. Pending' \subseteq Pending \cup {m} /\ Pending \subseteq quiet \cup parked
      BY <1>4, <2>1 DEF Pending, AgentInv, WakeIsLatched
    <3>2. CASE waking
      <4>1. Unheeded
        BY <1>6, <3>2 DEF AgentInv, DriverTypes, TurnIsLive, Unheeded, Latches
      <4> QED BY <1>1, <3>1, <3>2, <4>1
    <3>3. CASE ~waking
      BY <1>1, <3>1, <3>3
    <3> QED BY <3>2, <3>3
  <2> QED BY <2>2, <2>4, <2>5 DEF AgentInv
<1> QED BY <1>5, <1>6

LEMMA SendKeeps ==
    ASSUME AgentInv, NEW m \in Msg, NEW target \in {"next-turn", "next-step"}, NEW waking \in BOOLEAN,
           Send(m, target, waking)
    PROVE  AgentInv' /\ sent \subseteq sent' /\ sent' \subseteq sent \cup {m}
<1>1. m \notin sent /\ sent' = sent \cup {m} /\ Deliver(m, target, waking, nextTurn, nextStep)
  BY DEF Send
<1>2. Sorted /\ events' \in 0..MaxEvents
  BY DEF AgentInv, DriverTypes, Send
<1>3. m \notin Pending
  BY <1>1, <1>2 DEF Sorted, Placed, Apart, Pending
<1> QED BY <1>1, <1>2, <1>3, MessageIsDelivered DEF Sorted

LEMMA SpendIsBounded == DriverTypes /\ (Spend \/ UNCHANGED events) => events' \in 0..MaxEvents
BY DriverAssumption DEF DriverTypes, Spend

LEMMA EditKeeps == AgentInv /\ EditQueue => AgentInv' /\ UNCHANGED sent
<1> SUFFICES ASSUME AgentInv, NEW m \in Msg, Withdraw(m) \/ Promote(m) PROVE AgentInv' /\ UNCHANGED sent
  BY DEF EditQueue
<1>1. events' \in 0..MaxEvents
  BY SpendIsBounded DEF Withdraw, Promote, AgentInv
<1>2. CASE Withdraw(m)
  <2>1. /\ m \in Range(nextTurn) \cup Range(nextStep) /\ discarded' = discarded \cup {m}
        /\ nextTurn' = Without(nextTurn, m) /\ nextStep' = Without(nextStep, m)
        /\ UNCHANGED <<phase, abort, wake, pc, ends, stepped, batch, sent, quiet, heard, dropped, parked>>
    BY <1>2 DEF Withdraw, driver, Pending
  <2>2. Sorted'
    BY <2>1, PlaceRemove DEF AgentInv, Sorted
  <2>3. Pending' \subseteq Pending
    BY <2>1, WithoutRemoves DEF AgentInv, Sorted, Placed, Pending
  <2>4. DriverTypes' /\ IdleIsReset' /\ WakeIsLatched'
    BY <1>1, <2>1, <2>3 DEF AgentInv, DriverTypes, IdleIsReset, WakeIsLatched, TurnIsLive
  <2> QED BY <2>1, <2>2, <2>4 DEF AgentInv
<1>3. CASE Promote(m)
  <2>1. /\ m \in Range(nextTurn) /\ UNCHANGED sent
        /\ Deliver(m, "next-step", TRUE, Without(nextTurn, m), nextStep)
    BY <1>3 DEF Promote
  <2>2. m \notin Range(nextStep) /\ m \in sent
    BY <2>1 DEF AgentInv, Sorted, Placed, Apart
  <2>3. Without(nextStep, m) = nextStep
    BY <2>2 DEF Without
  <2>4. Placed(Without(nextTurn, m), nextStep, batch, heard, dropped, discarded, sent \ {m})
    <3>1. Sorted /\ m \in Range(nextTurn) \cup Range(nextStep)
      BY <2>1 DEF AgentInv
    <3>2. Placed(Without(nextTurn, m), Without(nextStep, m), batch, heard, dropped, discarded, sent \ {m})
      BY <3>1, PlaceRemove DEF Sorted
    <3> QED BY <2>3, <3>2
  <2>5. Range(Without(nextTurn, m)) \subseteq Range(nextTurn)
    BY WithoutRemoves DEF AgentInv, Sorted, Placed
  <2>6. sent' = (sent \ {m}) \cup {m} /\ m \notin sent \ {m}
    BY <2>1, <2>2
  <2> QED BY <1>1, <2>1, <2>4, <2>5, <2>6, MessageIsDelivered
<1> QED BY <1>2, <1>3

LEMMA CancelKeeps ==
    ASSUME AgentInv, NEW cause \in {"user", "disposed"}, NEW keep \in BOOLEAN, Cancel(cause, keep),
           events' \in 0..MaxEvents
    PROVE  AgentInv' /\ UNCHANGED sent
<1>1. /\ abort' = IF phase # "idle" /\ abort = "none" THEN cause ELSE abort
      /\ UNCHANGED <<phase, pc, ends, stepped, batch, sent, quiet, heard, dropped>>
  BY DEF Cancel
<1>2. TurnIsLive => phase = "running" /\ abort = "none"
  BY DEF TurnIsLive, AgentInv, DriverTypes
<1>3. CASE keep
  <2>1. /\ parked' = IF phase = "running" /\ abort = "none" THEN parked \cup Pending ELSE parked
        /\ UNCHANGED <<nextTurn, nextStep, wake, discarded>>
    BY <1>3 DEF Cancel, inbox
  <2>2. Sorted' /\ Pending' = Pending /\ Pending \subseteq Msg
    BY <1>1, <2>1 DEF AgentInv, Sorted, Pending, Placed, Apart
  <2>3. parked' \subseteq Msg /\ parked \subseteq parked'
    BY <2>1, <2>2 DEF AgentInv, DriverTypes
  <2>4. DriverTypes' /\ IdleIsReset'
    BY <1>1, <2>1, <2>3 DEF AgentInv, DriverTypes, IdleIsReset
  <2>5. WakeIsLatched'
    BY <1>1, <1>2, <2>1, <2>2, <2>3 DEF AgentInv, WakeIsLatched
  <2> QED BY <1>1, <2>2, <2>4, <2>5 DEF AgentInv
<1>4. CASE ~keep
  <2>1. /\ nextTurn' = << >> /\ nextStep' = << >> /\ wake' = FALSE
        /\ discarded' = discarded \cup Pending /\ UNCHANGED parked
    BY <1>4 DEF Cancel
  <2>2. Sorted'
    BY <1>1, <2>1, PlaceClear DEF AgentInv, Sorted, Pending
  <2>3. Pending' = {}
    BY <2>1, EmptyList DEF Pending
  <2>4. DriverTypes' /\ IdleIsReset' /\ WakeIsLatched'
    BY <1>1, <2>1, <2>3 DEF AgentInv, DriverTypes, IdleIsReset, WakeIsLatched
  <2> QED BY <1>1, <2>2, <2>4 DEF AgentInv
<1> QED BY <1>3, <1>4

\* The turn ends with the driver on its way out.
LEMMA FailKeeps ==
    ASSUME AgentInv, phase = "running", Fail, Placed(nextTurn, nextStep, << >>, heard, dropped', discarded, sent),
           UNCHANGED <<sent, quiet, discarded>>, Spend \/ UNCHANGED events
    PROVE  AgentInv'
<1>1. /\ pc' = "fail" /\ batch' = << >> /\ ends' = "none" /\ stepped' = FALSE
      /\ parked' = IF abort = "none" THEN parked \cup Pending ELSE parked
      /\ UNCHANGED <<phase, abort, wake, nextTurn, nextStep, heard>>
  BY DEF Fail, inbox
<1>2. Sorted' /\ Pending' = Pending /\ Pending \subseteq Msg
  BY <1>1 DEF AgentInv, Sorted, Pending, Placed, Apart
<1>3. parked' \subseteq Msg /\ parked \subseteq parked'
  BY <1>1, <1>2 DEF AgentInv, DriverTypes
<1>4. events' \in 0..MaxEvents
  BY SpendIsBounded DEF AgentInv
<1>5. DriverTypes' /\ IdleIsReset'
  BY <1>1, <1>3, <1>4 DEF AgentInv, DriverTypes, IdleIsReset
<1>6. WakeIsLatched'
  <2>1. CASE abort = "none"
    BY <1>1, <1>2, <2>1 DEF WakeIsLatched
  <2>2. CASE abort # "none"
    BY <1>1, <1>2, <1>3, <2>2 DEF AgentInv, WakeIsLatched, TurnIsLive
  <2> QED BY <2>1, <2>2
<1> QED BY <1>2, <1>5, <1>6 DEF AgentInv

\* The turn goes on, or ends in order: it looks at the inbox again.
LEMMA LiveKeeps ==
    ASSUME AgentInv, phase = "running", abort = "none", UNCHANGED <<phase, abort, quiet, parked>>,
           Spend \/ UNCHANGED events, Sorted',
           pc' \in {"pre-step", "step", "stopping", "between", "retire"}, pc' = "retire" => Pending' = {},
           wake' \in BOOLEAN, stepped' \in BOOLEAN, ends' \in {"none", "completed", "max-tokens"},
           batch' # << >> => pc' = "pre-step"
    PROVE  AgentInv'
<1>1. events' \in 0..MaxEvents
  BY SpendIsBounded DEF AgentInv
<1>2. DriverTypes' /\ IdleIsReset'
  BY <1>1 DEF AgentInv, DriverTypes, IdleIsReset
<1>3. WakeIsLatched'
  BY DEF WakeIsLatched, TurnIsLive
<1> QED BY <1>2, <1>3 DEF AgentInv

LEMMA PreStepKeeps == AgentInv /\ PreStep => AgentInv' /\ UNCHANGED sent
<1> SUFFICES ASSUME AgentInv, PreStep PROVE AgentInv' /\ UNCHANGED sent
  OBVIOUS
<1>1. pc = "pre-step" /\ phase = "running" /\ UNCHANGED <<sent, quiet, discarded>>
  BY DEF PreStep, AgentInv, DriverTypes
<1>2. /\ Placed(nextTurn, nextStep, << >>, heard \cup Range(batch), dropped, discarded, sent)
      /\ Placed(nextTurn, nextStep, << >>, heard, dropped \cup Range(batch), discarded, sent)
  BY PlaceBatch DEF AgentInv, Sorted
<1>3. ASSUME abort = "none", EndTurn, dropped' = dropped \cup Range(batch), Spend \/ UNCHANGED events
      PROVE  AgentInv'
  <2>1. /\ pc' = (IF Pending # {} THEN "between" ELSE "retire") /\ wake' = (wake /\ Pending = {})
        /\ ends' = "none" /\ stepped' = FALSE /\ batch' = << >>
        /\ UNCHANGED <<phase, abort, nextTurn, nextStep, heard, parked>>
    BY <1>3 DEF EndTurn, inbox
  <2>2. Sorted' /\ Pending' = Pending
    BY <1>1, <1>2, <1>3, <2>1 DEF Sorted, Pending
  <2> QED BY <1>1, <1>3, <2>1, <2>2, LiveKeeps DEF AgentInv, DriverTypes
<1>4. ASSUME abort = "none", EnterStep, Spend \/ UNCHANGED events,
             \/ dropped' = dropped \cup Range(batch) /\ UNCHANGED heard
             \/ heard' = heard \cup Range(batch) /\ UNCHANGED dropped
      PROVE  AgentInv'
  <2>1. /\ pc' = "step" /\ stepped' = TRUE /\ batch' = << >>
        /\ UNCHANGED <<phase, abort, wake, ends, nextTurn, nextStep, parked>>
    BY <1>4 DEF EnterStep, inbox
  <2>2. Sorted'
    BY <1>1, <1>2, <1>4, <2>1 DEF Sorted
  <2> QED BY <1>1, <1>4, <2>1, <2>2, LiveKeeps DEF AgentInv, DriverTypes
<1>5. ASSUME Fail, dropped' = dropped \cup Range(batch), Spend \/ UNCHANGED events PROVE AgentInv'
  BY <1>1, <1>2, <1>5, FailKeeps
<1> QED BY <1>1, <1>3, <1>4, <1>5 DEF PreStep, Aborted, Breaks, Proceeds

\* The next step's input is claimed by a turn that has no batch.
LEMMA ClaimKeeps ==
    ASSUME AgentInv, phase = "running", abort = "none", pc # "pre-step", ClaimSteps,
           UNCHANGED <<sent, quiet, dropped, discarded>>, Spend \/ UNCHANGED events,
           ends' \in {"none", "completed", "max-tokens"}
    PROVE  AgentInv'
<1>1. /\ batch' = nextStep /\ nextStep' = << >> /\ pc' = "pre-step"
      /\ UNCHANGED <<phase, abort, wake, stepped, nextTurn, heard, parked>>
  BY DEF ClaimSteps
<1>2. Placed(nextTurn, nextStep, << >>, heard, dropped, discarded, sent)
  BY BatchIsHeld DEF AgentInv, Sorted
<1>3. Sorted'
  BY <1>1, <1>2, PlaceClaim DEF Sorted
<1> QED BY <1>1, <1>3, LiveKeeps DEF AgentInv, DriverTypes

LEMMA StepKeeps == AgentInv /\ Step => AgentInv' /\ UNCHANGED sent
<1> SUFFICES ASSUME AgentInv, Step PROVE AgentInv' /\ UNCHANGED sent
  OBVIOUS
<1>1. pc = "step" /\ phase = "running" /\ UNCHANGED <<sent, quiet, dropped, discarded>> /\ batch = << >>
  BY BatchIsHeld DEF Step, AgentInv, DriverTypes
<1>2. Placed(nextTurn, nextStep, << >>, heard, dropped, discarded, sent)
  BY <1>1 DEF AgentInv, Sorted
<1>3. CASE (Aborted \/ Breaks) /\ Fail
  <2>1. Placed(nextTurn, nextStep, << >>, heard, dropped', discarded, sent)
    BY <1>1, <1>2
  <2> QED BY <1>1, <1>3, <2>1, FailKeeps DEF Aborted, Breaks
<1>4. CASE ~((Aborted \/ Breaks) /\ Fail)
  <2>1. /\ abort = "none"
        /\ Spend \/ UNCHANGED events
        /\ ends' \in {"none", "completed", "max-tokens"}
    BY <1>4 DEF Step, AgentInv, DriverTypes
  <2>2. CASE ClaimSteps
    BY <1>1, <2>1, <2>2, ClaimKeeps
  <2>3. CASE ~ClaimSteps
    <3>1. pc' = "stopping" /\ UNCHANGED <<phase, abort, wake, stepped, nextTurn, nextStep, batch, heard, parked>>
      BY <1>4, <2>3 DEF Step, inbox
    <3>2. Sorted'
      BY <1>1, <3>1 DEF AgentInv, Sorted
    <3> QED BY <1>1, <2>1, <3>1, <3>2, LiveKeeps DEF AgentInv, DriverTypes
  <2> QED BY <2>2, <2>3
<1> QED BY <1>1, <1>3, <1>4

LEMMA StoppingKeeps == AgentInv /\ Stopping => AgentInv' /\ UNCHANGED sent
<1> SUFFICES ASSUME AgentInv, Stopping PROVE AgentInv' /\ UNCHANGED sent
  OBVIOUS
<1>1. pc = "stopping" /\ phase = "running" /\ UNCHANGED <<sent, quiet, dropped, discarded>> /\ batch = << >>
  BY BatchIsHeld DEF Stopping, AgentInv, DriverTypes
<1>2. Placed(nextTurn, nextStep, << >>, heard, dropped, discarded, sent)
  BY <1>1 DEF AgentInv, Sorted
<1>3. CASE (Aborted \/ Breaks) /\ Fail
  <2>1. Placed(nextTurn, nextStep, << >>, heard, dropped', discarded, sent)
    BY <1>1, <1>2
  <2> QED BY <1>1, <1>3, <2>1, FailKeeps DEF Aborted, Breaks
<1>4. CASE Proceeds /\ EndTurn
  <2>1. /\ pc' = (IF Pending # {} THEN "between" ELSE "retire") /\ wake' = (wake /\ Pending = {})
        /\ ends' = "none" /\ stepped' = FALSE /\ batch' = << >>
        /\ UNCHANGED <<phase, abort, nextTurn, nextStep, heard, parked>>
    BY <1>4 DEF EndTurn, inbox
  <2>2. Sorted' /\ Pending' = Pending
    BY <1>1, <1>2, <2>1 DEF Sorted, Pending
  <2> QED BY <1>1, <1>4, <2>1, <2>2, LiveKeeps DEF AgentInv, DriverTypes, Proceeds
<1>5. CASE Proceeds /\ ClaimSteps /\ UNCHANGED ends
  BY <1>1, <1>5, ClaimKeeps DEF AgentInv, DriverTypes, Proceeds
<1> QED BY <1>1, <1>3, <1>4, <1>5 DEF Stopping

\* An activity ends, or its latched wake opens another turn.
LEMMA ConvergeKeeps ==
    ASSUME AgentInv, Converge, pc \in {"retire", "fail", "maintenance"}
    PROVE  AgentInv' /\ UNCHANGED sent
<1>1. UNCHANGED <<sent, quiet, heard, dropped, discarded, parked, events>> /\ batch = << >>
  BY BatchIsHeld DEF Converge, history
<1>2. Placed(nextTurn, nextStep, << >>, heard, dropped, discarded, sent)
  BY <1>1 DEF AgentInv, Sorted
<1>3. CASE wake /\ Pending # {}
  <2>1. OpenTurn(nextTurn, nextStep) /\ quiet' \subseteq Msg /\ parked' \subseteq Msg /\ events' \in 0..MaxEvents
    BY <1>1, <1>3 DEF Converge, AgentInv, DriverTypes
  <2>2. Placed(nextTurn, nextStep, << >>, heard, dropped, discarded, sent')
    BY <1>1, <1>2
  <2> QED BY <1>1, <2>1, <2>2, TurnOpens DEF AgentInv
<1>4. CASE ~(wake /\ Pending # {})
  <2>1. /\ phase' = "idle" /\ abort' = "none" /\ wake' = FALSE /\ pc' = "off"
        /\ UNCHANGED <<ends, stepped, nextTurn, nextStep, batch>>
    BY <1>4 DEF Converge, inbox
  <2>2. Pending' = Pending /\ Pending \subseteq quiet \cup parked
    BY <1>4, <2>1 DEF Pending, AgentInv, WakeIsLatched, TurnIsLive
  <2>3. DriverTypes' /\ IdleIsReset' /\ WakeIsLatched'
    BY <1>1, <2>1, <2>2 DEF AgentInv, DriverTypes, IdleIsReset, WakeIsLatched
  <2>4. Sorted'
    BY <1>1, <2>1 DEF AgentInv, Sorted
  <2> QED BY <1>1, <2>3, <2>4 DEF AgentInv
<1> QED BY <1>3, <1>4

LEMMA BetweenKeeps == AgentInv /\ Between => AgentInv' /\ UNCHANGED sent
<1> SUFFICES ASSUME AgentInv, Between PROVE AgentInv' /\ UNCHANGED sent
  OBVIOUS
<1>1. pc = "between" /\ phase = "running" /\ UNCHANGED <<sent, quiet, dropped, discarded>> /\ batch = << >>
  BY BatchIsHeld DEF Between, AgentInv, DriverTypes
<1>2. Placed(nextTurn, nextStep, << >>, heard, dropped, discarded, sent)
  BY <1>1 DEF AgentInv, Sorted
<1>3. CASE Proceeds /\ OpenTurn(nextTurn, nextStep) /\ UNCHANGED <<heard, parked>>
  <2>1. Placed(nextTurn, nextStep, << >>, heard, dropped, discarded, sent')
    BY <1>1, <1>2
  <2>2. events' \in 0..MaxEvents /\ quiet' \subseteq Msg /\ parked' \subseteq Msg
    BY <1>1, <1>3 DEF Proceeds, AgentInv, DriverTypes
  <2> QED BY <1>1, <1>3, <2>1, <2>2, TurnOpens DEF AgentInv
<1>4. CASE Aborted /\ Fail
  <2>1. Placed(nextTurn, nextStep, << >>, heard, dropped', discarded, sent)
    BY <1>1, <1>2
  <2> QED BY <1>1, <1>4, <2>1, FailKeeps DEF Aborted
<1> QED BY <1>1, <1>3, <1>4 DEF Between

LEMMA MaintenanceKeeps == AgentInv /\ BeginMaintenance => AgentInv' /\ UNCHANGED sent
<1> SUFFICES ASSUME AgentInv, BeginMaintenance PROVE AgentInv' /\ UNCHANGED sent
  OBVIOUS
<1>1. /\ phase = "idle" /\ phase' = "maintenance" /\ abort' = "none" /\ wake' = FALSE /\ pc' = "maintenance"
      /\ UNCHANGED <<ends, stepped, nextTurn, nextStep, batch, sent, quiet, heard, dropped, discarded, parked>>
  BY DEF BeginMaintenance, inbox, history
<1>2. pc = "off" /\ batch = << >> /\ ~TurnIsLive /\ ~wake
  BY <1>1 DEF AgentInv, DriverTypes, TurnIsLive, IdleIsReset
<1>3. events' \in 0..MaxEvents
  BY SpendIsBounded DEF AgentInv, BeginMaintenance
<1>4. Pending' = Pending /\ Pending \subseteq quiet \cup parked
  BY <1>1, <1>2 DEF Pending, AgentInv, WakeIsLatched
<1>5. DriverTypes' /\ IdleIsReset' /\ WakeIsLatched'
  BY <1>1, <1>2, <1>3, <1>4 DEF AgentInv, DriverTypes, IdleIsReset, WakeIsLatched
<1>6. Sorted'
  BY <1>1 DEF AgentInv, Sorted
<1> QED BY <1>1, <1>5, <1>6 DEF AgentInv

LEMMA DriveKeeps == AgentInv /\ Drive => AgentInv' /\ UNCHANGED sent
BY PreStepKeeps, StepKeeps, StoppingKeeps, BetweenKeeps, ConvergeKeeps DEF Drive, Retire, EndMaintenance

\* A person's message is a new one.
LEMMA SpeakKeeps == AgentInv /\ Speak => AgentInv' /\ sent \subseteq sent' /\ sent' \subseteq sent \cup UserMsg
<1> SUFFICES ASSUME AgentInv, Speak PROVE AgentInv' /\ sent \subseteq sent' /\ sent' \subseteq sent \cup UserMsg
  OBVIOUS
<1>1. PICK m \in UserMsg : Followup(m) \/ Steer(m) \/ Inject(m)
  BY DEF Speak
<1>2. m \in Msg
  BY DriverAssumption
<1> QED BY <1>1, <1>2, SendKeeps DEF Followup, Steer, Inject

LEMMA IdleKeeps == AgentInv /\ UNCHANGED agentVars => AgentInv' /\ UNCHANGED sent
<1> SUFFICES ASSUME AgentInv, UNCHANGED agentVars PROVE AgentInv' /\ UNCHANGED sent
  OBVIOUS
<1>1. UNCHANGED <<phase, abort, wake, pc, ends, stepped, batch, nextTurn, nextStep, sent, quiet, heard,
                  dropped, discarded, parked, events>>
  BY DEF agentVars, driver, inbox, history
<1> QED BY <1>1 DEF AgentInv, DriverTypes, Sorted, IdleIsReset, WakeIsLatched, TurnIsLive, Pending

LEMMA NoticeKeeps ==
    ASSUME AgentInv, NEW j \in Job, Followup(j) \/ Inject(j)
    PROVE  AgentInv' /\ sent \subseteq sent' /\ sent' \subseteq sent \cup {j}
<1>1. j \in Msg
  BY JobsAssumption
<1> QED BY <1>1, SendKeeps DEF Followup, Inject

LEMMA AgentInvKept == AgentInv /\ AgentStep => AgentInv'
<1> SUFFICES ASSUME AgentInv, AgentStep PROVE AgentInv'
  OBVIOUS
<1>1. CASE UserCancel
  <2>1. events' \in 0..MaxEvents
    BY <1>1, SpendIsBounded DEF UserCancel, AgentInv
  <2> QED BY <1>1, <2>1, CancelKeeps DEF UserCancel
<1>2. CASE Cancel("disposed", FALSE) /\ UNCHANGED events
  <2>1. events' \in 0..MaxEvents
    BY <1>2 DEF AgentInv, DriverTypes
  <2> QED BY <1>2, <2>1, CancelKeeps
<1> QED BY <1>1, <1>2, DriveKeeps, SpeakKeeps, EditKeeps, MaintenanceKeeps, NoticeKeeps, IdleKeeps DEF AgentStep

LEMMA NextIsAgentStep == Next => AgentStep
<1> SUFFICES ASSUME Next PROVE AgentStep
  OBVIOUS
<1>1. CASE DriverStep \/ Person \/ PersonCancels
  BY <1>1 DEF DriverStep, Person, PersonCancels, AgentStep
<1>2. CASE Tools \/ Answers
  <2>1. UNCHANGED agentVars
    BY <1>2 DEF Tools, Answers, StartJob, Kill, Read, Wait, Expire, Return
  <2> QED BY <2>1 DEF AgentStep
<1>3. CASE Ends
  <2>1. PICK j \in Job : Produce(j)
    BY <1>3 DEF Ends
  <2>2. UNCHANGED agentVars \/ Followup(j) \/ Inject(j)
    BY <2>1 DEF Produce, Settle, Announce
  <2> QED BY <2>2 DEF AgentStep
<1>4. CASE Dispose
  BY <1>4 DEF Dispose, AgentStep
<1>5. CASE Disposal
  <2>1. UNCHANGED agentVars
    BY <1>5 DEF Disposal, Quiesce, Teardown, DropJobs, ForceFail
  <2> QED BY <2>1 DEF AgentStep
<1> QED BY <1>1, <1>2, <1>3, <1>4, <1>5 DEF Next

LEMMA AgentInvInitially == Init => AgentInv
<1> SUFFICES ASSUME Init PROVE AgentInv
  OBVIOUS
<1>1. AgentInit
  BY DEF Init
<1>2. Pending = {} /\ 0 \in 0..MaxEvents
  BY <1>1, EmptyList, DriverAssumption DEF AgentInit, Pending
<1>3. DriverTypes /\ IdleIsReset /\ WakeIsLatched
  BY <1>1, <1>2 DEF AgentInit, DriverTypes, IdleIsReset, WakeIsLatched
<1>4. Sorted
  BY <1>1, PlacedAtInit DEF AgentInit, Sorted
<1> QED BY <1>3, <1>4 DEF AgentInv

LEMMA AgentIsSound == Spec => []AgentInv
<1>1. AgentInv /\ [Next]_vars => AgentInv'
  <2> SUFFICES ASSUME AgentInv, [Next]_vars PROVE AgentInv'
    OBVIOUS
  <2>1. CASE Next
    BY <2>1, NextIsAgentStep, AgentInvKept
  <2>2. CASE UNCHANGED vars
    BY <2>2, IdleKeeps DEF vars
  <2> QED BY <2>1, <2>2
<1> QED BY AgentInvInitially, <1>1, PTL DEF Spec

LEMMA EachIsAtOnePlace == AgentInv => EachMessageOnce
<1> SUFFICES ASSUME AgentInv PROVE EachMessageOnce
  OBVIOUS
<1>1. /\ List(nextTurn) /\ List(nextStep) /\ List(batch) /\ sent \subseteq Msg
      /\ Apart(Range(nextTurn), Range(nextStep), Range(batch), heard, dropped, discarded, sent)
  BY DEF AgentInv, Sorted, Placed
<1>2. sent = Pending \cup Range(batch) \cup heard \cup dropped \cup discarded
  BY <1>1 DEF Apart, Pending
<1>3. /\ IsInjective(nextTurn \o nextStep \o batch)
      /\ Cardinality(Pending) + Len(batch) + Cardinality(heard) + Cardinality(dropped)
           + Cardinality(discarded) = Cardinality(sent)
  BY PlacedIsCounted DEF AgentInv, Sorted, Pending
<1>4. AgentTypeOK
  BY <1>1, <1>2 DEF AgentInv, DriverTypes, AgentTypeOK
<1> QED BY <1>2, <1>3, <1>4 DEF EachMessageOnce

\* A message is in the inbox, in a proposed step, in the session, or left
\* out by a turn or a cancellation that ended it: at one of these places,
\* whatever is sent, claimed, taken back, promoted, cancelled or failed.
THEOREM MessagesAreNeverLost == Spec => []EachMessageOnce
BY AgentIsSound, EachIsAtOnePlace, PTL

\* An idle agent owes nobody a turn: what came while the driver was on its
\* way out, in maintenance or after a cancellation has latched the wake.
THEOREM IdleOwesNoTurn == Spec => []IdleHasNoWork
<1>1. AgentInv => IdleHasNoWork
  BY DEF AgentInv, IdleIsReset, WakeIsLatched, IdleHasNoWork, DriverTypes, TurnIsLive
<1> QED BY AgentIsSound, <1>1, PTL

-----------------------------------------------------------------------------
(* The inductive invariant of the jobs *)

JobTypes ==
    /\ status \in [Job -> {"none", "running", "stopping", "done", "removed"}]
    /\ wait \in [Job -> {"none", "waiting", "resolved", "rejected"}]
    /\ alive \subseteq Job /\ reported \subseteq Job /\ orphans \subseteq Job /\ known \subseteq Job
    /\ Active \subseteq alive /\ spent \in 0..MaxWakes
    /\ life \in {"live", "cancelled", "unwinding", "teardown", "gone"}

\* The report is set for what is known, and for an end that a call is about
\* to read.
ReportIsFounded ==
    /\ known \subseteq reported
    /\ \A j \in reported : \/ j \in known
                           \/ status[j] = "done" /\ wait[j] = "resolved"
                           \/ status[j] = "removed"

TornDownIsReported == life \in {"teardown", "gone"} => Active \subseteq reported

JobInv == JobTypes /\ ReportIsFounded /\ EndIsTold /\ TornDownIsReported

LEMMA TypeFromParts == JobTypes => TypeOK
BY DEF JobTypes, TypeOK

\* A step that leaves the jobs alone, while messages may be sent.
LEMMA JobsUntouched ==
    ASSUME JobInv, UNCHANGED <<status, alive, reported, wait, orphans, life, known>>,
           spent' \in 0..MaxWakes, sent \subseteq sent'
    PROVE  JobInv'
<1>1. JobTypes' /\ ReportIsFounded' /\ TornDownIsReported'
  BY DEF JobInv, JobTypes, ReportIsFounded, TornDownIsReported, Active
<1>2. EndIsTold'
  BY DEF JobInv, EndIsTold
<1> QED BY <1>1, <1>2 DEF JobInv

LEMMA BudgetIsBounded ==
    ASSUME JobTypes, NEW left \in 0..MaxWakes, Budget(left)
    PROVE  spent' \in 0..MaxWakes
BY JobsAssumption DEF JobTypes, Budget

\* The aborts of waits.
LEMMA AbortKeeps ==
    ASSUME JobInv, AbortWaits, UNCHANGED <<status, alive, reported, spent, orphans, known, sent>>,
           life' \in {"live", "cancelled"}
    PROVE  JobInv'
<1>1. wait' \in [Job -> {"none", "waiting", "resolved", "rejected"}]
  BY DEF JobInv, JobTypes, AbortWaits
<1>2. \A j \in Job : wait[j] = "resolved" => wait'[j] = "resolved"
  BY DEF AbortWaits
<1>3. JobTypes' /\ TornDownIsReported'
  BY <1>1 DEF JobInv, JobTypes, Active, TornDownIsReported
<1>4. ReportIsFounded'
  BY <1>2 DEF JobInv, JobTypes, ReportIsFounded
<1>5. EndIsTold'
  BY <1>2 DEF JobInv, EndIsTold
<1> QED BY <1>3, <1>4, <1>5 DEF JobInv

LEMMA AgentMovesKeepJobs == AgentInv /\ JobInv /\ (DriverStep \/ Person \/ PersonCancels \/ Dispose) => JobInv'
<1> SUFFICES ASSUME AgentInv, JobInv, DriverStep \/ Person \/ PersonCancels \/ Dispose PROVE JobInv'
  OBVIOUS
<1>1. CASE DriverStep \/ Person
  <2>1. /\ Drive \/ Speak \/ EditQueue \/ BeginMaintenance
        /\ Budget(spent) /\ UNCHANGED <<status, alive, reported, wait, orphans, life, known>>
    BY <1>1 DEF DriverStep, Person
  <2>2. sent \subseteq sent'
    BY <2>1, DriveKeeps, SpeakKeeps, EditKeeps, MaintenanceKeeps
  <2>3. spent' \in 0..MaxWakes
    BY <2>1, BudgetIsBounded DEF JobInv, JobTypes
  <2> QED BY <2>1, <2>2, <2>3, JobsUntouched
<1>2. CASE PersonCancels \/ Dispose
  <2>1. AbortWaits /\ UNCHANGED <<status, alive, reported, spent, orphans, known, sent>>
    BY <1>2 DEF PersonCancels, Dispose, UserCancel, Cancel
  <2>2. life' \in {"live", "cancelled"}
    BY <1>2 DEF PersonCancels, Dispose
  <2> QED BY <2>1, <2>2, AbortKeeps
<1> QED BY <1>1, <1>2

LEMMA ToolsKeepJobs == AgentInv /\ JobInv /\ Tools => JobInv' /\ UNCHANGED agentVars
<1> SUFFICES ASSUME AgentInv, JobInv, Tools PROVE JobInv' /\ UNCHANGED agentVars
  OBVIOUS
<1>1. PICK j \in Job : StartJob(j) \/ Kill(j) \/ Read(j) \/ Wait(j)
  BY DEF Tools
<1>2. UNCHANGED agentVars /\ UNCHANGED sent
  BY <1>1 DEF StartJob, Kill, Read, Wait, agentVars, history
<1>3. CASE StartJob(j)
  <2>1. /\ status[j] = "none" /\ status' = [status EXCEPT ![j] = "running"] /\ alive' = alive \cup {j}
        /\ life \notin {"teardown", "gone"}
        /\ UNCHANGED <<reported, wait, spent, orphans, life, known>>
    BY <1>3 DEF StartJob, Unstarted
  <2>2. /\ status' \in [Job -> {"none", "running", "stopping", "done", "removed"}]
        /\ status'[j] = "running" /\ \A k \in Job : k # j => status'[k] = status[k]
    BY <2>1 DEF JobInv, JobTypes
  <2>3. JobTypes' /\ TornDownIsReported'
    BY <2>1, <2>2 DEF JobInv, JobTypes, Active, TornDownIsReported
  <2>4. ReportIsFounded'
    BY <2>1, <2>2 DEF JobInv, JobTypes, ReportIsFounded
  <2>5. EndIsTold'
    BY <1>2, <2>1, <2>2 DEF JobInv, EndIsTold
  <2> QED BY <1>2, <2>3, <2>4, <2>5 DEF JobInv
<1>4. CASE Kill(j)
  <2>1. j \in Active /\ UNCHANGED <<alive, wait, spent, orphans, life>>
    BY <1>4 DEF Kill
  <2>2. CASE UNCHANGED <<status, reported, known>>
    BY <1>2, <2>1, <2>2, JobsUntouched DEF JobInv, JobTypes
  <2>3. CASE /\ status' = [status EXCEPT ![j] = "stopping"]
             /\ reported' = reported \cup {j} /\ known' = known \cup {j}
    <3>1. /\ status' \in [Job -> {"none", "running", "stopping", "done", "removed"}]
          /\ status'[j] = "stopping" /\ \A k \in Job : k # j => status'[k] = status[k]
      BY <2>3 DEF JobInv, JobTypes
    <3>2. JobTypes' /\ TornDownIsReported'
      BY <2>1, <2>3, <3>1 DEF JobInv, JobTypes, Active, TornDownIsReported
    <3>3. ReportIsFounded'
      BY <2>1, <2>3, <3>1 DEF JobInv, JobTypes, ReportIsFounded
    <3>4. EndIsTold'
      BY <1>2, <2>1, <2>3, <3>1 DEF JobInv, EndIsTold
    <3> QED BY <1>2, <3>2, <3>3, <3>4 DEF JobInv
  <2> QED BY <1>4, <2>2, <2>3 DEF Kill
<1>5. CASE Read(j)
  <2>1. /\ reported' = reported \cup {j} /\ known' = known \cup {j}
        /\ UNCHANGED <<status, alive, wait, spent, orphans, life>>
    BY <1>5 DEF Read
  <2>2. JobTypes' /\ TornDownIsReported' /\ ReportIsFounded'
    BY <2>1 DEF JobInv, JobTypes, Active, TornDownIsReported, ReportIsFounded
  <2>3. EndIsTold'
    BY <1>2, <2>1 DEF JobInv, EndIsTold
  <2> QED BY <1>2, <2>2, <2>3 DEF JobInv
<1>6. CASE Wait(j)
  <2>1. /\ wait[j] = "none" /\ wait' = [wait EXCEPT ![j] = "waiting"]
        /\ UNCHANGED <<status, alive, reported, spent, orphans, life, known>>
    BY <1>6 DEF Wait
  <2>2. /\ wait' \in [Job -> {"none", "waiting", "resolved", "rejected"}]
        /\ \A k \in Job : wait[k] = "resolved" => wait'[k] = "resolved"
    BY <2>1 DEF JobInv, JobTypes
  <2>3. JobTypes' /\ TornDownIsReported' /\ ReportIsFounded'
    BY <2>1, <2>2 DEF JobInv, JobTypes, Active, TornDownIsReported, ReportIsFounded
  <2>4. EndIsTold'
    BY <1>2, <2>1, <2>2 DEF JobInv, EndIsTold
  <2> QED BY <1>2, <2>3, <2>4 DEF JobInv
<1> QED BY <1>1, <1>2, <1>3, <1>4, <1>5, <1>6

LEMMA AnswersKeepJobs == AgentInv /\ JobInv /\ Answers => JobInv' /\ UNCHANGED agentVars
<1> SUFFICES ASSUME AgentInv, JobInv, Answers PROVE JobInv' /\ UNCHANGED agentVars
  OBVIOUS
<1>1. PICK j \in Job : Expire(j) \/ Return(j)
  BY DEF Answers
<1>2. UNCHANGED agentVars /\ UNCHANGED <<sent, status, alive, spent, orphans, life>>
  BY <1>1 DEF Expire, Return, agentVars, history
<1>3. CASE Expire(j)
  <2>1. wait' = [wait EXCEPT ![j] = "resolved"] /\ UNCHANGED <<reported, known>>
    BY <1>3 DEF Expire
  <2>2. /\ wait' \in [Job -> {"none", "waiting", "resolved", "rejected"}]
        /\ \A k \in Job : wait[k] = "resolved" => wait'[k] = "resolved"
    BY <2>1 DEF JobInv, JobTypes
  <2>3. JobTypes' /\ TornDownIsReported' /\ ReportIsFounded'
    BY <1>2, <2>1, <2>2 DEF JobInv, JobTypes, Active, TornDownIsReported, ReportIsFounded
  <2>4. EndIsTold'
    BY <1>2, <2>1, <2>2 DEF JobInv, EndIsTold
  <2> QED BY <1>2, <2>3, <2>4 DEF JobInv
<1>4. CASE Return(j)
  <2>1. /\ wait' = [wait EXCEPT ![j] = "none"]
        /\ IF wait[j] = "resolved" /\ status[j] = "done"
           THEN reported' = reported \cup {j} /\ known' = known \cup {j}
           ELSE UNCHANGED <<reported, known>>
    BY <1>4 DEF Return
  <2>2. /\ wait' \in [Job -> {"none", "waiting", "resolved", "rejected"}]
        /\ \A k \in Job : k # j => wait'[k] = wait[k]
    BY <2>1 DEF JobInv, JobTypes
  <2>3. /\ known \subseteq known' /\ reported \subseteq reported'
        /\ known' \subseteq Job /\ reported' \subseteq Job /\ known' \subseteq reported'
        /\ reported' \subseteq reported \cup known'
        /\ status[j] = "done" /\ wait[j] = "resolved" => j \in known'
    BY <2>1 DEF JobInv, JobTypes, ReportIsFounded
  <2>4. JobTypes' /\ TornDownIsReported'
    BY <1>2, <2>2, <2>3 DEF JobInv, JobTypes, Active, TornDownIsReported
  <2>5. ReportIsFounded'
    <3> SUFFICES ASSUME NEW k \in reported', k \notin known'
                 PROVE  (status[k] = "done" /\ wait'[k] = "resolved") \/ status[k] = "removed"
      BY <1>2, <2>3 DEF ReportIsFounded
    <3>1. k \in Job /\ ((status[k] = "done" /\ wait[k] = "resolved") \/ status[k] = "removed")
      BY <2>3 DEF JobInv, JobTypes, ReportIsFounded
    <3> QED BY <2>2, <2>3, <3>1
  <2>6. EndIsTold'
    <3> SUFFICES ASSUME NEW k \in Job, status[k] = "done"
                 PROVE  k \in sent \cup known' \/ wait'[k] = "resolved"
      BY <1>2 DEF EndIsTold
    <3>1. k \in sent \cup known \/ wait[k] = "resolved"
      BY DEF JobInv, EndIsTold
    <3> QED BY <2>2, <2>3, <3>1
  <2> QED BY <1>2, <2>4, <2>5, <2>6 DEF JobInv
<1> QED BY <1>1, <1>3, <1>4, <1>2

\* A job settles: quietly, or with a notice.
LEMMA ProduceSends ==
    ASSUME AgentInv, JobInv, NEW j \in Job, Produce(j)
    PROVE  \/ UNCHANGED agentVars /\ UNCHANGED sent
           \/ /\ j \in Active /\ j \notin reported /\ wait[j] \notin {"waiting", "resolved"}
              /\ sent' = sent \cup {j}
              /\ Followup(j) \/ Inject(j)
<1>1. UNCHANGED agentVars => UNCHANGED sent
  BY DEF agentVars, history
<1>2. CASE j \notin Active \/ j \in reported \/ wait[j] \in Counted
  BY <1>1, <1>2 DEF Produce, Settle
<1>3. CASE j \in Active /\ j \notin reported /\ wait[j] \notin Counted
  <2>1. Followup(j) \/ Inject(j)
    BY <1>3 DEF Produce, Settle, Announce
  <2>2. sent' = sent \cup {j}
    BY <2>1 DEF Followup, Inject, Send
  <2> QED BY <1>3, <2>1, <2>2 DEF Counted
<1> QED BY <1>2, <1>3

LEMMA EndsKeepJobs == AgentInv /\ JobInv /\ Ends => JobInv'
<1> SUFFICES ASSUME AgentInv, JobInv, NEW j \in Job, Produce(j) PROVE JobInv'
  BY DEF Ends
<1>1. /\ alive' = alive \ {j} /\ UNCHANGED <<orphans, life, known>>
      /\ sent \subseteq sent'
  BY ProduceSends DEF Produce
<1>2. CASE j \notin Active
  <2>1. UNCHANGED <<status, reported, wait, spent>>
    BY <1>2 DEF Produce
  <2>2. JobTypes' /\ TornDownIsReported' /\ ReportIsFounded'
    BY <1>1, <1>2, <2>1 DEF JobInv, JobTypes, Active, TornDownIsReported, ReportIsFounded
  <2>3. EndIsTold'
    BY <1>1, <2>1 DEF JobInv, EndIsTold
  <2> QED BY <2>2, <2>3 DEF JobInv
<1>3. CASE j \in Active
  <2> DEFINE quietly == j \in reported \/ wait[j] \in Counted
  <2>1. /\ status' = [status EXCEPT ![j] = "done"]
        /\ reported' = IF quietly THEN reported \cup {j} ELSE reported
        /\ wait' = [wait EXCEPT ![j] = IF wait[j] = "waiting" THEN "resolved" ELSE wait[j]]
        /\ IF quietly THEN UNCHANGED <<agentVars, spent>> ELSE Announce(j)
    BY <1>3 DEF Produce, Settle
  <2>2. /\ status' \in [Job -> {"none", "running", "stopping", "done", "removed"}]
        /\ status'[j] = "done" /\ \A k \in Job : k # j => status'[k] = status[k]
    BY <2>1 DEF JobInv, JobTypes
  <2>3. /\ wait' \in [Job -> {"none", "waiting", "resolved", "rejected"}]
        /\ wait[j] \in Counted => wait'[j] = "resolved"
        /\ \A k \in Job : k # j => wait'[k] = wait[k]
    BY <2>1 DEF JobInv, JobTypes, Counted
  <2>4. spent' \in 0..MaxWakes
    <3>1. CASE quietly
      BY <2>1, <3>1 DEF JobInv, JobTypes
    <3>2. CASE ~quietly
      <4>1. (spent < MaxWakes /\ Budget(spent + 1)) \/ Budget(spent)
        BY <2>1, <3>2 DEF Announce
      <4>2. spent < MaxWakes => spent + 1 \in 0..MaxWakes
        BY JobsAssumption DEF JobInv, JobTypes
      <4> QED BY <4>1, <4>2, BudgetIsBounded DEF JobInv, JobTypes
    <3> QED BY <3>1, <3>2
  <2>5. j \in reported => j \in known
    BY <1>3 DEF JobInv, ReportIsFounded, Active
  <2>6. JobTypes' /\ TornDownIsReported'
    BY <1>1, <2>1, <2>2, <2>3, <2>4 DEF JobInv, JobTypes, Active, TornDownIsReported
  <2>7. ReportIsFounded'
    <3>1. known' \subseteq reported'
      BY <1>1, <2>1 DEF JobInv, ReportIsFounded
    <3>2. ASSUME NEW k \in reported'
          PROVE  k \in known' \/ (status'[k] = "done" /\ wait'[k] = "resolved") \/ status'[k] = "removed"
      <4>1. CASE k = j
        BY <1>1, <2>1, <2>2, <2>3, <2>5, <4>1
      <4>2. CASE k # j
        <5>1. k \in reported /\ k \in Job
          BY <2>1, <4>2 DEF JobInv, JobTypes
        <5> QED BY <1>1, <2>2, <2>3, <4>2, <5>1 DEF JobInv, ReportIsFounded
      <4> QED BY <4>1, <4>2
    <3> QED BY <3>1, <3>2 DEF ReportIsFounded
  <2>8. EndIsTold'
    <3>1. j \in sent' \cup known' \/ wait'[j] = "resolved"
      <4>1. CASE quietly
        BY <1>1, <2>3, <2>5, <4>1
      <4>2. CASE ~quietly
        <5>1. Followup(j) \/ Inject(j)
          BY <2>1, <4>2 DEF Announce
        <5> QED BY <5>1 DEF Followup, Inject, Send
      <4> QED BY <4>1, <4>2
    <3>2. ASSUME NEW k \in Job, k # j, status'[k] = "done"
          PROVE  k \in sent' \cup known' \/ wait'[k] = "resolved"
      BY <1>1, <2>2, <2>3, <3>2 DEF JobInv, EndIsTold
    <3> QED BY <3>1, <3>2 DEF EndIsTold
  <2> QED BY <2>6, <2>7, <2>8 DEF JobInv
<1> QED BY <1>2, <1>3

LEMMA DisposalKeepsJobs == AgentInv /\ JobInv /\ Disposal => JobInv' /\ UNCHANGED agentVars
<1> SUFFICES ASSUME AgentInv, JobInv, Disposal PROVE JobInv' /\ UNCHANGED agentVars
  OBVIOUS
<1>1. UNCHANGED agentVars /\ UNCHANGED <<sent, alive, spent>>
  BY DEF Disposal, Quiesce, Teardown, DropJobs, ForceFail, agentVars, history
<1>2. CASE Quiesce
  <2>1. life' = "unwinding" /\ UNCHANGED <<status, reported, wait, orphans, known>>
    BY <1>2 DEF Quiesce
  <2>2. JobTypes' /\ TornDownIsReported' /\ ReportIsFounded'
    BY <1>1, <2>1 DEF JobInv, JobTypes, Active, TornDownIsReported, ReportIsFounded
  <2>3. EndIsTold'
    BY <1>1, <2>1 DEF JobInv, EndIsTold
  <2> QED BY <1>1, <2>2, <2>3 DEF JobInv
<1>3. CASE Teardown
  <2>1. PICK throwing \in SUBSET Active : ForceFail(throwing, reported \cup Active) /\ orphans' = throwing
    BY <1>3 DEF Teardown
  <2>2. /\ status' = [j \in Job |-> IF j \notin Active THEN status[j]
                                    ELSE IF j \in throwing THEN "done" ELSE "stopping"]
        /\ reported' = reported \cup Active /\ known' = known \cup Active /\ life' = "teardown"
        /\ wait' = [j \in Job |-> IF j \in throwing /\ wait[j] = "waiting" THEN "resolved" ELSE wait[j]]
    BY <1>3, <2>1 DEF ForceFail, Teardown
  <2>3. /\ status' \in [Job -> {"none", "running", "stopping", "done", "removed"}]
        /\ \A j \in Job : j \notin Active => status'[j] = status[j]
    BY <2>2 DEF JobInv, JobTypes, Active
  <2>4. /\ wait' \in [Job -> {"none", "waiting", "resolved", "rejected"}]
        /\ \A j \in Job : wait[j] = "resolved" => wait'[j] = "resolved"
    BY <2>2 DEF JobInv, JobTypes
  <2>5. Active' \subseteq Active /\ Active \subseteq Job
    BY <2>3 DEF Active
  <2>6. JobTypes'
    BY <1>1, <2>1, <2>2, <2>3, <2>4, <2>5 DEF JobInv, JobTypes
  <2>7. TornDownIsReported'
    BY <2>2, <2>5 DEF TornDownIsReported
  <2>8. ReportIsFounded'
    <3>1. known' \subseteq reported'
      BY <2>2 DEF JobInv, ReportIsFounded
    <3>2. ASSUME NEW k \in reported', k \notin known'
          PROVE  (status'[k] = "done" /\ wait'[k] = "resolved") \/ status'[k] = "removed"
      <4>1. k \in reported /\ k \in Job /\ k \notin Active /\ k \notin known
        BY <2>2, <3>2 DEF JobInv, JobTypes
      <4> QED BY <2>3, <2>4, <4>1 DEF JobInv, ReportIsFounded
    <3> QED BY <3>1, <3>2 DEF ReportIsFounded
  <2>9. EndIsTold'
    <3> SUFFICES ASSUME NEW k \in Job, status'[k] = "done", k \notin known'
                 PROVE  k \in sent' \/ wait'[k] = "resolved"
      BY DEF EndIsTold
    <3>1. k \notin Active /\ k \notin known
      BY <2>2
    <3> QED BY <1>1, <2>3, <2>4, <3>1 DEF JobInv, EndIsTold
  <2> QED BY <1>1, <2>6, <2>7, <2>8, <2>9 DEF JobInv
<1>4. CASE DropJobs
  <2>1. /\ Active = {} /\ life' = "gone" /\ UNCHANGED <<reported, wait, orphans, known>>
        /\ status' = [j \in Job |-> IF status[j] = "done" THEN "removed" ELSE status[j]]
    BY <1>4 DEF DropJobs
  <2>2. /\ status' \in [Job -> {"none", "running", "stopping", "done", "removed"}]
        /\ \A j \in Job : status'[j] = (IF status[j] = "done" THEN "removed" ELSE status[j])
    BY <2>1 DEF JobInv, JobTypes
  <2>3. Active' = {}
    BY <2>1, <2>2 DEF Active
  <2>4. JobTypes' /\ TornDownIsReported'
    BY <1>1, <2>1, <2>2, <2>3 DEF JobInv, JobTypes, TornDownIsReported
  <2>5. ReportIsFounded'
    BY <2>1, <2>2 DEF JobInv, JobTypes, ReportIsFounded
  <2>6. EndIsTold'
    BY <2>2 DEF EndIsTold
  <2> QED BY <1>1, <2>4, <2>5, <2>6 DEF JobInv
<1> QED BY <1>2, <1>3, <1>4 DEF Disposal

LEMMA JobInvInitially == Init => JobInv
BY JobsAssumption DEF Init, JobInv, JobTypes, Active, ReportIsFounded, EndIsTold, TornDownIsReported

LEMMA BothKept == AgentInv /\ JobInv /\ [Next]_vars => AgentInv' /\ JobInv'
<1> SUFFICES ASSUME AgentInv, JobInv, [Next]_vars PROVE AgentInv' /\ JobInv'
  OBVIOUS
<1>1. CASE Next
  BY <1>1, NextIsAgentStep, AgentInvKept, AgentMovesKeepJobs, ToolsKeepJobs, AnswersKeepJobs, EndsKeepJobs,
     DisposalKeepsJobs DEF Next
<1>2. CASE UNCHANGED vars
  <2>1. AgentInv' /\ UNCHANGED sent /\ UNCHANGED <<status, alive, reported, wait, spent, orphans, life, known>>
    BY <1>2, IdleKeeps DEF vars, jobVars
  <2> QED BY <2>1, JobsUntouched DEF JobInv, JobTypes
<1> QED BY <1>1, <1>2

LEMMA JobsAreSound == Spec => [](AgentInv /\ JobInv)
BY AgentInvInitially, JobInvInitially, BothKept, PTL DEF Spec

\* Only the settlement of a job nobody knows of sends its notice.
LEMMA NoticesAreNews == AgentInv /\ JobInv /\ Next => NoNoticeForTheKnown
<1> SUFFICES ASSUME AgentInv, JobInv, Next, NEW j \in Job, j \in sent' \ sent
             PROVE  j \notin known /\ wait[j] \notin {"waiting", "resolved"}
  BY DEF NoNoticeForTheKnown
<1>1. CASE Ends
  <2>1. PICK k \in Job : Produce(k)
    BY <1>1 DEF Ends
  <2>2. k \notin reported /\ wait[k] \notin {"waiting", "resolved"} /\ sent' = sent \cup {k}
    BY <2>1, ProduceSends
  <2>3. j = k
    BY <2>2
  <2> QED BY <2>2, <2>3 DEF JobInv, ReportIsFounded
<1>2. CASE ~Ends
  <2>1. UNCHANGED sent \/ Speak
    <3>1. CASE DriverStep \/ Person
      BY <3>1, DriveKeeps, EditKeeps, MaintenanceKeeps DEF DriverStep, Person
    <3>2. CASE PersonCancels \/ Dispose
      BY <3>2 DEF PersonCancels, Dispose, UserCancel, Cancel
    <3>3. CASE Tools \/ Answers \/ Disposal
      BY <3>3, ToolsKeepJobs, AnswersKeepJobs, DisposalKeepsJobs DEF agentVars, history
    <3> QED BY <1>2, <3>1, <3>2, <3>3 DEF Next
  <2>2. j \in UserMsg
    BY <2>1, SpeakKeeps
  <2> QED BY <2>2, JobsAssumption
<1> QED BY <1>1, <1>2

\* The end of every job is told, by a notice or by a tool's answer, and not
\* by both, however settlement, waiting, killing, reading, aborts and
\* teardown interleave.
THEOREM EachEndIsToldOnce == Spec => ToldOnce
<1>1. AgentInv /\ JobInv => TypeOK /\ EndIsTold
  BY TypeFromParts DEF JobInv
<1>2. AgentInv /\ JobInv /\ [Next]_vars => [NoNoticeForTheKnown]_vars
  BY NoticesAreNews
<1>3. Spec => [](TypeOK /\ EndIsTold)
  BY JobsAreSound, <1>1, PTL
<1>4. Spec => [][NoNoticeForTheKnown]_vars
  BY JobsAreSound, <1>2, PTL DEF Spec
<1> QED BY <1>3, <1>4 DEF ToldOnce

\* Once the agent is being torn down, what its jobs still do opens no turn
\* and leaves no notice: their report has been claimed before they end.
THEOREM TornDownInSilence == Spec => TeardownIsSilent
<1> DEFINE Silent == life' \in {"teardown", "gone"} => sent' = sent /\ (pc = "off" => pc' = "off")
<1>1. AgentInv /\ JobInv /\ [Next]_vars => [Silent]_vars
  <2> SUFFICES ASSUME AgentInv, JobInv, Next, life' \in {"teardown", "gone"}
               PROVE  sent' = sent /\ (pc = "off" => pc' = "off")
    OBVIOUS
  <2>1. UNCHANGED agentVars => sent' = sent /\ (pc = "off" => pc' = "off")
    BY DEF agentVars, history, driver
  <2>2. CASE DriverStep
    <3>1. sent' = sent
      BY <2>2, DriveKeeps DEF DriverStep
    <3>2. pc # "off"
      BY <2>2 DEF DriverStep, Drive, PreStep, Step, Stopping, Between, Retire, EndMaintenance
    <3> QED BY <3>1, <3>2
  <2>3. CASE Person \/ PersonCancels \/ Dispose
    BY <2>3 DEF Person, PersonCancels, Dispose
  <2>4. CASE Tools \/ Answers \/ Disposal
    BY <2>1, <2>4, ToolsKeepJobs, AnswersKeepJobs, DisposalKeepsJobs
  <2>5. CASE Ends
    <3>1. PICK j \in Job : Produce(j)
      BY <2>5 DEF Ends
    <3>2. life' = life
      BY <3>1 DEF Produce
    <3>3. j \in Active => j \in reported
      BY <3>2 DEF JobInv, TornDownIsReported
    <3> QED BY <2>1, <3>1, <3>3, ProduceSends
  <2> QED BY <2>2, <2>3, <2>4, <2>5 DEF Next
<1>2. Spec => [][Silent]_vars
  BY JobsAreSound, <1>1, PTL DEF Spec
<1> QED BY <1>2 DEF TeardownIsSilent
=============================================================================
