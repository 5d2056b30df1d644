---------------------------- MODULE RoutingProofs ----------------------------
(***************************************************************************)
(* What Resolve and relativeRecordName compute together, for every         *)
(* configuration and every name.                                           *)
(***************************************************************************)
EXTENDS Routing, SequenceTheorems, WellFoundedInduction, TLAPS

\* A non-empty set of numbers has a least element: the leaf-to-root walk of
\* Resolve stops at a first hit.
LEMMA LeastElement ==
  ASSUME NEW T, T \subseteq Nat, T # {}
  PROVE  \E k \in T : \A j \in T : k <= j
<1> DEFINE R == {p \in Nat \X Nat : p[1] < p[2]}
<1>1. IsWellFoundedOn(R, Nat)
  BY NatLessThanWellFounded, Zenon DEF OpToRel
<1> HIDE DEF R
<1>2. PICK k \in T : \A j \in T : <<j, k>> \notin R
  BY <1>1, WFMin
<1>3. ASSUME NEW j \in T PROVE k <= j
  <2>1. <<j, k>> \notin R
    BY <1>2
  <2>2. j \in Nat /\ k \in Nat
    OBVIOUS
  <2> QED BY <2>1, <2>2 DEF R
<1> QED BY <1>3

\* Lower-casing keeps the length of a name and does nothing the second time.
LEMMA LowerName ==
  ASSUME NEW name \in Seq(Label)
  PROVE  /\ Lower(name) \in Seq(Label)
         /\ Len(Lower(name)) = Len(name)
         /\ \A i \in 1..Len(name) : Lower(name)[i] = ToLower[name[i]]
         /\ Lower(Lower(name)) = Lower(name)
<1>1. DOMAIN name = 1..Len(name) /\ \A i \in 1..Len(name) : name[i] \in Label
  OBVIOUS
<1>2. Lower(name) = [i \in 1..Len(name) |-> ToLower[name[i]]]
  BY <1>1 DEF Lower
<1>3. \A i \in 1..Len(name) : ToLower[name[i]] \in Label
  BY <1>1, ToLowerAssumption
<1>4. Lower(name) \in Seq(Label) /\ Len(Lower(name)) = Len(name)
  BY <1>2, <1>3, IsASeq
<1>5. \A i \in 1..Len(name) : Lower(name)[i] = ToLower[name[i]]
  BY <1>2
<1>6. Lower(Lower(name)) = [i \in 1..Len(name) |-> ToLower[Lower(name)[i]]]
  BY <1>2 DEF Lower
<1>7. \A i \in 1..Len(name) : ToLower[Lower(name)[i]] = ToLower[name[i]]
  BY <1>1, <1>5, ToLowerAssumption
<1>8. Lower(Lower(name)) = Lower(name)
  BY <1>2, <1>6, <1>7
<1> QED BY <1>4, <1>5, <1>8

\* Removing the trailing dot and lower-casing commute.
LEMMA LowerTrimDot ==
  ASSUME NEW name \in Seq(Label), name # <<>>
  PROVE  /\ TrimDot(name) \in Seq(Label)
         /\ TrimDot(name) # <<>>
         /\ TrimDot(Lower(name)) = Lower(TrimDot(name))
<1> DEFINE n == Len(name)
<1>1. n \in Nat /\ n >= 1 /\ \A i \in 1..n : name[i] \in Label
  BY EmptySeq
<1>2. /\ Lower(name) \in Seq(Label) /\ Len(Lower(name)) = n
      /\ \A i \in 1..n : Lower(name)[i] = ToLower[name[i]]
  BY LowerName
<1>3. Lower(name)[n] = EmptyLabel <=> name[n] = EmptyLabel
  BY <1>1, <1>2, ToLowerAssumption
<1>4. CASE n > 1 /\ name[n] = EmptyLabel
  <2> DEFINE front == SubSeq(name, 1, n - 1)
  <2>1. TrimDot(name) = front
    BY <1>4 DEF TrimDot
  <2>2. /\ front \in Seq(Label) /\ Len(front) = n - 1
        /\ \A i \in 1..(n - 1) : front[i] = name[i]
    BY <1>1, <1>4, SubSeqProperties
  <2>3. /\ Lower(front) \in Seq(Label) /\ Len(Lower(front)) = n - 1
        /\ \A i \in 1..(n - 1) : Lower(front)[i] = ToLower[front[i]]
    BY <2>2, LowerName
  <2> DEFINE low == SubSeq(Lower(name), 1, n - 1)
  <2>4. TrimDot(Lower(name)) = low
    BY <1>2, <1>3, <1>4 DEF TrimDot
  <2>5. /\ low \in Seq(Label) /\ Len(low) = n - 1
        /\ \A i \in 1..(n - 1) : low[i] = Lower(name)[i]
    <3>1. \A i \in 1..(n - 1) : Lower(name)[i] \in Label
      BY <1>1, <1>2
    <3> HIDE DEF n
    <3> QED BY <1>1, <1>2, <1>4, <3>1, SubSeqProperties
  <2>6. \A i \in 1..(n - 1) : low[i] = Lower(front)[i]
    BY <1>1, <1>2, <2>2, <2>3, <2>5
  <2>7. low = Lower(front)
    <3> HIDE DEF low, front
    <3> QED BY <2>3, <2>5, <2>6, SeqEqual
  <2>8. front # <<>>
    <3> HIDE DEF front
    <3> QED BY <1>1, <1>4, <2>2
  <2> HIDE DEF front, low
  <2> QED BY <2>1, <2>2, <2>4, <2>7, <2>8
<1>5. CASE ~(n > 1 /\ name[n] = EmptyLabel)
  BY <1>2, <1>3, <1>5 DEF TrimDot
<1> QED BY <1>4, <1>5

\* Taking outer whitespace off leaves a name.
LEMMA TrimmedName ==
  ASSUME NEW name \in Seq(Label), name # <<>>
  PROVE  TrimOuterSpace(name) \in Seq(Label) /\ TrimOuterSpace(name) # <<>>
<1> DEFINE n == Len(name)
           left == [name EXCEPT ![1] = TrimLeft[name[1]]]
<1>1. n \in Nat /\ n >= 1 /\ \A i \in 1..n : name[i] \in Label
  BY EmptySeq
<1>2. left \in [1..n -> Label]
  <2>1. name \in [1..n -> Label] /\ TrimLeft[name[1]] \in Label
    BY <1>1, TrimAssumption
  <2> QED BY <2>1
<1> HIDE DEF left
<1>3. [left EXCEPT ![n] = TrimRight[left[n]]] \in [1..n -> Label]
  <2>1. TrimRight[left[n]] \in Label
    BY <1>1, <1>2, TrimAssumption
  <2> QED BY <1>2, <2>1
<1>4. TrimOuterSpace(name) \in [1..n -> Label]
  BY <1>3 DEF TrimOuterSpace, left
<1> HIDE DEF n
<1>5. TrimOuterSpace(name) \in Seq(Label) /\ Len(TrimOuterSpace(name)) = n
  BY <1>1, <1>4
<1> QED BY <1>1, <1>5, EmptySeq

\* What Resolve returns for an unpadded name is a suffix of it.
LEMMA ResolveSuffix ==
  ASSUME NEW creds, NEW fqdn \in Seq(Label), fqdn # <<>>, Unpadded(fqdn),
         Resolve(creds, fqdn).matched
  PROVE  LET m == Lower(TrimDot(fqdn))
         IN  /\ m \in Seq(Label) /\ m # <<>>
             /\ \E j \in 1..Len(m) : Resolve(creds, fqdn).apex = From(m, j)
<1> DEFINE m == Lower(TrimDot(fqdn))
           name == TrimAcmePrefix(m)
           hits == Hits(creds, name)
<1>1. m \in Seq(Label) /\ m # <<>> /\ Len(m) \in Nat /\ Len(m) >= 1
  <2>1. TrimDot(fqdn) \in Seq(Label) /\ TrimDot(fqdn) # <<>>
    BY LowerTrimDot
  <2>2. m \in Seq(Label) /\ Len(m) = Len(TrimDot(fqdn))
    BY <2>1, LowerName
  <2> HIDE DEF m
  <2> QED BY <2>1, <2>2, EmptySeq
<1>2. NormaliseFQDN(fqdn) = name
  BY LowerTrimDot DEF Unpadded, NormaliseFQDN
<1>3. hits # {} /\ Resolve(creds, fqdn).apex =
        From(name, CHOOSE k \in hits : \A j \in hits : k <= j)
  <2> HIDE DEF name, hits
  <2>1. Hits(creds, name) = hits
    BY DEF hits
  <2> QED BY <1>2, <2>1 DEF Resolve, NoMatch
<1>4. PICK k \in 1..Len(name) : Resolve(creds, fqdn).apex = From(name, k)
  <2>1. hits \subseteq 1..Len(name)
    BY DEF Hits
  <2>2. name \in Seq(Label)
    <3> HIDE DEF m
    <3>1. Tail(m) \in Seq(Label)
      BY <1>1
    <3> QED BY <1>1, <3>1 DEF TrimAcmePrefix
  <2>3. \E k \in hits : \A j \in hits : k <= j
    <3> HIDE DEF name, hits
    <3>1. hits \subseteq Nat
      BY <2>1, <2>2
    <3> QED BY <1>3, <3>1, LeastElement
  <2> HIDE DEF name, hits
  <2> QED BY <1>3, <2>1, <2>3
<1>5. \E j \in 1..Len(m) : From(name, k) = From(m, j)
  <2> HIDE DEF m
  <2>1. CASE name = m
    BY <2>1, <1>4
  <2>2. CASE Len(m) > 1 /\ name = Tail(m)
    <3>1. Tail(m) = SubSeq(m, 2, Len(m)) /\ Len(Tail(m)) = Len(m) - 1
      BY <1>1, TailIsSubSeq, HeadTailProperties
    <3>2. k \in 1..(Len(m) - 1)
      BY <1>4, <2>2, <3>1
    <3>3. From(name, k) = SubSeq(SubSeq(m, 2, Len(m)), k, Len(m) - 1)
      BY <2>2, <3>1 DEF From
    <3>4. SubSeq(SubSeq(m, 2, Len(m)), k, Len(m) - 1) = SubSeq(m, k + 1, Len(m))
      <4>1. /\ 2 \in 1..Len(m) /\ Len(m) \in 1..Len(m)
            /\ k \in 1..(Len(m) - 2 + 1) /\ Len(m) - 1 \in 1..(Len(m) - 2 + 1)
        BY <1>1, <2>2, <3>2
      <4>2. SubSeq(SubSeq(m, 2, Len(m)), k, Len(m) - 1)
              = SubSeq(m, 2 + k - 1, 2 + (Len(m) - 1) - 1)
        BY <1>1, <4>1, SubSeqOfSubSeq
      <4>3. 2 + k - 1 = k + 1 /\ 2 + (Len(m) - 1) - 1 = Len(m)
        BY <1>1, <3>2
      <4> QED BY <4>2, <4>3
    <3>5. k + 1 \in 1..Len(m) /\ From(name, k) = From(m, k + 1)
      BY <1>1, <3>2, <3>3, <3>4 DEF From
    <3> QED BY <3>5
  <2> QED BY <2>1, <2>2 DEF TrimAcmePrefix
<1> QED BY <1>1, <1>4, <1>5

\* The name that relativeRecordName works on: how the matched apex, in lower
\* case already, ends it.
LEMMA ApexPosition ==
  ASSUME NEW m \in Seq(Label), NEW j \in 1..Len(m), Lower(m) = m
  PROVE  LET apex == From(m, j)
         IN  /\ Lower(apex) = apex
             /\ Len(apex) = Len(m) - j + 1
             /\ j = 1 => m = apex
             /\ j > 1 => m # apex /\ EndsWithApex(m, apex)
<1> DEFINE apex == From(m, j)
<1>1. \A i \in 1..Len(m) : m[i] \in Label /\ ToLower[m[i]] = m[i]
  BY LowerName
<1>2. /\ apex \in Seq(Label) /\ Len(apex) = Len(m) - j + 1
      /\ \A i \in 1..(Len(m) - j + 1) : apex[i] = m[j + i - 1]
  BY <1>1, SubSeqProperties DEF From
<1> HIDE DEF apex
<1>3. Lower(apex) = apex
  <2>1. /\ Lower(apex) \in Seq(Label) /\ Len(Lower(apex)) = Len(apex)
        /\ \A i \in 1..Len(apex) : Lower(apex)[i] = ToLower[apex[i]]
    BY <1>2, LowerName
  <2>2. \A i \in 1..Len(apex) : Lower(apex)[i] = apex[i]
    BY <1>1, <1>2, <2>1
  <2> QED BY <1>2, <2>1, <2>2, SeqEqual
<1>4. j = 1 => m = apex
  BY SubSeqFull DEF From, apex
<1>5. ASSUME j > 1 PROVE m # apex /\ EndsWithApex(m, apex)
  <2>1. Len(m) > Len(apex) /\ m # apex /\ Len(m) - Len(apex) + 1 = j
    BY <1>2, <1>5
  <2>2. From(m, Len(m) - Len(apex) + 1) = apex
    BY <2>1 DEF apex
  <2> QED BY <2>1, <2>2 DEF EndsWithApex
<1> QED BY <1>2, <1>3, <1>4, <1>5 DEF apex

\* relativeRecordName takes its fallback to the challenge label only for an
\* FQDN with whitespace around it: any other name that Resolve matches is in
\* the matched zone.
THEOREM FallbackOnlyPadded ==
  ASSUME NEW creds, NEW fqdn \in Seq(Label), fqdn # <<>>, Resolve(creds, fqdn).matched,
         ~InZone(Lower(TrimDot(fqdn)), Lower(Resolve(creds, fqdn).apex))
  PROVE  TrimOuterSpace(fqdn) # fqdn
<1> SUFFICES ASSUME Unpadded(fqdn) PROVE FALSE
  BY DEF Unpadded
<1> DEFINE m == Lower(TrimDot(fqdn))
<1>1. PICK j \in 1..Len(m) : Resolve(creds, fqdn).apex = From(m, j)
  BY ResolveSuffix
<1>2. m \in Seq(Label) /\ Lower(m) = m
  <2>1. TrimDot(fqdn) \in Seq(Label)
    BY LowerTrimDot
  <2> QED BY <2>1, LowerName
<1> HIDE DEF m
<1>3. /\ Lower(From(m, j)) = From(m, j)
      /\ j = 1 \/ j > 1
      /\ j = 1 => m = From(m, j)
      /\ j > 1 => EndsWithApex(m, From(m, j))
  BY <1>2, ApexPosition
<1> QED BY <1>1, <1>3 DEF InZone, m

\* The record the solver writes for a name as the webhook contract has it, read
\* back through the DNS, is that name, in whatever case it came and with or
\* without a trailing dot.
THEOREM RecordNameExact ==
  ASSUME NEW creds, NEW fqdn, ProperName(fqdn), Resolve(creds, fqdn).matched
  PROVE  LET apex == Resolve(creds, fqdn).apex
         IN  AbsoluteName(RelativeRecordName(fqdn, apex), apex) = Lower(TrimDot(fqdn))
<1> DEFINE apex == Resolve(creds, fqdn).apex
           m == Lower(TrimDot(fqdn))
<1>1. PICK j \in 1..Len(m) : apex = From(m, j)
  BY ResolveSuffix DEF ProperName
<1>2. m \in Seq(Label) /\ m # <<>> /\ Len(m) \in Nat
  BY ResolveSuffix DEF ProperName
<1>3. Lower(m) = m /\ \A i \in 1..Len(m) : m[i] \in Label /\ ToLower[m[i]] = m[i]
  <2>1. TrimDot(fqdn) \in Seq(Label)
    BY LowerTrimDot DEF ProperName
  <2>2. Lower(m) = m
    BY <2>1, LowerName
  <2>3. \A i \in 1..Len(m) : Lower(m)[i] = ToLower[m[i]] /\ m[i] \in Label
    <3> HIDE DEF m
    <3> QED BY <1>2, LowerName
  <2> HIDE DEF m
  <2> QED BY <2>2, <2>3
<1>4. m[1] # "@"
  <2>1. fqdn \in Seq(Label) /\ fqdn # <<>> /\ ToLower[fqdn[1]] # "@"
    BY DEF ProperName
  <2>2. /\ TrimDot(fqdn) \in Seq(Label) /\ TrimDot(fqdn) # <<>>
    BY <2>1, LowerTrimDot
  <2>3. TrimDot(fqdn)[1] = fqdn[1]
    <3>1. CASE Len(fqdn) > 1
      <4>1. \A i \in 1..(Len(fqdn) - 1) : fqdn[i] \in Label
        BY <2>1
      <4>2. SubSeq(fqdn, 1, Len(fqdn) - 1)[1] = fqdn[1]
        BY <2>1, <3>1, <4>1, SubSeqProperties
      <4> QED BY <4>2 DEF TrimDot
    <3>2. CASE ~(Len(fqdn) > 1)
      BY <3>2 DEF TrimDot
    <3> QED BY <3>1, <3>2
  <2>4. 1 \in 1..Len(TrimDot(fqdn))
    BY <2>2, EmptySeq
  <2>5. m[1] = ToLower[TrimDot(fqdn)[1]]
    BY <2>2, <2>4, LowerName
  <2> QED BY <2>1, <2>3, <2>5
<1> HIDE DEF m, apex
<1>5. /\ Len(apex) = Len(m) - j + 1
      /\ j = 1 => m = apex
      /\ j > 1 => m # apex /\ EndsWithApex(m, apex)
  BY <1>1, <1>2, <1>3, ApexPosition
<1>6. Lower(apex) = apex
  BY <1>1, <1>2, <1>3, ApexPosition
<1>7. CASE j = 1
  <2>1. apex = m
    BY <1>5, <1>7
  <2>2. RelativeRecordName(fqdn, apex) = <<"@">>
    BY <1>6, <2>1 DEF RelativeRecordName, m
  <2>3. AbsoluteName(<<"@">>, apex) = m
    BY <2>1 DEF AbsoluteName
  <2> QED BY <2>2, <2>3 DEF m, apex
<1>8. CASE j > 1
  <2> DEFINE rec == SubSeq(m, 1, j - 1)
  <2>1. m # apex /\ EndsWithApex(m, apex)
    BY <1>5, <1>8
  <2>2. Len(m) - Len(apex) = j - 1
    BY <1>1, <1>2, <1>5
  <2>3. RelativeRecordName(fqdn, apex) = rec
    BY <1>6, <2>1, <2>2 DEF RelativeRecordName, m
  <2>4. rec[1] = m[1]
    BY <1>1, <1>2, <1>3, <1>8, SubSeqProperties
  <2>5. rec # <<"@">>
    <3>1. <<"@">>[1] = "@"
      OBVIOUS
    <3> HIDE DEF rec
    <3> QED BY <1>4, <2>4, <3>1
  <2>6. rec \o apex = m
    <3>1. SubSeq(m, 1, j - 1) \o SubSeq(m, (j - 1) + 1, Len(m)) = SubSeq(m, 1, Len(m))
      <4>1. /\ 1 \in 1..(Len(m) + 1) /\ j - 1 \in (1 - 1)..Len(m)
            /\ Len(m) \in (j - 1)..Len(m)
        BY <1>1, <1>2, <1>8
      <4> QED BY <1>2, <4>1, ConcatAdjacentSubSeq
    <3>2. (j - 1) + 1 = j
      BY <1>1
    <3> QED BY <1>1, <1>2, <3>1, <3>2, SubSeqFull DEF From
  <2>7. AbsoluteName(rec, apex) = m
    BY <2>5, <2>6 DEF AbsoluteName
  <2> HIDE DEF rec
  <2> QED BY <2>3, <2>7 DEF m, apex
<1> QED BY <1>1, <1>2, <1>7, <1>8 DEF m, apex

============================================================================
