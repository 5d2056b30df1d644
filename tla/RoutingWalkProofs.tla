------------------------- MODULE RoutingWalkProofs -------------------------
(***************************************************************************)
(* Resolve's loop computes the longest configured suffix, for every        *)
(* configuration and every name.                                           *)
(***************************************************************************)
EXTENDS RoutingWalk, RoutingProofs

\* The suffixes before the candidate are not configured, and a result is the
\* candidate's index entry.
WalkInv ==
  /\ creds \in Accepted
  /\ fqdn \in FQDNs
  /\ LET name == NormaliseFQDN(fqdn)
     IN  \E k \in 1..Len(name) :
           /\ candidate = From(name, k)
           /\ \A j \in 1..(k - 1) : From(name, j) \notin Indexed(creds)
           /\ ~done => name # <<EmptyLabel>> /\ result = NoMatch
           /\ done =>
                \/ result = NoMatch /\ name = <<EmptyLabel>>
                \/ /\ result = NoMatch /\ k = Len(name)
                   /\ candidate \notin Indexed(creds)
                \/ /\ result = [matched |-> TRUE, apex |-> candidate,
                                cred |-> IndexEntry(creds, candidate)]
                   /\ name # <<EmptyLabel>>
                   /\ candidate \in Indexed(creds)

\* normaliseFQDN leaves at least one label, and a suffix of the name it
\* returns loses its first label by Tail.
LEMMA NormalName ==
  ASSUME NEW f \in FQDNs
  PROVE  NormaliseFQDN(f) \in Seq(Label) /\ Len(NormaliseFQDN(f)) >= 1
<1> DEFINE m == TrimDot(Lower(TrimOuterSpace(f)))
           g == TrimOuterSpace(f)
<1>1. g \in Seq(Label) /\ g # <<>>
  BY WalkAssumption, TrimmedName
<1> HIDE DEF g
<1>2. m = Lower(TrimDot(g)) /\ TrimDot(g) \in Seq(Label) /\ TrimDot(g) # <<>>
  BY <1>1, LowerTrimDot DEF g
<1>3. m \in Seq(Label) /\ Len(m) = Len(TrimDot(g))
  BY <1>2, LowerName
<1>4. Len(m) >= 1
  <2> HIDE DEF m
  <2> QED BY <1>2, <1>3, EmptySeq
<1> HIDE DEF m
<1>5. NormaliseFQDN(f) = TrimAcmePrefix(m)
  BY DEF NormaliseFQDN, m
<1>6. Len(m) > 1 => Tail(m) \in Seq(Label) /\ Len(Tail(m)) = Len(m) - 1
  BY <1>3
<1> QED BY <1>3, <1>4, <1>5, <1>6 DEF TrimAcmePrefix

LEMMA SuffixTail ==
  ASSUME NEW name \in Seq(Label), NEW k \in 1..Len(name)
  PROVE  /\ Len(From(name, k)) = Len(name) - k + 1
         /\ k < Len(name) => Tail(From(name, k)) = From(name, k + 1)
<1>1. /\ From(name, k) \in Seq(Label) /\ Len(From(name, k)) = Len(name) - k + 1
      /\ \A i \in 1..(Len(name) - k + 1) : From(name, k)[i] = name[k + i - 1]
  <2>1. \A i \in k..Len(name) : name[i] \in Label
    OBVIOUS
  <2> QED BY <2>1, SubSeqProperties DEF From
<1>2. ASSUME k < Len(name) PROVE Tail(From(name, k)) = From(name, k + 1)
  <2> DEFINE t == Tail(From(name, k))
             u == From(name, k + 1)
  <2>1. /\ t \in Seq(Label) /\ Len(t) = Len(name) - k
        /\ \A i \in 1..(Len(name) - k) : t[i] = name[k + i]
    <3> HIDE DEF From
    <3>1. From(name, k) # <<>>
      BY <1>1
    <3> QED BY <1>1, <1>2, <3>1, HeadTailProperties
  <2>2. /\ u \in Seq(Label) /\ Len(u) = Len(name) - k
        /\ \A i \in 1..(Len(name) - k) : u[i] = name[k + i]
    <3>1. \A i \in (k + 1)..Len(name) : name[i] \in Label
      OBVIOUS
    <3> QED BY <1>2, <3>1, SubSeqProperties DEF From
  <2> HIDE DEF t, u
  <2>3. t = u
    BY <2>1, <2>2, SeqEqual
  <2> QED BY <2>3 DEF t, u
<1> QED BY <1>1, <1>2

LEMMA WalkInit == Init => WalkInv
<1> SUFFICES ASSUME Init PROVE WalkInv
  OBVIOUS
<1> DEFINE name == NormaliseFQDN(fqdn)
<1>1. creds \in Accepted /\ fqdn \in FQDNs /\ result = NoMatch
      /\ candidate = name /\ done = (candidate = <<EmptyLabel>>)
  BY DEF Init
<1>2. name \in Seq(Label) /\ Len(name) >= 1
  BY <1>1, NormalName
<1> HIDE DEF name
<1>3. 1 \in 1..Len(name) /\ From(name, 1) = name /\ 1..(1 - 1) = {}
  BY <1>2, SubSeqFull DEF From
<1>4. \E k \in 1..Len(name) :
        /\ candidate = From(name, k)
        /\ \A j \in 1..(k - 1) : From(name, j) \notin Indexed(creds)
        /\ ~done => name # <<EmptyLabel>> /\ result = NoMatch
        /\ done => result = NoMatch /\ name = <<EmptyLabel>>
  BY <1>1, <1>3
<1> QED BY <1>1, <1>4 DEF WalkInv, name

LEMMA WalkStep == WalkInv /\ [Next]_vars => WalkInv'
<1> SUFFICES ASSUME WalkInv, [Next]_vars PROVE WalkInv'
  OBVIOUS
<1> DEFINE name == NormaliseFQDN(fqdn)
<1>1. creds \in Accepted /\ fqdn \in FQDNs
  BY DEF WalkInv
<1>2. name \in Seq(Label) /\ Len(name) >= 1
  BY <1>1, NormalName
<1>3. PICK k \in 1..Len(name) :
        /\ candidate = From(name, k)
        /\ \A j \in 1..(k - 1) : From(name, j) \notin Indexed(creds)
        /\ ~done => name # <<EmptyLabel>> /\ result = NoMatch
  BY DEF WalkInv
<1>4. Len(candidate) = Len(name) - k + 1
      /\ (k < Len(name) => Tail(candidate) = From(name, k + 1))
  <2> HIDE DEF name
  <2> QED BY <1>2, <1>3, SuffixTail
<1> HIDE DEF name
<1>5. CASE Found
  <2>1. /\ ~done /\ candidate \in Indexed(creds) /\ done' = TRUE
        /\ result' = [matched |-> TRUE, cred |-> IndexEntry(creds, candidate),
                      apex |-> candidate]
        /\ creds' = creds /\ fqdn' = fqdn /\ candidate' = candidate
    BY <1>5 DEF Found
  <2>2. result' = [matched |-> TRUE, apex |-> candidate',
                   cred |-> IndexEntry(creds', candidate')]
    BY <2>1
  <2>3. NormaliseFQDN(fqdn') = name /\ Indexed(creds') = Indexed(creds)
    BY <2>1 DEF name
  <2> QED BY <1>1, <1>3, <2>1, <2>2, <2>3 DEF WalkInv
<1>6. CASE Cut
  <2>1. /\ ~done /\ candidate \notin Indexed(creds) /\ result' = result
        /\ creds' = creds /\ fqdn' = fqdn
        /\ \/ Len(candidate) > 1 /\ candidate' = Tail(candidate) /\ done' = done
           \/ ~(Len(candidate) > 1) /\ done' = TRUE /\ candidate' = candidate
    BY <1>6 DEF Cut
  <2>2. NormaliseFQDN(fqdn') = name /\ Indexed(creds') = Indexed(creds)
    BY <2>1 DEF name
  <2>3. CASE Len(candidate) > 1
    <3>1. k + 1 \in 1..Len(name) /\ candidate' = From(name, k + 1)
      BY <1>2, <1>4, <2>1, <2>3
    <3>2. \A j \in 1..((k + 1) - 1) : From(name, j) \notin Indexed(creds)
      <4> SUFFICES ASSUME NEW j \in 1..((k + 1) - 1)
                   PROVE  From(name, j) \notin Indexed(creds)
        OBVIOUS
      <4>1. j = k \/ j \in 1..(k - 1)
        BY <1>2
      <4> QED BY <1>3, <2>1, <4>1
    <3> QED BY <1>1, <1>3, <2>1, <2>2, <2>3, <3>1, <3>2 DEF WalkInv
  <2>4. CASE ~(Len(candidate) > 1)
    <3>1. k = Len(name)
      BY <1>2, <1>4, <2>4
    <3> QED BY <1>1, <1>3, <2>1, <2>2, <2>4, <3>1 DEF WalkInv
  <2> QED BY <2>3, <2>4
<1>7. CASE UNCHANGED vars
  BY <1>7 DEF vars, WalkInv
<1> QED BY <1>5, <1>6, <1>7 DEF Next

\* A finished walk, or one that has a result, agrees with Resolve.
LEMMA WalkResult ==
  WalkInv => WalkFindsLongest /\ (result.matched => result = Resolve(creds, fqdn))
<1> SUFFICES ASSUME WalkInv
             PROVE  /\ done => result = Resolve(creds, fqdn)
                    /\ result.matched => result = Resolve(creds, fqdn)
  BY DEF WalkFindsLongest
<1> DEFINE name == NormaliseFQDN(fqdn)
           hits == Hits(creds, name)
<1>1. name \in Seq(Label) /\ Len(name) >= 1
  BY NormalName DEF WalkInv
<1>2. PICK k \in 1..Len(name) :
        /\ candidate = From(name, k)
        /\ \A j \in 1..(k - 1) : From(name, j) \notin Indexed(creds)
        /\ ~done => result = NoMatch
        /\ done =>
             \/ result = NoMatch /\ name = <<EmptyLabel>>
             \/ /\ result = NoMatch /\ k = Len(name)
                /\ candidate \notin Indexed(creds)
             \/ /\ result = [matched |-> TRUE, apex |-> candidate,
                             cred |-> IndexEntry(creds, candidate)]
                /\ name # <<EmptyLabel>>
                /\ candidate \in Indexed(creds)
  BY DEF WalkInv
<1> HIDE DEF name
<1>3. Resolve(creds, fqdn) =
        IF name = <<EmptyLabel>> \/ hits = {}
          THEN NoMatch
          ELSE [matched |-> TRUE,
                cred |-> IndexEntry(creds, From(name, CHOOSE i \in hits : \A j \in hits : i <= j)),
                apex |-> From(name, CHOOSE i \in hits : \A j \in hits : i <= j)]
  BY DEF Resolve, name
<1>4. ASSUME k = Len(name), candidate \notin Indexed(creds) PROVE hits = {}
  <2> SUFFICES ASSUME NEW j \in hits PROVE FALSE
    OBVIOUS
  <2>1. j \in 1..Len(name) /\ From(name, j) \in Indexed(creds)
    BY DEF Hits
  <2>2. j = k \/ j \in 1..(k - 1)
    BY <1>1, <1>4, <2>1
  <2> QED BY <1>2, <1>4, <2>1, <2>2
<1>5. ASSUME candidate \in Indexed(creds)
      PROVE  k \in hits /\ (CHOOSE i \in hits : \A j \in hits : i <= j) = k
  <2>1. k \in hits
    BY <1>2, <1>5 DEF Hits
  <2>2. ASSUME NEW j \in hits PROVE k <= j
    <3>1. j \in 1..Len(name) /\ From(name, j) \in Indexed(creds)
      BY DEF Hits
    <3>2. j \notin 1..(k - 1)
      BY <1>2, <3>1
    <3> QED BY <1>1, <3>1, <3>2
  <2>3. hits \subseteq 1..Len(name)
    BY DEF Hits
  <2> HIDE DEF hits
  <2>4. \A i \in hits : (\A j \in hits : i <= j) => i = k
    BY <1>1, <2>1, <2>2, <2>3
  <2> QED BY <2>1, <2>2, <2>4
<1> HIDE DEF hits
<1>6. NoMatch.matched = FALSE
  BY DEF NoMatch
<1>7. CASE ~done
  BY <1>2, <1>6, <1>7
<1>8. CASE done /\ result = NoMatch
  <2>1. Resolve(creds, fqdn) = NoMatch
    BY <1>2, <1>3, <1>4, <1>6, <1>8
  <2> QED BY <1>8, <2>1
<1>9. CASE done /\ result # NoMatch
  <2>1. /\ result = [matched |-> TRUE, apex |-> candidate,
                     cred |-> IndexEntry(creds, candidate)]
        /\ name # <<EmptyLabel>> /\ candidate \in Indexed(creds)
    BY <1>2, <1>9
  <2>2. hits # {} /\ From(name, CHOOSE i \in hits : \A j \in hits : i <= j) = candidate
    BY <1>2, <1>5, <2>1
  <2>3. Resolve(creds, fqdn) = result
    BY <1>3, <2>1, <2>2
  <2> QED BY <2>3
<1> QED BY <1>7, <1>8, <1>9

\* The loop of Resolve returns the longest configured suffix.
THEOREM WalkCorrect == Spec => []WalkFindsLongest
<1>1. WalkInv => WalkFindsLongest
  BY WalkResult
<1> QED BY WalkInit, WalkStep, <1>1, PTL DEF Spec

\* The record name derived from the loop's result names the challenge's FQDN,
\* when that has no whitespace around it.
THEOREM WalkRecordExact == Spec => []RecordExact
<1>1. WalkInv => RecordExact
  <2> SUFFICES ASSUME WalkInv, result.matched, ProperName(fqdn)
               PROVE  AbsoluteName(RelativeRecordName(fqdn, result.apex), result.apex)
                        = Lower(TrimDot(fqdn))
    BY DEF RecordExact
  <2>1. result = Resolve(creds, fqdn)
    BY WalkResult
  <2>2. Resolve(creds, fqdn).matched
    BY <2>1
  <2> QED BY <2>1, <2>2, RecordNameExact
<1> QED BY WalkInit, WalkStep, <1>1, PTL DEF Spec

\* ValidateConfig's duplicate check makes the index of Resolve a function of
\* the zone alone: one credential owns the matched apex.
THEOREM WalkOneOwner == Spec => []OneOwner
<1>1. WalkInv => OneOwner
  <2> SUFFICES ASSUME WalkInv, result.matched
               PROVE  {i \in DOMAIN creds : Lists(creds, i, result.apex)} = {result.cred}
    BY DEF OneOwner
  <2> DEFINE owners == {i \in DOMAIN creds : Lists(creds, i, candidate)}
  <2>1. /\ candidate \in Indexed(creds)
        /\ result.apex = candidate /\ result.cred = IndexEntry(creds, candidate)
    <3>1. NoMatch.matched = FALSE
      BY DEF NoMatch
    <3> QED BY <3>1 DEF WalkInv
  <2>2. ValidConfig(creds)
    BY DEF WalkInv, Accepted
  <2>3. \A i, j \in owners : i = j
    <3> SUFFICES ASSUME NEW i \in owners, NEW j \in owners, i # j PROVE FALSE
      OBVIOUS
    <3>1. PICK a \in DOMAIN creds[i].zones : Lower(creds[i].zones[a]) = candidate
      BY DEF Lists
    <3>2. PICK b \in DOMAIN creds[j].zones : Lower(creds[j].zones[b]) = candidate
      BY DEF Lists
    <3>3. <<i, a>> # <<j, b>>
      OBVIOUS
    <3> QED BY <2>2, <3>1, <3>2, <3>3 DEF ValidConfig
  <2>4. PICK o \in owners : TRUE
    BY <2>1 DEF Indexed, Lists
  <2>5. IndexEntry(creds, candidate) = o
    <3>1. o \in DOMAIN creds /\ Lists(creds, o, candidate)
      OBVIOUS
    <3>2. \A i \in DOMAIN creds : Lists(creds, i, candidate) => i = o
      BY <2>3
    <3>3. o <= o
      <4>1. DOMAIN creds \subseteq Nat
        BY WalkAssumption DEF WalkInv, Accepted
      <4> QED BY <3>1, <4>1
    <3> QED BY <3>1, <3>2, <3>3 DEF IndexEntry
  <2> QED BY <2>1, <2>3, <2>4, <2>5
<1> QED BY WalkInit, WalkStep, <1>1, PTL DEF Spec

============================================================================
