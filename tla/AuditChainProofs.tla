--------------------------- MODULE AuditChainProofs ---------------------------
(***************************************************************************)
(* Proofs about the proxy's audit chain, for all buffer sizes and any      *)
(* number of events, restarts and damaged events; about the analyses of    *)
(* the MCP server, whatever is indexed and whichever source fails; and     *)
(* about what is made of denied calls, the discovery alerts and the advice *)
(* on the policy, whatever the rules, the denials and the restarts.        *)
(***************************************************************************)
EXTENDS AuditChain, Analysis, PolicyAdvice, SelectionLemmas, SequenceTheorems,
        WellFoundedInduction, TLAPS

-----------------------------------------------------------------------------
(* Ring buffers and the chained events in them.                            *)

LEMMA ChainedOf ==
  ASSUME NEW l \in Log, NEW e
  PROVE  e \in Chained(l) <=>
           /\ e.hash # NoHash
           /\ \E b \in Buffers : \E i \in DOMAIN l[b] : e = l[b][i]
BY DEF Chained, Range

LEMMA ChainedTyped ==
  ASSUME NEW l \in Log, NEW e \in Chained(l)
  PROVE  /\ e \in Event
         /\ e.hash \in Hashes
         /\ e.prev \in Hashes \cup {Genesis}
         /\ e.seq \in 0..MaxEvents
<1>1. PICK b \in Buffers : \E i \in DOMAIN l[b] : e = l[b][i]
  BY ChainedOf
<1>2. PICK i \in DOMAIN l[b] : e = l[b][i]
  BY <1>1
<1>3. l[b] \in Seq(Event)
  BY DEF Log
<1>4. e \in Event
  BY <1>2, <1>3
<1>5. e.hash # NoHash
  BY ChainedOf
<1>6. QED
  BY <1>4, <1>5 DEF Event

LEMMA PushedType ==
  ASSUME NEW s \in Seq(Event), NEW e \in Event, NEW limit \in Nat \ {0},
         Len(s) <= limit
  PROVE  /\ Pushed(s, e, limit) \in Seq(Event)
         /\ Len(Pushed(s, e, limit)) <= limit
         /\ \A i \in DOMAIN Pushed(s, e, limit) :
              \/ Pushed(s, e, limit)[i] = e
              \/ \E j \in DOMAIN s : Pushed(s, e, limit)[i] = s[j]
<1> DEFINE n == IF Len(s) < limit THEN Len(s) ELSE limit - 1
           kept == SubSeq(s, 1, n)
<1>1. n \in Nat /\ n <= Len(s) /\ n + 1 <= limit
  OBVIOUS
<1>2. \A i \in 1..n : s[i] \in Event
  BY <1>1
<1>3. /\ kept \in Seq(Event)
      /\ Len(kept) = n
      /\ \A i \in 1..n : kept[i] = s[i]
  BY <1>1, <1>2, SubSeqProperties
<1>4. <<e>> \in Seq(Event) /\ Len(<<e>>) = 1 /\ <<e>>[1] = e
  OBVIOUS
<1>5. Pushed(s, e, limit) = <<e>> \o kept
  BY DEF Pushed
<1> HIDE DEF kept, n
<1>6. /\ <<e>> \o kept \in Seq(Event)
      /\ Len(<<e>> \o kept) = n + 1
      /\ \A i \in 1..(n + 1) :
           (<<e>> \o kept)[i] = IF i <= 1 THEN <<e>>[i] ELSE kept[i - 1]
  BY <1>1, <1>3, <1>4, ConcatProperties
<1>7. ASSUME NEW i \in 1..(n + 1)
      PROVE  \/ (<<e>> \o kept)[i] = e
             \/ \E j \in DOMAIN s : (<<e>> \o kept)[i] = s[j]
  <2>1. CASE i = 1
    BY <2>1, <1>4, <1>6
  <2>2. CASE i # 1
    <3>1. i - 1 \in 1..n /\ i - 1 \in DOMAIN s
      BY <2>2, <1>1
    <3>2. QED
      BY <3>1, <2>2, <1>1, <1>3, <1>6
  <2>3. QED
    BY <2>1, <2>2
<1>8. DOMAIN (<<e>> \o kept) = 1..(n + 1)
  BY <1>6, LenProperties
<1>9. QED
  BY <1>1, <1>5, <1>6, <1>7, <1>8

\* Every chained event of l2 is one of l1, its payload possibly altered.
Shadows(l2, l1) ==
  \A e \in Chained(l2) : \E f \in Chained(l1) :
    e.hash = f.hash /\ e.prev = f.prev /\ e.seq = f.seq

Bounded(l) == \A b \in Buffers : Len(l[b]) <= Limit[b]

With(l, b, e) == [l EXCEPT ![b] = Pushed(l[b], e, Limit[b])]

LEMMA PushedLog ==
  ASSUME NEW l \in Log, Bounded(l), NEW b \in Buffers, NEW e \in Event
  PROVE  /\ With(l, b, e) \in Log
         /\ Bounded(With(l, b, e))
         /\ \A f \in Chained(With(l, b, e)) : f \in Chained(l) \/ f = e
<1> DEFINE l2 == With(l, b, e)
<1>1. l[b] \in Seq(Event) /\ Limit[b] \in Nat \ {0} /\ Len(l[b]) <= Limit[b]
  BY AuditAssumption DEF Log, Bounded
<1> DEFINE p == Pushed(l[b], e, Limit[b])
<1>2. /\ p \in Seq(Event)
      /\ Len(p) <= Limit[b]
      /\ \A i \in DOMAIN p : p[i] = e \/ \E j \in DOMAIN l[b] : p[i] = l[b][j]
  BY <1>1, PushedType
<1>3. l2 = [l EXCEPT ![b] = p]
  BY DEF With
<1> HIDE DEF p, l2
<1>4. l2 \in Log /\ Bounded(l2)
  BY <1>2, <1>3 DEF Log, Bounded
<1>5. ASSUME NEW f \in Chained(l2)
      PROVE  f \in Chained(l) \/ f = e
  <2>1. /\ f.hash # NoHash
        /\ \E c \in Buffers : \E i \in DOMAIN l2[c] : f = l2[c][i]
    <3>1. f \in UNION {Range(l2[c]) : c \in Buffers} /\ f.hash # NoHash
      BY DEF Chained
    <3>2. QED
      BY <3>1 DEF Range
  <2>2. PICK c \in Buffers : \E i \in DOMAIN l2[c] : f = l2[c][i]
    BY <2>1
  <2>3. PICK i \in DOMAIN l2[c] : f = l2[c][i]
    BY <2>2
  <2>4. f = e \/ \E j \in DOMAIN l[c] : f = l[c][j]
    <3>1. DOMAIN l = Buffers
      BY DEF Log
    <3>2. CASE c = b
      BY <3>1, <3>2, <2>3, <1>2, <1>3
    <3>3. CASE c # b
      BY <3>1, <3>3, <2>3, <1>3
    <3>4. QED
      BY <3>2, <3>3
  <2>5. f = e \/ f \in UNION {Range(l[d]) : d \in Buffers}
    BY <2>4 DEF Range
  <2>6. QED
    BY <2>1, <2>5 DEF Chained
<1>6. QED
  BY <1>4, <1>5 DEF l2

LEMMA NoChainInEmpty == Chained(EmptyLog) = {} /\ EmptyLog \in Log /\ Bounded(EmptyLog)
<1>1. EmptyLog \in Log
  BY DEF EmptyLog, Log
<1>2. \A e : e \notin Chained(EmptyLog)
  BY <1>1, ChainedOf DEF EmptyLog
<1>3. Bounded(EmptyLog)
  BY AuditAssumption DEF EmptyLog, Bounded
<1>4. QED
  BY <1>1, <1>2, <1>3

-----------------------------------------------------------------------------
(* Damage to the history file.                                             *)

LEMMA AlteredSeq ==
  ASSUME NEW s \in Seq(Event), NEW i \in DOMAIN s
  PROVE  /\ Altered(s, i) \in Seq(Event)
         /\ Len(Altered(s, i)) = Len(s)
         /\ \A j \in DOMAIN Altered(s, i) : \E k \in DOMAIN s :
              LET e == Altered(s, i)[j]
              IN  e.hash = s[k].hash /\ e.prev = s[k].prev /\ e.seq = s[k].seq
<1> DEFINE a == [s[i] EXCEPT !.intact = FALSE]
<1>1. s[i] \in Event
  OBVIOUS
<1>2. /\ a \in Event
      /\ a.hash = s[i].hash
      /\ a.prev = s[i].prev
      /\ a.seq = s[i].seq
  BY <1>1 DEF Event
<1>3. Altered(s, i) = [s EXCEPT ![i] = a]
  BY DEF Altered
<1> HIDE DEF a
<1>4. /\ Altered(s, i) \in Seq(Event)
      /\ Len(Altered(s, i)) = Len(s)
      /\ DOMAIN Altered(s, i) = DOMAIN s
  BY <1>2, <1>3
<1>5. ASSUME NEW j \in DOMAIN s
      PROVE  Altered(s, i)[j] = IF j = i THEN a ELSE s[j]
  BY <1>3
<1>6. QED
  BY <1>2, <1>4, <1>5

LEMMA RemovedSeq ==
  ASSUME NEW s \in Seq(Event), NEW i \in DOMAIN s
  PROVE  /\ Removed(s, i) \in Seq(Event)
         /\ Len(Removed(s, i)) <= Len(s)
         /\ \A j \in DOMAIN Removed(s, i) : \E k \in DOMAIN s :
              Removed(s, i)[j] = s[k]
<1> DEFINE front == SubSeq(s, 1, i - 1)
           back == SubSeq(s, i + 1, Len(s))
<1>1. Len(s) \in Nat /\ i \in 1..Len(s) /\ \A j \in 1..Len(s) : s[j] \in Event
  OBVIOUS
<1>2. /\ front \in Seq(Event)
      /\ Len(front) = i - 1
      /\ \A j \in 1..(i - 1) : front[j] = s[j]
  <2>1. 1 \in Int /\ i - 1 \in Int /\ \A j \in 1..(i - 1) : s[j] \in Event
    BY <1>1
  <2>2. /\ front \in Seq(Event)
        /\ Len(front) = IF 1 <= i - 1 THEN i - 1 - 1 + 1 ELSE 0
        /\ \A j \in 1..(i - 1 - 1 + 1) : front[j] = s[1 + j - 1]
    BY <2>1, SubSeqProperties
  <2> HIDE DEF front
  <2>3. QED
    BY <2>2, <1>1
<1>3. /\ back \in Seq(Event)
      /\ Len(back) = Len(s) - i
      /\ \A j \in 1..(Len(s) - i) : back[j] = s[i + j]
  <2>1. i + 1 \in Int /\ Len(s) \in Int /\ \A j \in (i + 1)..Len(s) : s[j] \in Event
    BY <1>1
  <2>2. /\ back \in Seq(Event)
        /\ Len(back) = IF i + 1 <= Len(s) THEN Len(s) - (i + 1) + 1 ELSE 0
        /\ \A j \in 1..(Len(s) - (i + 1) + 1) : back[j] = s[(i + 1) + j - 1]
    BY <2>1, SubSeqProperties
  <2> HIDE DEF back
  <2>3. QED
    BY <2>2, <1>1
<1>4. Removed(s, i) = front \o back
  BY DEF Removed
<1> HIDE DEF front, back
<1>5. PICK n \in Nat : n = Len(s) /\ i \in 1..n
  BY <1>1
<1>6. /\ front \o back \in Seq(Event)
      /\ Len(front \o back) = n - 1
      /\ \A j \in 1..(n - 1) :
           (front \o back)[j] = IF j <= i - 1 THEN front[j] ELSE back[j - (i - 1)]
  <2>1. /\ front \o back \in Seq(Event)
        /\ Len(front \o back) = Len(front) + Len(back)
        /\ \A j \in 1..(Len(front) + Len(back)) :
             (front \o back)[j] =
               IF j <= Len(front) THEN front[j] ELSE back[j - Len(front)]
    BY <1>2, <1>3, ConcatProperties
  <2>2. Len(front) = i - 1 /\ Len(back) = n - i /\ Len(front) + Len(back) = n - 1
    <3>1. Len(front) = i - 1 /\ Len(back) = n - i
      BY <1>2, <1>3, <1>5
    <3>2. i - 1 + (n - i) = n - 1
      BY <1>5
    <3>3. QED
      BY <3>1, <3>2, Zenon
  <2>3. QED
    BY <2>1, <2>2, Zenon
<1>7. ASSUME NEW j \in 1..(n - 1)
      PROVE  \E k \in 1..n : (front \o back)[j] = s[k]
  <2>1. CASE j <= i - 1
    <3>1. j \in 1..(i - 1) /\ j \in 1..n
      BY <2>1, <1>5
    <3>2. (front \o back)[j] = s[j]
      BY <3>1, <2>1, <1>2, <1>6, Zenon
    <3>3. QED
      BY <3>1, <3>2
  <2>2. CASE ~(j <= i - 1)
    <3>1. j - (i - 1) \in 1..(n - i) /\ i + (j - (i - 1)) \in 1..n
      BY <2>2, <1>5
    <3>2. (front \o back)[j] = s[i + (j - (i - 1))]
      BY <3>1, <2>2, <1>3, <1>5, <1>6, Zenon
    <3>3. QED
      BY <3>1, <3>2
  <2>3. QED
    BY <2>1, <2>2
<1>8. DOMAIN (front \o back) = 1..(n - 1) /\ DOMAIN s = 1..n
  BY <1>5, <1>6, LenProperties
<1>9. Len(front \o back) <= Len(s)
  BY <1>5, <1>6
<1>10. \A j \in DOMAIN (front \o back) : \E k \in DOMAIN s :
         (front \o back)[j] = s[k]
  BY <1>7, <1>8, Zenon
<1>11. front \o back \in Seq(Event)
  BY <1>6
<1>12. QED
  BY <1>4, <1>9, <1>10, <1>11, Zenon

-----------------------------------------------------------------------------
(* The inductive invariant: memory and file each hold one chain whose head   *)
(* nobody has linked to yet, so that the chain can be continued from either. *)

\* No link to h yet, one successor per link, numbers along the links, and h
\* the newest event if it is still buffered.
OneChain(l, h) ==
  /\ \A e \in Chained(l) :
       e.hash <= lastHash /\ e.prev <= lastHash /\ e.seq <= lastHash /\ e.prev # h
  /\ \A e, f \in Chained(l) : e.prev = f.prev => e.hash = f.hash
  /\ \A e, f \in Chained(l) : e.prev = f.hash => e.seq = f.seq + 1
  /\ \A e, f \in Chained(l) : f.hash = h => e.seq <= f.seq

SeqIsLatest ==
  /\ seq <= lastHash
  /\ \A e \in Chained(log) : e.seq <= seq /\ (e.hash = head => e.seq = seq)

FileInv ==
  file # NoFile =>
    Bounded(file.log) /\ file.head <= lastHash /\ OneChain(file.log, file.head)

IInv ==
  /\ AuditTypeOK
  /\ head <= lastHash
  /\ OneChain(log, head)
  /\ SeqIsLatest
  /\ FileInv

LEMMA ShadowsKeepOneChain ==
  ASSUME NEW l1, NEW l2, NEW h, OneChain(l1, h), Shadows(l2, l1)
  PROVE  OneChain(l2, h)
BY DEF OneChain, Shadows

LEMMA EmptyIsOneChain ==
  ASSUME NEW l, Chained(l) = {}, NEW h
  PROVE  OneChain(l, h)
BY DEF OneChain

\* The sequence number of a restored log is that of its last event.
LEMMA RestoredSeqIsMax ==
  ASSUME NEW l \in Log
  PROVE  /\ RestoredSeq(l) \in 0..MaxEvents
         /\ \A e \in Chained(l) : e.seq <= RestoredSeq(l)
         /\ RestoredSeq(l) = 0 \/ \E e \in Chained(l) : e.seq = RestoredSeq(l)
<1> DEFINE T == {n \in Nat : n <= MaxEvents /\ \A e \in Chained(l) : e.seq <= n}
           IsSeq(n) == /\ \A e \in Chained(l) : e.seq <= n
                       /\ n = 0 \/ \E e \in Chained(l) : e.seq = n
<1>1. MaxEvents \in Nat /\ \A e \in Chained(l) : e.seq \in 0..MaxEvents
  BY AuditAssumption, ChainedTyped
<1>2. MaxEvents \in T
  BY <1>1
<1>3. \E n \in T : \A m \in T : ~(m < n)
  <2>1. T \subseteq Nat /\ T # {}
    BY <1>2
  <2>2. \E n \in T : \A m \in T : ~(<<m, n>> \in OpToRel(<, Nat))
    <3> HIDE DEF T
    <3> QED
      BY <2>1, NatLessThanWellFounded, WFMin
  <2>3. QED
    BY <2>2 DEF OpToRel
<1>4. PICK n \in T : \A m \in T : ~(m < n)
  BY <1>3
<1>5. n \in 0..MaxEvents /\ \A e \in Chained(l) : e.seq <= n
  BY <1>1, <1>4
<1>6. n = 0 \/ \E e \in Chained(l) : e.seq = n
  <2>1. SUFFICES ASSUME n # 0, \A e \in Chained(l) : e.seq # n
                 PROVE  FALSE
    OBVIOUS
  <2>2. n - 1 \in Nat /\ n - 1 <= MaxEvents
    BY <1>1, <1>5, <2>1
  <2>3. \A e \in Chained(l) : e.seq <= n - 1
    BY <1>1, <1>5, <2>1
  <2>4. n - 1 \in T
    BY <2>2, <2>3
  <2>5. QED
    BY <1>4, <1>5, <2>4
<1>7. \E m \in 0..MaxEvents : IsSeq(m)
  BY <1>5, <1>6
<1>8. RestoredSeq(l) = CHOOSE m \in 0..MaxEvents : IsSeq(m)
  BY DEF RestoredSeq
<1>9. RestoredSeq(l) \in 0..MaxEvents /\ IsSeq(RestoredSeq(l))
  <2> HIDE DEF IsSeq
  <2> QED
    BY <1>7, <1>8
<1>10. QED
  BY <1>9

-----------------------------------------------------------------------------
(* Recording an event.                                                       *)

LEMMA RecordedLog ==
  ASSUME IInv, NEW b \in Buffers, Unlinked(b) \/ Linked(b)
  PROVE  /\ log' \in Log
         /\ Bounded(log)'
         /\ head' \in Hashes \cup {Genesis}
         /\ seq' \in 0..MaxEvents
         /\ chain' \subseteq Hashes
         /\ lastHash' \in 0..MaxEvents
         /\ lastHash <= lastHash'
         /\ head' <= lastHash'
         /\ OneChain(log, head)'
         /\ SeqIsLatest'
<1>1. log \in Log /\ Bounded(log) /\ seq \in 0..MaxEvents /\ seq <= lastHash
      /\ head \in Hashes \cup {Genesis} /\ head <= lastHash
      /\ lastHash \in 0..MaxEvents /\ chain \subseteq Hashes
  BY DEF IInv, AuditTypeOK, Bounded, SeqIsLatest
<1>2. /\ OneChain(log, head)
      /\ \A e \in Chained(log) : e.seq <= seq /\ (e.hash = head => e.seq = seq)
  BY DEF IInv, SeqIsLatest
<1>3. MaxEvents \in Nat
  BY AuditAssumption
<1>4. CASE Unlinked(b)
  <2>1. Plain \in Event
    BY <1>3 DEF Plain, Event, Hashes, NoHash, Genesis
  <2>2. log' = [log EXCEPT ![b] = Pushed(log[b], Plain, Limit[b])]
    BY <1>4 DEF Unlinked
  <2>3. /\ log' \in Log /\ Bounded(log')
        /\ \A f \in Chained(log') : f \in Chained(log) \/ f = Plain
    <3>1. log' = With(log, b, Plain)
      BY <2>2 DEF With
    <3>2. QED
      BY <1>1, <2>1, <3>1, PushedLog
  <2>4. \A f \in Chained(log') : f \in Chained(log)
    BY <2>3, ChainedOf DEF Plain
  <2>5. UNCHANGED <<head, seq, lastHash, chain>>
    BY <1>4 DEF Unlinked
  <2>6. OneChain(log', head)
    BY <2>4, <1>2, ShadowsKeepOneChain DEF Shadows
  <2>7. OneChain(log, head)'
    BY <2>5, <2>6 DEF OneChain
  <2>8. SeqIsLatest'
    BY <2>4, <2>5, <1>1, <1>2 DEF SeqIsLatest
  <2>9. QED
    BY <1>1, <2>3, <2>5, <2>7, <2>8 DEF Bounded
<1>5. CASE Linked(b)
  <2> DEFINE new == [hash |-> lastHash + 1, prev |-> head, seq |-> seq + 1,
                     intact |-> TRUE]
  <2>1. /\ lastHash < MaxEvents /\ lastHash' = lastHash + 1 /\ seq' = seq + 1
        /\ head' = lastHash + 1 /\ chain' = chain \cup {lastHash + 1}
        /\ log' = [log EXCEPT ![b] = Pushed(log[b], new, Limit[b])]
    BY <1>5 DEF Linked
  <2>2. lastHash + 1 \in Hashes /\ seq + 1 \in 0..MaxEvents
    BY <1>1, <1>3, <2>1 DEF Hashes
  <2>3. /\ new \in Event /\ new.hash = lastHash + 1 /\ new.prev = head
        /\ new.seq = seq + 1
    BY <1>1, <2>2 DEF Event
  <2> HIDE DEF new
  <2>4. /\ log' \in Log /\ Bounded(log')
        /\ \A f \in Chained(log') : f \in Chained(log) \/ f = new
    <3>1. log' = With(log, b, new)
      BY <2>1 DEF With
    <3>2. QED
      BY <1>1, <2>3, <3>1, PushedLog
  <2>5. /\ lastHash \in Nat /\ seq \in Nat /\ head \in Nat
        /\ seq <= lastHash /\ head <= lastHash
    BY <1>1 DEF Hashes, Genesis
  <2>6. \A e \in Chained(log) : /\ e.hash \in Nat /\ e.prev \in Nat /\ e.seq \in Nat
    BY <1>1, ChainedTyped DEF Hashes, Genesis
  <2>7. \A e \in Chained(log) :
          /\ e.hash <= lastHash /\ e.prev <= lastHash /\ e.seq <= lastHash
          /\ e.prev # head /\ e.seq <= seq /\ (e.hash = head => e.seq = seq)
    BY <1>2 DEF OneChain
  <2>8. ASSUME NEW e \in Chained(log')
        PROVE  /\ e.hash <= lastHash + 1 /\ e.prev <= lastHash + 1
               /\ e.seq <= lastHash + 1 /\ e.prev # lastHash + 1
               /\ e.seq <= seq + 1 /\ (e.hash = lastHash + 1 => e.seq = seq + 1)
    <3>1. CASE e \in Chained(log)
      BY <3>1, <2>5, <2>6, <2>7
    <3>2. CASE e = new
      BY <3>2, <2>3, <2>5
    <3>3. QED
      BY <3>1, <3>2, <2>4
  <2>9. ASSUME NEW e \in Chained(log'), NEW f \in Chained(log')
        PROVE  /\ e.prev = f.prev => e.hash = f.hash
               /\ e.prev = f.hash => e.seq = f.seq + 1
    <3>1. CASE e \in Chained(log) /\ f \in Chained(log)
      BY <3>1, <1>2 DEF OneChain
    <3>2. CASE e = new /\ f \in Chained(log)
      BY <3>2, <2>3, <2>5, <2>6, <2>7
    <3>3. CASE e \in Chained(log) /\ f = new
      BY <3>3, <2>3, <2>5, <2>6, <2>7
    <3>4. CASE e = new /\ f = new
      BY <3>4, <2>3, <2>5
    <3>5. QED
      BY <3>1, <3>2, <3>3, <3>4, <2>4
  <2>10. \A e, f \in Chained(log') : f.hash = head' => e.seq <= f.seq
    BY <2>1, <2>8
  <2>11. OneChain(log, head)'
    BY <2>1, <2>8, <2>9, <2>10 DEF OneChain
  <2>12. SeqIsLatest'
    <3>1. seq' <= lastHash'
      BY <2>1, <2>5
    <3>2. \A e \in Chained(log') : e.seq <= seq' /\ (e.hash = head' => e.seq = seq')
      BY <2>1, <2>8
    <3>3. QED
      BY <3>1, <3>2 DEF SeqIsLatest
  <2>13. /\ lastHash' \in 0..MaxEvents /\ lastHash <= lastHash'
         /\ chain' \subseteq Hashes /\ head' <= lastHash'
    BY <1>1, <1>3, <2>1, <2>2, <2>5
  <2>14. QED
    BY <2>1, <2>2, <2>4, <2>11, <2>12, <2>13 DEF Bounded
<1>6. QED
  BY <1>4, <1>5

\* A later hash counter leaves a chain one chain.
LEMMA LaterHash ==
  ASSUME IInv, lastHash \in Nat, lastHash' \in Nat, lastHash <= lastHash',
         file' = file
  PROVE  FileInv'
<1>1. CASE file = NoFile
  BY <1>1 DEF FileInv
<1>2. CASE file # NoFile
  <2>1. /\ file.log \in Log /\ Bounded(file.log) /\ file.head <= lastHash
        /\ file.head \in Nat /\ OneChain(file.log, file.head)
    BY <1>2 DEF IInv, AuditTypeOK, FileInv, Snapshot, Hashes, Genesis
  <2>2. \A e \in Chained(file.log) : e.hash \in Nat /\ e.prev \in Nat /\ e.seq \in Nat
    BY <2>1, ChainedTyped DEF Hashes, Genesis
  <2>3. ASSUME NEW e \in Chained(file.log)
        PROVE  e.hash <= lastHash' /\ e.prev <= lastHash' /\ e.seq <= lastHash'
    BY <2>1, <2>2 DEF OneChain
  <2>4. OneChain(file.log, file.head)'
    BY <2>1, <2>3 DEF OneChain
  <2>5. file'.head <= lastHash'
    BY <2>1
  <2>6. Bounded(file.log)'
    BY <2>1 DEF Bounded
  <2>7. QED
    BY <2>4, <2>5, <2>6 DEF FileInv
<1>3. QED
  BY <1>1, <1>2

\* A snapshot of memory is a file the chain can be continued from.
LEMMA SavedIsMemory ==
  ASSUME log' \in Log, Bounded(log)', head' \in Hashes \cup {Genesis},
         chain' \subseteq Hashes, head' <= lastHash', OneChain(log, head)',
         file' = [log |-> log', head |-> head', chain |-> chain']
  PROVE  file' \in Snapshot /\ FileInv'
<1>1. file' \in Snapshot
  BY DEF Snapshot
<1>2. file'.log = log' /\ file'.head = head'
  OBVIOUS
<1>3. QED
  BY <1>1, <1>2 DEF FileInv, Bounded, OneChain

LEMMA RecordEventInv ==
  ASSUME IInv, NEW b \in Buffers, NEW saved \in BOOLEAN, RecordEvent(b, saved)
  PROVE  IInv'
<1>1. /\ Unlinked(b) \/ Linked(b)
      /\ UNCHANGED <<enabled, switchedOff, restarts, damage>>
      /\ Persist(saved)
  BY DEF RecordEvent
<1>2. /\ log' \in Log /\ Bounded(log)' /\ head' \in Hashes \cup {Genesis}
      /\ seq' \in 0..MaxEvents /\ chain' \subseteq Hashes
      /\ lastHash' \in 0..MaxEvents /\ lastHash <= lastHash'
      /\ head' <= lastHash' /\ OneChain(log, head)' /\ SeqIsLatest'
  BY <1>1, RecordedLog
<1>3. file' \in Snapshot \cup {NoFile} /\ FileInv'
  <2>1. CASE saved
    BY <2>1, <1>1, <1>2, SavedIsMemory DEF Persist
  <2>2. CASE ~saved
    <3>1. file' = file
      BY <2>2, <1>1 DEF Persist
    <3>2. lastHash \in Nat /\ lastHash' \in Nat /\ file \in Snapshot \cup {NoFile}
      BY <1>2 DEF IInv, AuditTypeOK
    <3>3. QED
      BY <3>1, <3>2, <1>2, LaterHash
  <2>3. QED
    BY <2>1, <2>2
<1>4. AuditTypeOK'
  BY <1>1, <1>2, <1>3 DEF IInv, AuditTypeOK, Bounded
<1>5. QED
  BY <1>2, <1>3, <1>4 DEF IInv

LEMMA EmitAlertInv ==
  ASSUME IInv, EmitAlert
  PROVE  IInv'
<1>1. UNCHANGED <<log, head, seq, enabled, lastHash, chain, switchedOff, restarts,
                  damage>>
  BY DEF EmitAlert
<1>2. /\ log' \in Log /\ Bounded(log)' /\ head' \in Hashes \cup {Genesis}
      /\ chain' \subseteq Hashes /\ head' <= lastHash'
  BY <1>1 DEF IInv, AuditTypeOK, Bounded
<1>3. OneChain(log, head)' /\ SeqIsLatest'
  BY <1>1 DEF IInv, OneChain, SeqIsLatest
<1>4. file' \in Snapshot /\ FileInv'
  BY <1>2, <1>3, SavedIsMemory DEF EmitAlert, Persist
<1>5. AuditTypeOK'
  BY <1>1, <1>4 DEF IInv, AuditTypeOK
<1>6. QED
  BY <1>2, <1>3, <1>4, <1>5 DEF IInv

LEMMA SwitchChainInv ==
  ASSUME IInv, SwitchChain
  PROVE  IInv'
<1>1. UNCHANGED <<log, head, seq, file, lastHash, chain, restarts, damage>>
  BY DEF SwitchChain
<1>2. enabled' \in BOOLEAN /\ switchedOff' \in BOOLEAN
  BY DEF SwitchChain, IInv, AuditTypeOK
<1>3. AuditTypeOK'
  BY <1>1, <1>2 DEF IInv, AuditTypeOK
<1>4. QED
  BY <1>1, <1>3 DEF IInv, OneChain, SeqIsLatest, FileInv, Bounded

\* Empty buffers, head and seq reset: a chain with no event.
LEMMA ClearedMemory ==
  ASSUME IInv, ClearBuffers, lastHash' = lastHash
  PROVE  /\ log' \in Log /\ Bounded(log)' /\ head' \in Hashes \cup {Genesis}
         /\ seq' \in 0..MaxEvents /\ chain' \subseteq Hashes
         /\ head' <= lastHash' /\ OneChain(log, head)' /\ SeqIsLatest'
<1>1. /\ log' = EmptyLog /\ head' = 0 /\ seq' = 0 /\ chain' = {}
      /\ lastHash' \in Nat /\ MaxEvents \in Nat
  BY AuditAssumption DEF ClearBuffers, Genesis, IInv, AuditTypeOK
<1>2. log' \in Log /\ Bounded(log)' /\ Chained(log') = {}
  BY <1>1, NoChainInEmpty DEF Bounded
<1>3. OneChain(log, head)'
  BY <1>2 DEF OneChain
<1>4. SeqIsLatest'
  BY <1>1, <1>2 DEF SeqIsLatest
<1>5. QED
  BY <1>1, <1>2, <1>3, <1>4 DEF Genesis

LEMMA PurgeInv ==
  ASSUME IInv, NEW clear \in BOOLEAN, NEW deleted \in BOOLEAN, Purge(clear, deleted)
  PROVE  IInv'
<1>1. UNCHANGED <<enabled, lastHash, switchedOff, restarts, damage>>
  BY DEF Purge
<1>2. /\ log' \in Log /\ Bounded(log)' /\ head' \in Hashes \cup {Genesis}
      /\ seq' \in 0..MaxEvents /\ chain' \subseteq Hashes
      /\ head' <= lastHash' /\ OneChain(log, head)' /\ SeqIsLatest'
  <2>1. CASE clear
    BY <2>1, <1>1, ClearedMemory DEF Purge
  <2>2. CASE ~clear
    <3>1. UNCHANGED <<log, head, seq, chain>>
      BY <2>2 DEF Purge
    <3>2. QED
      BY <3>1, <1>1 DEF IInv, AuditTypeOK, Bounded, OneChain, SeqIsLatest
  <2>3. QED
    BY <2>1, <2>2
<1>3. file' = file \/ file' = NoFile
  BY DEF Purge, Unlink
<1>4. FileInv'
  BY <1>1, <1>3 DEF IInv, FileInv, Bounded, OneChain
<1>5. AuditTypeOK'
  BY <1>1, <1>2, <1>3 DEF IInv, AuditTypeOK, Bounded
<1>6. QED
  BY <1>2, <1>4, <1>5 DEF IInv

LEMMA RestartInv ==
  ASSUME IInv, Restart
  PROVE  IInv'
<1>1. /\ UNCHANGED <<file, enabled, lastHash, switchedOff, damage>>
      /\ restarts < MaxRestarts /\ restarts' = restarts + 1
  BY DEF Restart
<1>2. restarts' \in 0..MaxRestarts
  BY <1>1, AuditAssumption DEF IInv, AuditTypeOK
<1>3. FileInv'
  BY <1>1 DEF IInv, FileInv, Bounded, OneChain
<1>4. /\ log' \in Log /\ Bounded(log)' /\ head' \in Hashes \cup {Genesis}
      /\ seq' \in 0..MaxEvents /\ chain' \subseteq Hashes
      /\ head' <= lastHash' /\ OneChain(log, head)' /\ SeqIsLatest'
  <2>1. CASE file = NoFile
    BY <2>1, <1>1, ClearedMemory DEF Restart
  <2>2. CASE file # NoFile
    <3>1. /\ log' = file.log /\ head' = file.head /\ chain' = file.chain
          /\ seq' = RestoredSeq(file.log)
      BY <2>2 DEF Restart, RestoredHead
    <3>2. /\ file.log \in Log /\ file.head \in Hashes \cup {Genesis}
          /\ file.chain \subseteq Hashes /\ file.head <= lastHash
          /\ Bounded(file.log) /\ OneChain(file.log, file.head)
          /\ lastHash \in Nat
      BY <2>2 DEF IInv, AuditTypeOK, FileInv, Snapshot
    <3>3. PICK n \in 0..MaxEvents :
            /\ n = RestoredSeq(file.log)
            /\ \A e \in Chained(file.log) : e.seq <= n
            /\ n = 0 \/ \E e \in Chained(file.log) : e.seq = n
      BY <3>2, RestoredSeqIsMax
    <3>4. \A e \in Chained(file.log) : e.seq \in Nat /\ e.seq <= lastHash
      BY <3>2, ChainedTyped DEF OneChain
    <3>5. n <= lastHash
      BY <3>2, <3>3, <3>4
    <3>6. \A e \in Chained(file.log) : e.seq <= n /\ (e.hash = file.head => e.seq = n)
      BY <3>2, <3>3, <3>4 DEF OneChain
    <3>7. SeqIsLatest'
      BY <1>1, <3>1, <3>3, <3>5, <3>6 DEF SeqIsLatest
    <3>8. OneChain(log, head)'
      BY <1>1, <3>1, <3>2 DEF OneChain
    <3>9. QED
      BY <1>1, <3>1, <3>2, <3>3, <3>7, <3>8 DEF Bounded
  <2>3. QED
    BY <2>1, <2>2
<1>5. AuditTypeOK'
  BY <1>1, <1>2, <1>4 DEF IInv, AuditTypeOK, Bounded
<1>6. QED
  BY <1>3, <1>4, <1>5 DEF IInv

\* A damaged file has fewer events, or one with another payload; the head and
\* the links of the others stay.
LEMMA DamagedFile ==
  ASSUME IInv, DamageFile
  PROVE  /\ file \in Snapshot /\ file' \in Snapshot
         /\ file'.head = file.head /\ file'.chain = file.chain
         /\ Bounded(file'.log)
         /\ Shadows(file'.log, file.log)
<1>1. /\ damage < MaxDamage /\ damage' = damage + 1 /\ file # NoFile
      /\ UNCHANGED <<log, head, seq, enabled, lastHash, chain, switchedOff, restarts>>
  BY DEF DamageFile
<1>0. PICK b \in Buffers : \E i \in DOMAIN file.log[b] :
        \E t \in {Altered(file.log[b], i), Removed(file.log[b], i)} :
          file' = [file EXCEPT !.log[b] = t]
  BY DEF DamageFile
<1>2. PICK i \in DOMAIN file.log[b] :
        \E t \in {Altered(file.log[b], i), Removed(file.log[b], i)} :
          file' = [file EXCEPT !.log[b] = t]
  BY <1>0
<1>3. PICK t \in {Altered(file.log[b], i), Removed(file.log[b], i)} :
        file' = [file EXCEPT !.log[b] = t]
  BY <1>2
<1>4. /\ file \in Snapshot /\ file.log \in Log /\ file.log[b] \in Seq(Event)
      /\ Bounded(file.log) /\ file.head <= lastHash
      /\ OneChain(file.log, file.head)
  BY <1>1 DEF IInv, AuditTypeOK, FileInv, Snapshot, Log
<1>5. PICK l \in Log : l = file.log
  BY <1>4
<1>6. /\ t \in Seq(Event) /\ Len(t) <= Len(l[b])
      /\ \A j \in DOMAIN t : \E k \in DOMAIN l[b] :
           /\ t[j].hash = l[b][k].hash /\ t[j].prev = l[b][k].prev
           /\ t[j].seq = l[b][k].seq
  <2>1. PICK s \in Seq(Event) : s = l[b]
    BY <1>4, <1>5
  <2>2. i \in DOMAIN s /\ t \in {Altered(s, i), Removed(s, i)} /\ Len(s) \in Nat
    BY <2>1, <1>2, <1>3, <1>5
  <2>3. CASE t = Altered(s, i)
    <3>1. /\ t \in Seq(Event) /\ Len(t) = Len(s)
          /\ \A j \in DOMAIN t : \E k \in DOMAIN s :
               t[j].hash = s[k].hash /\ t[j].prev = s[k].prev /\ t[j].seq = s[k].seq
      BY <2>2, <2>3, AlteredSeq
    <3>2. QED
      BY <3>1, <2>1, <2>2
  <2>4. CASE t = Removed(s, i)
    <3>1. /\ t \in Seq(Event) /\ Len(t) <= Len(s)
          /\ \A j \in DOMAIN t : \E k \in DOMAIN s : t[j] = s[k]
      BY <2>2, <2>4, RemovedSeq
    <3>2. QED
      BY <3>1, <2>1
  <2>5. QED
    BY <2>2, <2>3, <2>4
<1>7. PICK l2 : l2 = [l EXCEPT ![b] = t]
  OBVIOUS
<1>8. /\ file' \in Snapshot /\ file'.log = l2 /\ file'.head = file.head
      /\ file'.chain = file.chain
  BY <1>3, <1>4, <1>5, <1>6, <1>7 DEF Snapshot, Log
<1>9. l2 \in Log
  BY <1>6, <1>7 DEF Log
<1>10. Bounded(l2)
  <2>1. ASSUME NEW c \in Buffers PROVE Len(l2[c]) <= Limit[c]
    <3>1. Len(l[c]) <= Limit[c] /\ Len(l[c]) \in Nat /\ Limit[c] \in Nat
      BY <1>4, <1>5, AuditAssumption DEF Bounded, Log
    <3>2. l2[c] = IF c = b THEN t ELSE l[c]
      BY <1>7 DEF Log
    <3>3. QED
      BY <3>1, <3>2, <1>6
  <2>2. QED
    BY <2>1 DEF Bounded
<1>11. Shadows(l2, l)
  <2>1. ASSUME NEW e \in Chained(l2)
        PROVE  \E f \in Chained(l) :
                 e.hash = f.hash /\ e.prev = f.prev /\ e.seq = f.seq
    <3>1. /\ e.hash # NoHash
          /\ \E c \in Buffers : \E j \in DOMAIN l2[c] : e = l2[c][j]
      BY <1>9, ChainedOf
    <3>2. PICK c \in Buffers : \E j \in DOMAIN l2[c] : e = l2[c][j]
      BY <3>1
    <3>3. PICK j \in DOMAIN l2[c] : e = l2[c][j]
      BY <3>2
    <3>4. l2[c] = IF c = b THEN t ELSE l[c]
      BY <1>7 DEF Log
    <3>5. PICK k \in DOMAIN l[c] :
            e.hash = l[c][k].hash /\ e.prev = l[c][k].prev /\ e.seq = l[c][k].seq
      <4>1. CASE c = b
        <5>1. j \in DOMAIN t /\ e = t[j]
          BY <4>1, <3>3, <3>4
        <5>2. QED
          BY <4>1, <5>1, <1>6, Zenon
      <4>2. CASE c # b
        BY <4>2, <3>3, <3>4
      <4>3. QED
        BY <4>1, <4>2
    <3>6. l[c][k] \in Chained(l)
      BY <3>1, <3>5, ChainedOf
    <3>7. QED
      BY <3>5, <3>6
  <2>2. QED
    BY <2>1 DEF Shadows
<1>12. QED
  BY <1>4, <1>5, <1>8, <1>10, <1>11

LEMMA DamageFileInv ==
  ASSUME IInv, DamageFile
  PROVE  IInv'
<1>1. /\ damage < MaxDamage /\ damage' = damage + 1 /\ file # NoFile
      /\ UNCHANGED <<log, head, seq, enabled, lastHash, chain, switchedOff, restarts>>
  BY DEF DamageFile
<1>2. /\ file' \in Snapshot /\ file'.head = file.head /\ Bounded(file'.log)
      /\ Shadows(file'.log, file.log)
  BY DamagedFile
<1>3. OneChain(file.log, file.head) /\ file.head <= lastHash
  BY <1>1 DEF IInv, FileInv
<1>4. OneChain(file'.log, file.head)
  BY <1>2, <1>3, ShadowsKeepOneChain
<1>5. FileInv'
  <2>1. OneChain(file.log, file.head)'
    BY <1>1, <1>2, <1>4 DEF OneChain
  <2>2. QED
    BY <1>1, <1>2, <1>3, <2>1 DEF FileInv, Bounded
<1>6. damage' \in 0..MaxDamage
  BY <1>1, AuditAssumption DEF IInv, AuditTypeOK
<1>7. AuditTypeOK'
  BY <1>1, <1>2, <1>6 DEF IInv, AuditTypeOK
<1>8. QED
  BY <1>1, <1>5, <1>7 DEF IInv, OneChain, SeqIsLatest

-----------------------------------------------------------------------------
(* The chain is one.                                                         *)

LEMMA InitInv == Init => IInv
<1> SUFFICES ASSUME Init PROVE IInv
  OBVIOUS
<1>1. /\ log = EmptyLog /\ head = 0 /\ seq = 0 /\ file = NoFile /\ lastHash = 0
      /\ chain = {} /\ switchedOff = FALSE /\ restarts = 0 /\ damage = 0
      /\ enabled \in BOOLEAN
  BY DEF Init, Genesis
<1>2. log \in Log /\ Bounded(log) /\ Chained(log) = {}
  BY <1>1, NoChainInEmpty
<1>3. AuditTypeOK
  <2>1. 0 \in 0..MaxEvents /\ 0 \in 0..MaxRestarts /\ 0 \in 0..MaxDamage
    BY AuditAssumption
  <2>2. enabled \in BOOLEAN /\ switchedOff \in BOOLEAN
    BY <1>1, Zenon
  <2>3. QED
    BY <1>1, <1>2, <2>1, <2>2, Zenon DEF AuditTypeOK, Bounded, Genesis
<1>4. OneChain(log, head) /\ SeqIsLatest /\ head <= lastHash /\ FileInv
  BY <1>1, <1>2, EmptyIsOneChain DEF SeqIsLatest, FileInv
<1>5. QED
  BY <1>3, <1>4 DEF IInv

LEMMA NextInv == IInv /\ [Next]_vars => IInv'
<1> SUFFICES ASSUME IInv, [Next]_vars PROVE IInv'
  OBVIOUS
<1>1. CASE \E b \in Buffers, saved \in BOOLEAN : RecordEvent(b, saved)
  BY <1>1, RecordEventInv
<1>2. CASE EmitAlert
  BY <1>2, EmitAlertInv
<1>3. CASE SwitchChain
  BY <1>3, SwitchChainInv
<1>4. CASE \E clear, deleted \in BOOLEAN : Purge(clear, deleted)
  BY <1>4, PurgeInv
<1>5. CASE Restart
  BY <1>5, RestartInv
<1>6. CASE DamageFile
  BY <1>6, DamageFileInv
<1>7. CASE UNCHANGED vars
  BY <1>7 DEF vars, IInv, AuditTypeOK, OneChain, SeqIsLatest, FileInv, Bounded
<1>8. QED
  BY <1>1, <1>2, <1>3, <1>4, <1>5, <1>6, <1>7 DEF Next

\* The inductive invariant: the chain a reader follows is the one in memory,
\* whatever was written, refused, purged, restarted or damaged.
THEOREM Invariant == Spec => []IInv
BY InitInv, NextInv, PTL DEF Spec

\* Every variable of the audit log keeps to its type, and no ring buffer grows
\* past its maxlen, for every maxlen and any number of events and restarts.
THEOREM AuditTypeCorrect == Spec => []AuditTypeOK
<1>1. IInv => AuditTypeOK
  BY DEF IInv
<1>2. QED
  BY <1>1, Invariant, PTL

\* No restart, purge, failed write or damaged file lets two buffered events
\* claim the same predecessor.
THEOREM ChainNeverForks == Spec => []NoFork
<1>1. IInv => NoFork
  BY DEF IInv, OneChain, NoFork
<1>2. QED
  BY <1>1, Invariant, PTL

\* The sequence numbers of the buffered events follow their links, although
\* the counter is recomputed from what a restart finds in the buffers.
THEOREM NumbersFollowLinks == Spec => []LinksAscend
<1>1. IInv => LinksAscend
  BY DEF IInv, OneChain, LinksAscend
<1>2. QED
  BY <1>1, Invariant, PTL

\* The buffered events are one chain, numbered in its order, across restarts,
\* purges and failed writes of the history file (app.py, _append_audit).
THEOREM ChainIsKept == Spec => []ChainHolds
BY ChainNeverForks, NumbersFollowLinks, PTL DEF ChainHolds

-----------------------------------------------------------------------------
(* The report of the integrity walk.                                         *)

\* The buffered links are those of the chain c, up to its head h: a link skips
\* no event, so that the walk that finds every predecessor finds all of c.
ChainIs(l, h, c) ==
  /\ \A x \in c : x <= h
  /\ h = Genesis \/ h \in c
  /\ \A e \in Chained(l) :
       /\ e.hash \in c
       /\ e.prev \in c \cup {Genesis}
       /\ e.prev < e.hash
       /\ \A x \in c : x < e.hash => x <= e.prev

\* The events of an untouched log are intact, and its head is buffered.
Untouched(l, h) ==
  /\ \A e \in Chained(l) : e.intact
  /\ Chained(l) # {} => h \in HashesOf(l)

NotYetOn == Chained(log) = {} /\ (file # NoFile => Chained(file.log) = {})

ReportInv ==
  /\ ChainIs(log, head, chain)
  /\ file # NoFile => ChainIs(file.log, file.head, file.chain)
  /\ ~switchedOff => enabled \/ NotYetOn
  /\ ~switchedOff /\ damage = 0 =>
       Untouched(log, head) /\ (file # NoFile => Untouched(file.log, file.head))

Positions == Hashes \cup {Genesis}
LinksGoBack(l) == \A e \in Chained(l) : e.prev < e.hash
IsWalk(l, f) == f = [i \in Positions |-> WalkStep(l, f, i)]

LEMMA PositionsAreNumbers ==
  /\ MaxEvents \in Nat
  /\ Positions = 0..MaxEvents
BY AuditAssumption DEF Positions, Hashes, Genesis

LEMMA EventOfHash ==
  ASSUME NEW l \in Log, NEW i \in HashesOf(l)
  PROVE  EventOf(l, i) \in Chained(l) /\ EventOf(l, i).hash = i
BY DEF HashesOf, EventOf

\* A step of the walk reads only what the walk found further back.
LEMMA StepLooksBack ==
  ASSUME NEW l \in Log, LinksGoBack(l), NEW f, NEW g, NEW i \in 0..MaxEvents,
         \A j \in 0..MaxEvents : j < i => f[j] = g[j]
  PROVE  WalkStep(l, f, i) = WalkStep(l, g, i)
<1>1. CASE i \in HashesOf(l)
  <2>1. EventOf(l, i).prev \in 0..MaxEvents /\ EventOf(l, i).prev < i
    BY <1>1, EventOfHash, ChainedTyped, PositionsAreNumbers
       DEF LinksGoBack, Positions
  <2>2. f[EventOf(l, i).prev] = g[EventOf(l, i).prev]
    BY <2>1
  <2>3. QED
    BY <2>2 DEF WalkStep
<1>2. CASE i \notin HashesOf(l)
  BY <1>2 DEF WalkStep
<1>3. QED
  BY <1>1, <1>2

\* As links go back, the equation of the walk has a solution.
LEMMA WalkExists ==
  ASSUME NEW l \in Log, LinksGoBack(l)
  PROVE  \E f : IsWalk(l, f)
<1> DEFINE Upto(n, f) == f = [i \in 0..n |-> WalkStep(l, f, i)]
           Bad == {n \in 0..MaxEvents : ~ \E f : Upto(n, f)}
<1>1. Bad = {}
  <2>1. SUFFICES ASSUME Bad # {} PROVE FALSE
    OBVIOUS
  <2>2. PICK n \in Bad : \A m \in Bad : ~(m < n)
    <3>1. Bad \subseteq Nat
      OBVIOUS
    <3> HIDE DEF Bad
    <3>2. QED
      BY <2>1, <3>1, LeastOf
  <2>3. n \in 0..MaxEvents /\ n \in Nat /\ \A f : ~Upto(n, f)
    BY <2>2, PositionsAreNumbers
  <2>4. CASE n = 0
    <3> DEFINE f == [i \in 0..0 |-> ReachedGenesis]
    <3>1. \A i \in 0..0 : WalkStep(l, f, i) = ReachedGenesis
      BY DEF WalkStep, Genesis
    <3>2. Upto(0, f)
      BY <3>1
    <3>3. QED
      BY <2>3, <2>4, <3>2
  <2>5. CASE n # 0
    <3>1. n - 1 \in 0..MaxEvents /\ n - 1 < n
      BY <2>3, <2>5, PositionsAreNumbers
    <3>2. n - 1 \notin Bad
      BY <2>2, <3>1
    <3>3. \E f : Upto(n - 1, f)
      BY <3>1, <3>2
    <3>4. PICK f : Upto(n - 1, f)
      BY <3>3
    <3> DEFINE g == [i \in 0..n |-> IF i < n THEN f[i] ELSE WalkStep(l, f, n)]
    <3>5. \A j \in 0..n : j < n => g[j] = f[j]
      OBVIOUS
    <3>6. ASSUME NEW i \in 0..n
          PROVE  g[i] = WalkStep(l, g, i)
      <4>1. i \in 0..MaxEvents /\ \A j \in 0..MaxEvents : j < i => f[j] = g[j]
        BY <2>3, <3>5, PositionsAreNumbers
      <4>2. WalkStep(l, g, i) = WalkStep(l, f, i)
        <5> HIDE DEF g
        <5>1. QED
          BY <4>1, StepLooksBack
      <4>3. g[i] = WalkStep(l, f, i)
        <5>1. CASE i < n
          <6>1. i \in 0..(n - 1)
            BY <2>3, <5>1
          <6>2. f[i] = WalkStep(l, f, i)
            BY <3>4, <6>1
          <6>3. QED
            BY <5>1, <6>2
        <5>2. CASE ~(i < n)
          BY <2>3, <5>2
        <5>3. QED
          BY <5>1, <5>2
      <4>4. QED
        BY <4>2, <4>3
    <3>7. DOMAIN g = 0..n /\ g = [i \in 0..n |-> g[i]]
      OBVIOUS
    <3>8. Upto(n, g)
      <4> HIDE DEF g
      <4>1. QED
        BY <3>6, <3>7
    <3>9. QED
      BY <2>3, <3>8
  <2>6. QED
    BY <2>4, <2>5
<1>2. \E f : Upto(MaxEvents, f)
  BY <1>1, PositionsAreNumbers
<1>3. QED
  BY <1>2, PositionsAreNumbers DEF IsWalk

LEMMA VerificationWalks ==
  ASSUME NEW l \in Log, LinksGoBack(l), NEW h
  PROVE  \E f : /\ IsWalk(l, f)
               /\ Verification(l, h) =
                    IF Chained(l) = {} THEN Report(TRUE, FALSE, {})
                    ELSE IF Tip(l, h) \notin HashesOf(l) THEN Report(FALSE, FALSE, {})
                    ELSE f[Tip(l, h)]
<1> DEFINE walk[i \in Hashes \cup {Genesis}] == WalkStep(l, walk, i)
<1>1. IsWalk(l, walk)
  <2>1. walk = CHOOSE f : IsWalk(l, f)
    BY DEF IsWalk, Positions
  <2> HIDE DEF walk
  <2>2. \E f : IsWalk(l, f)
    BY WalkExists
  <2>3. IsWalk(l, CHOOSE f : IsWalk(l, f))
    <3> HIDE DEF IsWalk
    <3>1. QED
      BY <2>2, Zenon
  <2>4. QED
    BY <2>1, <2>3, Zenon
<1>2. Verification(l, h) =
        IF Chained(l) = {} THEN Report(TRUE, FALSE, {})
        ELSE IF Tip(l, h) \notin HashesOf(l) THEN Report(FALSE, FALSE, {})
        ELSE walk[Tip(l, h)]
  BY DEF Verification
<1> HIDE DEF walk
<1>3. QED
  BY <1>1, <1>2

-----------------------------------------------------------------------------
(* What the report rests on is kept by every step.                           *)

LEMMA ShadowsKeepChain ==
  ASSUME NEW l1, NEW l2, NEW h, NEW c, ChainIs(l1, h, c), Shadows(l2, l1)
  PROVE  ChainIs(l2, h, c)
BY DEF ChainIs, Shadows

LEMMA NothingLinked ==
  ASSUME NEW l, Chained(l) = {}
  PROVE  ChainIs(l, Genesis, {}) /\ \A h : Untouched(l, h)
BY DEF ChainIs, Untouched

\* The newest event of a buffer is never the one that falls off.
LEMMA PushedIsThere ==
  ASSUME NEW l \in Log, Bounded(l), NEW b \in Buffers, NEW e \in Event,
         e.hash # NoHash
  PROVE  e \in Chained(With(l, b, e))
<1> DEFINE s == l[b]
           limit == Limit[b]
           n == IF Len(s) < limit THEN Len(s) ELSE limit - 1
           kept == SubSeq(s, 1, n)
<1>1. s \in Seq(Event) /\ limit \in Nat \ {0} /\ Len(s) <= limit
  BY AuditAssumption DEF Log, Bounded
<1>2. n \in Nat /\ n <= Len(s)
  BY <1>1
<1>3. kept \in Seq(Event)
  <2>1. \A i \in 1..n : s[i] \in Event
    BY <1>1, <1>2
  <2>2. QED
    BY <1>1, <1>2, <2>1, SubSeqProperties
<1>4. Pushed(s, e, limit) = <<e>> \o kept
  BY DEF Pushed
<1> HIDE DEF kept, n
<1>5. <<e>> \in Seq(Event) /\ Len(<<e>>) = 1 /\ <<e>>[1] = e
  OBVIOUS
<1>6. 1 \in DOMAIN (<<e>> \o kept) /\ (<<e>> \o kept)[1] = e
  <2>1. Len(kept) \in Nat
    BY <1>3
  <2>2. /\ <<e>> \o kept \in Seq(Event)
        /\ Len(<<e>> \o kept) = 1 + Len(kept)
        /\ \A i \in 1..(1 + Len(kept)) :
             (<<e>> \o kept)[i] = IF i <= 1 THEN <<e>>[i] ELSE kept[i - 1]
    BY <1>3, <1>5, ConcatProperties
  <2>3. 1 \in 1..(1 + Len(kept))
    BY <2>1
  <2>4. DOMAIN (<<e>> \o kept) = 1..(1 + Len(kept))
    BY <2>2, LenProperties
  <2>5. QED
    BY <1>5, <2>2, <2>3, <2>4
<1>7. With(l, b, e) = [l EXCEPT ![b] = <<e>> \o kept]
  BY <1>4 DEF With
<1>8. With(l, b, e)[b] = <<e>> \o kept
  BY <1>7 DEF Log
<1>9. With(l, b, e) \in Log
  BY PushedLog
<1>10. QED
  BY <1>6, <1>8, <1>9, ChainedOf

LEMMA RecordedReport ==
  ASSUME IInv, ReportInv, NEW b \in Buffers, Unlinked(b) \/ Linked(b)
  PROVE  /\ ChainIs(log', head', chain')
         /\ ~switchedOff => enabled \/ Chained(log') = {}
         /\ ~switchedOff /\ damage = 0 => Untouched(log', head')
<1>1. /\ log \in Log /\ Bounded(log) /\ head \in Nat /\ head <= lastHash
      /\ head \in Hashes \cup {Genesis} /\ lastHash \in Nat /\ seq \in 0..MaxEvents
      /\ seq <= lastHash /\ chain \subseteq Hashes /\ MaxEvents \in Nat
      /\ ChainIs(log, head, chain)
  BY AuditAssumption DEF IInv, AuditTypeOK, SeqIsLatest, ReportInv, Bounded, Hashes,
     Genesis
<1>2. CASE Unlinked(b)
  <2>1. Plain \in Event
    BY <1>1 DEF Plain, Event, Hashes, NoHash, Genesis
  <2>2. log' = With(log, b, Plain) /\ ~enabled /\ head' = head /\ chain' = chain
    BY <1>2 DEF Unlinked, With
  <2>3. \A f \in Chained(log') : f \in Chained(log)
    <3>1. log' \in Log /\ \A f \in Chained(log') : f \in Chained(log) \/ f = Plain
      BY <1>1, <2>1, <2>2, PushedLog
    <3>2. QED
      BY <3>1, ChainedOf DEF Plain
  <2>4. ChainIs(log', head', chain')
    BY <1>1, <2>2, <2>3, ShadowsKeepChain DEF Shadows
  <2>5. ~switchedOff => Chained(log') = {}
    BY <2>2, <2>3 DEF ReportInv, NotYetOn
  <2>6. QED
    BY <2>4, <2>5, NothingLinked
<1>3. CASE Linked(b)
  <2> DEFINE new == [hash |-> lastHash + 1, prev |-> head, seq |-> seq + 1,
                     intact |-> TRUE]
  <2>1. /\ lastHash < MaxEvents /\ enabled
        /\ head' = lastHash + 1 /\ chain' = chain \cup {lastHash + 1}
        /\ log' = With(log, b, new)
    BY <1>3 DEF Linked, With
  <2>2. /\ new \in Event /\ new.hash = lastHash + 1 /\ new.prev = head
        /\ new.hash # NoHash /\ new.intact = TRUE
    BY <1>1, <2>1 DEF Event, Hashes, NoHash
  <2> HIDE DEF new
  <2>3. \A f \in Chained(log') : f \in Chained(log) \/ f = new
    BY <1>1, <2>1, <2>2, PushedLog
  <2>4. new \in Chained(log')
    BY <1>1, <2>1, <2>2, PushedIsThere
  <2>5. \A x \in chain : x \in Nat /\ x <= head /\ x <= lastHash
    BY <1>1 DEF ChainIs, Hashes
  <2>6. ASSUME NEW e \in Chained(log')
        PROVE  /\ e.hash \in chain'
               /\ e.prev \in chain' \cup {Genesis}
               /\ e.prev < e.hash
               /\ \A x \in chain' : x < e.hash => x <= e.prev
    <3>1. CASE e = new
      BY <1>1, <2>1, <2>2, <2>5, <3>1 DEF ChainIs
    <3>2. CASE e \in Chained(log)
      <4>1. /\ e.hash \in chain /\ e.prev \in chain \cup {Genesis}
            /\ e.prev < e.hash
            /\ \A x \in chain : x < e.hash => x <= e.prev
        BY <1>1, <3>2 DEF ChainIs
      <4>2. ~(lastHash + 1 < e.hash)
        <5>1. e.hash \in Nat /\ e.hash <= lastHash /\ lastHash \in Nat
          BY <1>1, <2>5, <4>1
        <5>2. QED
          BY <5>1
      <4>3. QED
        BY <2>1, <4>1, <4>2
    <3>3. QED
      BY <2>3, <3>1, <3>2
  <2>7. ChainIs(log', head', chain')
    <3>1. \A x \in chain' : x <= head'
      BY <1>1, <2>1, <2>5
    <3>2. QED
      BY <2>1, <2>6, <3>1 DEF ChainIs
  <2>8. ASSUME ~switchedOff, damage = 0
        PROVE  Untouched(log', head')
    <3>1. \A e \in Chained(log') : e.intact
      <4>1. \A e \in Chained(log) : e.intact
        BY <2>8 DEF ReportInv, Untouched
      <4>2. new.intact
        BY <2>2
      <4>3. QED
        BY <4>1, <4>2, <2>3, Zenon
    <3>2. head' \in HashesOf(log')
      BY <2>1, <2>2, <2>4 DEF HashesOf
    <3>3. QED
      BY <3>1, <3>2 DEF Untouched
  <2>9. QED
    BY <2>1, <2>7, <2>8
<1>4. QED
  BY <1>2, <1>3

\* Memory is as good as before or as the file, and the file as good as before
\* or as memory.
LEMMA ReportNext == IInv /\ ReportInv /\ [Next]_vars => ReportInv'
<1> SUFFICES ASSUME IInv, ReportInv, [Next]_vars PROVE ReportInv'
  OBVIOUS
<1> DEFINE InMemory == /\ ChainIs(log, head, chain)
                       /\ ~switchedOff => enabled \/ Chained(log) = {}
                       /\ ~switchedOff /\ damage = 0 => Untouched(log, head)
           InFile == file # NoFile =>
                       /\ ChainIs(file.log, file.head, file.chain)
                       /\ ~switchedOff => enabled \/ Chained(file.log) = {}
                       /\ ~switchedOff /\ damage = 0 => Untouched(file.log, file.head)
<1>1. InMemory /\ InFile
  BY DEF ReportInv, NotYetOn
<1>2. InMemory' /\ InFile' => ReportInv'
  BY DEF ReportInv, NotYetOn
<1>3. ASSUME NEW b \in Buffers, NEW saved \in BOOLEAN, RecordEvent(b, saved)
      PROVE  InMemory' /\ InFile'
  <2>1. UNCHANGED <<enabled, switchedOff, damage>> /\ (Unlinked(b) \/ Linked(b))
    BY <1>3 DEF RecordEvent
  <2>2. InMemory'
    BY <2>1, RecordedReport DEF ChainIs, Untouched
  <2>3. file' = file \/ file' = [log |-> log', head |-> head', chain |-> chain']
    BY <1>3 DEF RecordEvent, Persist
  <2>4. InFile'
    <3>1. CASE file' = file
      BY <1>1, <2>1, <3>1
    <3>2. CASE file' = [log |-> log', head |-> head', chain |-> chain']
      <4>1. file'.log = log' /\ file'.head = head' /\ file'.chain = chain'
        BY <3>2
      <4>2. QED
        BY <2>2, <4>1
    <3>3. QED
      BY <2>3, <3>1, <3>2
  <2>5. QED
    BY <2>2, <2>4
<1>4. CASE EmitAlert
  <2>1. /\ UNCHANGED <<log, head, chain, enabled, switchedOff, damage>>
        /\ file' = [log |-> log', head |-> head', chain |-> chain']
    BY <1>4 DEF EmitAlert, Persist
  <2>2. file'.log = log' /\ file'.head = head' /\ file'.chain = chain'
    BY <2>1
  <2>3. QED
    BY <1>1, <1>2, <2>1, <2>2
<1>5. CASE SwitchChain
  <2>1. /\ UNCHANGED <<log, head, chain, file, damage>>
        /\ ~switchedOff' => ~switchedOff /\ enabled'
    BY <1>5 DEF SwitchChain
  <2>2. QED
    BY <1>1, <1>2, <2>1
<1>6. ASSUME NEW clear \in BOOLEAN, NEW deleted \in BOOLEAN, Purge(clear, deleted)
      PROVE  InMemory' /\ InFile'
  <2>1. UNCHANGED <<enabled, switchedOff, damage>> /\ (file' = file \/ file' = NoFile)
    BY <1>6 DEF Purge, Unlink
  <2>2. InMemory'
    <3>1. CASE clear
      <4>1. Chained(log') = {} /\ head' = Genesis /\ chain' = {}
        BY <1>6, <3>1, NoChainInEmpty DEF Purge, ClearBuffers
      <4>2. QED
        BY <4>1, NothingLinked
    <3>2. CASE ~clear
      BY <1>1, <1>6, <2>1, <3>2 DEF Purge
    <3>3. QED
      BY <3>1, <3>2
  <2>3. InFile'
    BY <1>1, <2>1
  <2>4. QED
    BY <2>2, <2>3
<1>7. CASE Restart
  <2>1. UNCHANGED <<file, enabled, switchedOff, damage>>
    BY <1>7 DEF Restart
  <2>2. InMemory'
    <3>1. CASE file = NoFile
      <4>1. Chained(log') = {} /\ head' = Genesis /\ chain' = {}
        BY <1>7, <3>1, NoChainInEmpty DEF Restart, ClearBuffers
      <4>2. QED
        BY <4>1, NothingLinked
    <3>2. CASE file # NoFile
      <4>1. log' = file.log /\ head' = file.head /\ chain' = file.chain
        BY <1>7, <3>2 DEF Restart, RestoredHead
      <4>2. QED
        BY <1>1, <2>1, <3>2, <4>1
    <3>3. QED
      BY <3>1, <3>2
  <2>3. QED
    BY <1>1, <1>2, <2>1, <2>2
<1>8. CASE DamageFile
  <2>1. /\ UNCHANGED <<log, head, chain, enabled, switchedOff>> /\ damage' = damage + 1
        /\ file # NoFile
    BY <1>8 DEF DamageFile
  <2>2. damage' # 0
    BY <2>1 DEF IInv, AuditTypeOK
  <2>3. /\ file'.head = file.head /\ file'.chain = file.chain
        /\ Shadows(file'.log, file.log)
    BY <1>8, DamagedFile
  <2>4. ChainIs(file'.log, file'.head, file'.chain)
    BY <1>1, <2>1, <2>3, ShadowsKeepChain
  <2>5. Chained(file.log) = {} => Chained(file'.log) = {}
    BY <2>3 DEF Shadows
  <2>6. QED
    BY <1>1, <1>2, <2>1, <2>2, <2>4, <2>5
<1>9. CASE UNCHANGED vars
  BY <1>1, <1>2, <1>9 DEF vars
<1> HIDE DEF InMemory, InFile
<1>10. QED
  BY <1>2, <1>3, <1>4, <1>5, <1>6, <1>7, <1>8, <1>9 DEF Next

LEMMA ReportInvariant == Spec => [](IInv /\ ReportInv)
<1>1. Init => ReportInv
  <2>1. ASSUME Init PROVE ReportInv
    BY <2>1, NoChainInEmpty, NothingLinked DEF Init, ReportInv, NotYetOn
  <2>2. QED
    BY <2>1
<1>2. QED
  BY <1>1, InitInv, NextInv, ReportNext, PTL DEF Spec

-----------------------------------------------------------------------------
(* What the walk reports.                                                    *)

ReportType == [valid : BOOLEAN, partial : BOOLEAN, verified : SUBSET Hashes]

\* What the walk says at i of the chain c, all of whose links are in l or lost.
Truthful(l, c, i, report) ==
  /\ report \in ReportType
  /\ (\A e \in Chained(l) : e.intact) => report.valid
  /\ i \in c \cup {Genesis} /\ report.valid /\ ~report.partial =>
       report.verified = {x \in c : x <= i}

LEMMA WalkIsTruthful ==
  ASSUME NEW l \in Log, NEW h, NEW c \in SUBSET Hashes, ChainIs(l, h, c),
         NEW f, IsWalk(l, f), NEW i \in Positions
  PROVE  Truthful(l, c, i, f[i])
<1> DEFINE Bad == {n \in 0..MaxEvents : ~Truthful(l, c, n, f[n])}
<1>1. SUFFICES ASSUME Bad # {} PROVE FALSE
  BY PositionsAreNumbers
<1>2. PICK n \in Bad : \A m \in Bad : ~(m < n)
  <2>1. Bad \subseteq Nat
    OBVIOUS
  <2> HIDE DEF Bad
  <2>2. QED
    BY <1>1, <2>1, LeastOf
<1>3. n \in 0..MaxEvents /\ ~Truthful(l, c, n, f[n])
  BY <1>2
<1>4. f[n] = WalkStep(l, f, n)
  BY <1>3, PositionsAreNumbers DEF IsWalk
<1>5. \A x \in c : x \in Nat /\ x # 0
  BY DEF Hashes
<1>6. CASE n = Genesis
  <2>1. f[n] = [valid |-> TRUE, partial |-> FALSE, verified |-> {}]
    BY <1>4, <1>6 DEF WalkStep, ReachedGenesis, Report
  <2>2. {x \in c : x <= n} = {}
    BY <1>5, <1>6 DEF Genesis
  <2>3. QED
    BY <1>3, <2>1, <2>2 DEF Truthful, ReportType
<1>7. CASE n # Genesis /\ n \notin HashesOf(l)
  <2>1. f[n] = [valid |-> TRUE, partial |-> TRUE, verified |-> {}]
    BY <1>4, <1>7 DEF WalkStep, LostPredecessor, Report
  <2>2. QED
    BY <1>3, <2>1 DEF Truthful, ReportType
<1>8. CASE n # Genesis /\ n \in HashesOf(l)
  <2> DEFINE e == EventOf(l, n)
             p == e.prev
  <2>1. e \in Chained(l) /\ e.hash = n
    BY <1>8, EventOfHash
  <2>2. /\ n \in c /\ p \in c \cup {Genesis} /\ p < n
        /\ \A x \in c : x < n => x <= p
    BY <2>1 DEF ChainIs
  <2> HIDE DEF p, e
  <2>3. p \in 0..MaxEvents /\ p \in Nat /\ n \in Nat
    BY <1>3, <2>2, PositionsAreNumbers DEF Hashes, Genesis
  <2>4. CASE ~e.intact
    <3>1. f[n] = [valid |-> FALSE, partial |-> FALSE, verified |-> {}]
      BY <1>4, <1>8, <2>4 DEF WalkStep, Report, e
    <3>2. QED
      BY <1>3, <2>1, <2>4, <3>1 DEF Truthful, ReportType
  <2>5. CASE e.intact
    <3>1. f[n] = [f[p] EXCEPT !.verified = f[p].verified \cup {n}]
      BY <1>4, <1>8, <2>5 DEF WalkStep, e, p
    <3>2. Truthful(l, c, p, f[p])
      BY <1>2, <2>2, <2>3
    <3>3. PICK r \in ReportType : r = f[p]
      BY <3>2 DEF Truthful
    <3>4. f[n] = [r EXCEPT !.verified = r.verified \cup {n}]
      BY <3>1, <3>3
    <3>5. n \in Hashes
      BY <2>2
    <3> DEFINE v == r.verified \cup {n}
    <3>6. v \subseteq Hashes
      BY <3>5 DEF ReportType
    <3> HIDE DEF v
    <3>7. /\ f[n] \in ReportType /\ f[n].valid = r.valid /\ f[n].partial = r.partial
          /\ f[n].verified = v
      BY <3>4, <3>6 DEF ReportType, v
    <3>8. {x \in c : x <= n} = {x \in c : x <= p} \cup {n}
      <4>1. ASSUME NEW x \in c
            PROVE  x <= n <=> x <= p \/ x = n
        <5>1. x \in Nat /\ n \in Nat /\ p \in Nat /\ p < n /\ (x < n => x <= p)
          BY <1>5, <2>2, <2>3
        <5>2. QED
          BY <5>1
      <4>2. QED
        BY <2>2, <4>1
    <3>9. Truthful(l, c, n, f[n])
      <4>1. (\A d \in Chained(l) : d.intact) => f[n].valid
        BY <3>2, <3>3, <3>7, Zenon DEF Truthful
      <4>2. ASSUME f[n].valid, ~f[n].partial
            PROVE  f[n].verified = {x \in c : x <= n}
        <5>1. r.valid /\ ~r.partial
          BY <3>7, <4>2, Zenon
        <5>2. r.verified = {x \in c : x <= p}
          BY <2>2, <3>2, <3>3, <5>1, Zenon DEF Truthful
        <5>3. QED
          BY <3>7, <3>8, <5>2 DEF v
      <4>3. QED
        BY <3>7, <4>1, <4>2, Zenon DEF Truthful
    <3>10. QED
      BY <1>3, <3>9
  <2>6. QED
    BY <2>4, <2>5
<1>9. QED
  BY <1>6, <1>7, <1>8

\* An untouched log verifies, and a complete report vouches for every event
\* linked since genesis, for every buffer size and any damage.
THEOREM ReportsStayTrue == Spec => []ReportsAreTrue
<1>1. ASSUME IInv, ReportInv
      PROVE  ReportsAreTrue
  <2>1. /\ log \in Log /\ chain \in SUBSET Hashes /\ ChainIs(log, head, chain)
        /\ head \in Positions
    BY <1>1 DEF IInv, AuditTypeOK, ReportInv, Positions
  <2>2. LinksGoBack(log)
    BY <2>1 DEF ChainIs, LinksGoBack
  <2>3. PICK f : /\ IsWalk(log, f)
                 /\ Integrity =
                      IF Chained(log) = {} THEN Report(TRUE, FALSE, {})
                      ELSE IF Tip(log, head) \notin HashesOf(log)
                           THEN Report(FALSE, FALSE, {})
                           ELSE f[Tip(log, head)]
    BY <2>1, <2>2, VerificationWalks DEF Integrity
  <2>4. CASE Chained(log) = {}
    BY <2>3, <2>4 DEF Report, ReportsAreTrue, HonestLogVerifies, CompleteReportIsTrue
  <2>5. CASE Chained(log) # {}
    <3>1. head # Genesis /\ head \in chain /\ Tip(log, head) = head
      <4>1. PICK e \in Chained(log) : e.hash \in chain
        BY <2>1, <2>5 DEF ChainIs
      <4>2. e.hash \in Nat /\ e.hash # 0 /\ e.hash <= head
        <5>1. e.hash \in Hashes /\ e.hash <= head
          BY <2>1, <4>1 DEF ChainIs
        <5>2. QED
          BY <5>1 DEF Hashes
      <4>3. head # Genesis
        BY <4>2 DEF Genesis
      <4>4. QED
        BY <2>1, <4>3 DEF ChainIs, Tip
    <3>2. Truthful(log, chain, head, f[head])
      BY <2>1, <2>3, WalkIsTruthful
    <3>3. HonestLogVerifies
      <4>1. ASSUME ~switchedOff, damage = 0
            PROVE  Integrity.valid
        <5>1. head \in HashesOf(log) /\ \A e \in Chained(log) : e.intact
          BY <1>1, <2>5, <4>1 DEF ReportInv, Untouched
        <5>2. Integrity = f[head]
          BY <2>3, <2>5, <3>1, <5>1
        <5>3. QED
          BY <3>2, <5>1, <5>2, Zenon DEF Truthful
      <4>2. QED
        BY <4>1 DEF HonestLogVerifies
    <3>4. CompleteReportIsTrue
      <4>1. ASSUME Integrity.valid, ~Integrity.partial
            PROVE  Integrity.verified = chain
        <5>1. head \in HashesOf(log)
          BY <2>3, <2>5, <3>1, <4>1 DEF Report
        <5>2. Integrity = f[head]
          BY <2>3, <2>5, <3>1, <5>1
        <5>3. {x \in chain : x <= head} = chain
          BY <2>1 DEF ChainIs
        <5>4. QED
          BY <3>1, <3>2, <4>1, <5>2, <5>3 DEF Truthful
      <4>2. QED
        BY <4>1 DEF CompleteReportIsTrue
    <3>5. QED
      BY <3>3, <3>4 DEF ReportsAreTrue
  <2>6. QED
    BY <2>4, <2>5
<1>2. QED
  BY <1>1, ReportInvariant, PTL

-----------------------------------------------------------------------------
(* What an analysis reads of the alerts that are indexed.                    *)

\* The alerts of an age whose time can be read, and all those up to an age.
At(s, age, now) == {i \in DOMAIN s : s[i].readable /\ Age(s[i], now) = age}
UpTo(s, age, now) == {i \in DOMAIN s : Age(s[i], now) <= age}

LEMMA MinOfTwo ==
    ASSUME NEW m \in Int, NEW n \in Int
    PROVE  Min({m, n}) = IF m <= n THEN m ELSE n
<1>1. \A x \in {m, n} : (\A y \in {m, n} : x <= y) <=> x = IF m <= n THEN m ELSE n
  OBVIOUS
<1>2. (IF m <= n THEN m ELSE n) \in {m, n}
  OBVIOUS
<1> QED BY <1>1, <1>2 DEF Min

\* What is capped is within the cap.
LEMMA MinIsWithin ==
    ASSUME NEW m \in Nat, NEW n \in Nat
    PROVE  Min({m, n}) \in 0 .. m
<1>1. Min({m, n}) = IF m <= n THEN m ELSE n
  BY MinOfTwo
<1>2. CASE m <= n
  BY <1>1, <1>2
<1>3. CASE ~(m <= n)
  BY <1>1, <1>3
<1> QED BY <1>2, <1>3

LEMMA MaxOfTwo ==
    ASSUME NEW m \in Int, NEW n \in Int
    PROVE  Max({m, n}) = IF m >= n THEN m ELSE n
<1>1. \A x \in {m, n} : (\A y \in {m, n} : x >= y) <=> x = IF m >= n THEN m ELSE n
  OBVIOUS
<1>2. (IF m >= n THEN m ELSE n) \in {m, n}
  OBVIOUS
<1> QED BY <1>1, <1>2 DEF Max

\* What is read of a log.
LEMMA LogEntries ==
    ASSUME NEW logged \in Seq(AlertsRead)
    PROVE  /\ Len(logged) \in Nat /\ DOMAIN logged = 1 .. Len(logged)
           /\ \A i \in DOMAIN logged :
                logged[i] \in AlertsRead /\ logged[i].level \in Nat
           /\ ToSet(logged) = {logged[i] : i \in DOMAIN logged}
<1>1. /\ Len(logged) \in Nat /\ DOMAIN logged = 1 .. Len(logged)
      /\ \A i \in DOMAIN logged : logged[i] \in AlertsRead
  BY LenProperties, ElementOfSeq
<1> QED BY <1>1, AnalysisAssumption DEF ToSet

LEMMA OfAgeElements ==
    ASSUME NEW logged \in Seq(AlertsRead), NEW age, NEW now
    PROVE  /\ OfAge(logged, age, now) \in Seq(AlertsRead)
           /\ ToSet(OfAge(logged, age, now)) = {logged[i] : i \in At(logged, age, now)}
           /\ OfAge(logged, age, now) = <<>> <=> At(logged, age, now) = {}
<1> DEFINE I == At(logged, age, now)
           p == Picked(logged, I)
<1>1. p = OfAge(logged, age, now)
  BY DEF OfAge, At
<1>2. I \in SUBSET (1 .. Len(logged))
  BY LenProperties DEF At
<1> HIDE DEF I
<1>3. /\ p \in Seq(AlertsRead) /\ Len(p) = Cardinality(I) /\ DOMAIN p = 1 .. Len(p)
      /\ \A i \in I : Rank(I, i) \in DOMAIN p /\ p[Rank(I, i)] = logged[i]
      /\ \A k \in DOMAIN p : Nth(I, k) \in I /\ p[k] = logged[Nth(I, k)]
  BY <1>2, PickedElements
<1> HIDE DEF p
<1>4. ToSet(p) = {logged[i] : i \in I}
  BY <1>3 DEF ToSet
<1>5. p = <<>> <=> DOMAIN p = {}
  <2>1. p = <<>> <=> Len(p) = 0
    BY <1>3, EmptySeq
  <2>2. Len(p) \in Nat
    BY <1>3, LenProperties
  <2> QED BY <1>3, <2>1, <2>2
<1>6. DOMAIN p = {} <=> I = {}
  BY <1>3
<1> QED BY <1>1, <1>3, <1>4, <1>5, <1>6 DEF I

\* One of the two windows of a read is that window of the log.
LEMMA WindowOfRead ==
    ASSUME NEW logged \in Seq(AlertsRead), NEW age \in 0 .. 1, NEW now
    PROVE  OfAge(Picked(logged, UpTo(logged, 1, now)), age, now) = OfAge(logged, age, now)
<1> DEFINE I == UpTo(logged, 1, now)
           J == At(logged, age, now)
           p == Picked(logged, I)
<1>1. I \in SUBSET (1 .. Len(logged)) /\ J \in SUBSET I
  BY LogEntries DEF At, UpTo
<1>2. \A i \in I : i \in J <=> logged[i].readable /\ Age(logged[i], now) = age
  BY DEF At, UpTo
<1> HIDE DEF I, J
<1>3. /\ \A i \in I : Rank(I, i) \in DOMAIN p /\ p[Rank(I, i)] = logged[i]
      /\ \A k \in DOMAIN p : Nth(I, k) \in I /\ Rank(I, Nth(I, k)) = k /\ p[k] = logged[Nth(I, k)]
  BY <1>1, PickedElements
<1>4. Picked(p, {Rank(I, j) : j \in J}) = Picked(logged, J)
  BY <1>1, PickedTwice
<1> HIDE DEF p
<1>5. {k \in DOMAIN p : p[k].readable /\ Age(p[k], now) = age} = {Rank(I, j) : j \in J}
  <2>1. ASSUME NEW k \in DOMAIN p, p[k].readable, Age(p[k], now) = age
        PROVE  k \in {Rank(I, j) : j \in J}
    BY <1>2, <1>3, <2>1
  <2>2. ASSUME NEW j \in J
        PROVE  Rank(I, j) \in {k \in DOMAIN p : p[k].readable /\ Age(p[k], now) = age}
    BY <1>1, <1>2, <1>3
  <2> QED BY <2>1, <2>2
<1>6. OfAge(p, age, now) = Picked(logged, J)
  BY <1>4, <1>5 DEF OfAge
<1> QED BY <1>6 DEF OfAge, I, J, p, At

\* get_alerts: what it answers is of the log, and all of it when there is room.
LEMMA NewestOfLog ==
    ASSUME NEW limit \in Nat, NEW oldest \in Nat, indexedLog \in Seq(AlertsRead)
    PROVE  /\ NewestAlerts(limit, oldest) \in Seq(AlertsRead)
           /\ ToSet(NewestAlerts(limit, oldest))
                \subseteq {indexedLog[i] : i \in UpTo(indexedLog, oldest, moment)}
           /\ Len(indexedLog) <= limit =>
                NewestAlerts(limit, oldest) = Picked(indexedLog, UpTo(indexedLog, oldest, moment))
<1> DEFINE I == UpTo(indexedLog, oldest, moment)
           p == Picked(indexedLog, I)
           k == Min({limit, Len(p)})
<1>1. NewestAlerts(limit, oldest) = SubSeq(p, 1, k)
  BY DEF NewestAlerts, UpTo
<1>2. Len(indexedLog) \in Nat /\ I \in SUBSET (1 .. Len(indexedLog))
  BY LogEntries DEF UpTo
<1> HIDE DEF I
<1>3. /\ p \in Seq(AlertsRead) /\ Len(p) \in 0 .. Len(indexedLog) /\ DOMAIN p = 1 .. Len(p)
      /\ \A i \in DOMAIN p : Nth(I, i) \in I /\ p[i] = indexedLog[Nth(I, i)]
  <2>1. /\ p \in Seq(AlertsRead) /\ Len(p) = Cardinality(I)
        /\ Cardinality(I) \in 0 .. Len(indexedLog) /\ DOMAIN p = 1 .. Cardinality(I)
        /\ \A i \in DOMAIN p : Nth(I, i) \in I /\ p[i] = indexedLog[Nth(I, i)]
    BY <1>2, PickedElements
  <2> HIDE DEF p
  <2> QED BY <2>1
<1> HIDE DEF p
<1>4. k \in 0 .. Len(p) /\ (Len(indexedLog) <= limit => k = Len(p))
  <2> DEFINE q == Len(p)
             all == Len(indexedLog)
  <2>1. q \in Nat /\ q <= all /\ all \in Nat /\ limit \in Int
    BY <1>2, <1>3
  <2> HIDE DEF q, all
  <2>2. Min({limit, q}) = IF limit <= q THEN limit ELSE q
    BY <2>1, MinOfTwo
  <2>3. Min({limit, q}) \in 0 .. q /\ (all <= limit => Min({limit, q}) = q)
    BY <2>1, <2>2
  <2> QED BY <2>3 DEF q, all
<1> HIDE DEF k
<1>5. /\ SubSeq(p, 1, k) \in Seq(AlertsRead) /\ DOMAIN SubSeq(p, 1, k) = 1 .. k
      /\ \A i \in 1 .. k : SubSeq(p, 1, k)[i] = p[i] /\ i \in DOMAIN p
  <2>1. Len(p) \in Nat /\ \A i \in 1 .. Len(p) : p[i] \in AlertsRead
    BY <1>2, <1>3, ElementOfSeq
  <2>2. \A i \in 1 .. k : p[i] \in AlertsRead
    BY <1>4, <2>1
  <2>3. /\ SubSeq(p, 1, k) \in Seq(AlertsRead)
        /\ Len(SubSeq(p, 1, k)) = (IF 1 <= k THEN k - 1 + 1 ELSE 0)
        /\ \A i \in 1 .. k - 1 + 1 : SubSeq(p, 1, k)[i] = p[1 + i - 1]
    <3>1. 1 \in Int /\ k \in Int
      BY <1>4, <2>1
    <3> QED BY <2>2, <3>1, SubSeqProperties
  <2>4. k \in Nat /\ k - 1 + 1 = k /\ \A i \in 1 .. k : 1 + i - 1 = i /\ i \in DOMAIN p
    <3>1. k \in 0 .. Len(p) /\ Len(p) \in Nat /\ DOMAIN p = 1 .. Len(p)
      BY <1>3, <1>4, <2>1
    <3>2. k \in Nat /\ 1 .. k \subseteq DOMAIN p
      BY <3>1
    <3> QED BY <3>2
  <2>5. Len(SubSeq(p, 1, k)) = k
    BY <2>3, <2>4
  <2> QED BY <2>3, <2>4, <2>5, LenProperties
<1>6. ToSet(SubSeq(p, 1, k)) \subseteq {indexedLog[i] : i \in I}
  BY <1>3, <1>5 DEF ToSet
<1>7. k = Len(p) => SubSeq(p, 1, k) = p
  BY <1>3, SubSeqFull
<1> QED BY <1>1, <1>4, <1>5, <1>6, <1>7 DEF I, p

\* Finite sets that have nothing in common are as large as both.
LEMMA DisjointUnion ==
    ASSUME NEW S, NEW T, IsFiniteSet(S), IsFiniteSet(T), S \cap T = {}
    PROVE  IsFiniteSet(S \cup T) /\ Cardinality(S \cup T) = Cardinality(S) + Cardinality(T)
<1>1. /\ IsFiniteSet(S \cup T)
      /\ Cardinality(S \cup T) = Cardinality(S) + Cardinality(T) - Cardinality(S \cap T)
  BY FS_Union
<1>2. Cardinality(S) \in Nat /\ Cardinality(T) \in Nat /\ Cardinality(S \cap T) = 0
  BY FS_CardinalityType, FS_EmptySet
<1> QED BY <1>1, <1>2

\* Every alert is of one severity.
LEMMA BreakdownAdds ==
    ASSUME NEW logged \in Seq(AlertsRead)
    PROVE  LET n == Breakdown(logged)
           IN  n["critical"] + n["high"] + n["medium"] + n["low"] = Len(logged)
<1> DEFINE Of(b) == {i \in DOMAIN logged : Bucket(logged[i].level) = b}
           n == Breakdown(logged)
           C == Of("critical")
           H == Of("high")
           M == Of("medium")
           L == Of("low")
<1>1. n["critical"] = Cardinality(C) /\ n["high"] = Cardinality(H)
      /\ n["medium"] = Cardinality(M) /\ n["low"] = Cardinality(L)
  BY DEF Breakdown, Buckets
<1>2. Len(logged) \in Nat /\ DOMAIN logged = 1 .. Len(logged)
  BY LogEntries
<1>3. IsFiniteSet(1 .. Len(logged)) /\ Cardinality(1 .. Len(logged)) = Len(logged)
  <2>1. /\ Len(logged) \in Int /\ 1 \in Int
        /\ (IF 1 > Len(logged) THEN 0 ELSE Len(logged) - 1 + 1) = Len(logged)
    BY <1>2
  <2> QED BY <2>1, FS_Interval
<1>4. C \cup H \cup M \cup L = 1 .. Len(logged)
  <2>1. \A i \in 1 .. Len(logged) : i \in C \/ i \in H \/ i \in M \/ i \in L
    <3> SUFFICES ASSUME NEW i \in 1 .. Len(logged)
                 PROVE  i \in C \/ i \in H \/ i \in M \/ i \in L
      OBVIOUS
    <3>1. Bucket(logged[i].level) \in {"critical", "high", "medium", "low"}
      BY DEF Bucket
    <3>2. i \in DOMAIN logged
      BY <1>2
    <3> QED BY <3>1, <3>2
  <2>2. C \cup H \cup M \cup L \subseteq 1 .. Len(logged)
    BY <1>2
  <2> HIDE DEF C, H, M, L
  <2> QED BY <2>1, <2>2
<1>5. C \cap H = {} /\ (C \cup H) \cap M = {} /\ (C \cup H \cup M) \cap L = {}
  <2>1. /\ \A i \in C : Bucket(logged[i].level) = "critical"
        /\ \A i \in H : Bucket(logged[i].level) = "high"
        /\ \A i \in M : Bucket(logged[i].level) = "medium"
        /\ \A i \in L : Bucket(logged[i].level) = "low"
    OBVIOUS
  <2>2. "critical" # "high" /\ "critical" # "medium" /\ "critical" # "low"
        /\ "high" # "medium" /\ "high" # "low" /\ "medium" # "low"
    OBVIOUS
  <2> HIDE DEF C, H, M, L
  <2>3. C \cap H = {}
    BY <2>1, <2>2
  <2>4. (C \cup H) \cap M = {}
    BY <2>1, <2>2
  <2>5. (C \cup H \cup M) \cap L = {}
    BY <2>1, <2>2
  <2> QED BY <2>3, <2>4, <2>5
<1>6. C \subseteq 1 .. Len(logged) /\ H \subseteq 1 .. Len(logged)
      /\ M \subseteq 1 .. Len(logged) /\ L \subseteq 1 .. Len(logged)
  BY <1>2
<1> DEFINE CH == C \cup H
           CHM == CH \cup M
<1> HIDE DEF C, H, M, L
<1>7. IsFiniteSet(C) /\ IsFiniteSet(H) /\ IsFiniteSet(M) /\ IsFiniteSet(L)
  BY <1>3, <1>6, FS_Subset
<1>8. Cardinality(C) \in Nat /\ Cardinality(H) \in Nat /\ Cardinality(M) \in Nat
      /\ Cardinality(L) \in Nat
  BY <1>7, FS_CardinalityType
<1>9. C \cap H = {} /\ CH \cap M = {} /\ CHM \cap L = {} /\ CHM \cup L = 1 .. Len(logged)
  BY <1>4, <1>5
<1>10. IsFiniteSet(CH) /\ Cardinality(CH) = Cardinality(C) + Cardinality(H)
  BY <1>7, <1>8, <1>9, DisjointUnion
<1> HIDE DEF CH
<1>11. IsFiniteSet(CHM) /\ Cardinality(CHM) = Cardinality(CH) + Cardinality(M)
  BY <1>7, <1>9, <1>10, DisjointUnion
<1> HIDE DEF CHM
<1>12. Cardinality(CHM \cup L) = Cardinality(CHM) + Cardinality(L)
  BY <1>7, <1>9, <1>11, DisjointUnion
<1>13. Cardinality(C) + Cardinality(H) + Cardinality(M) + Cardinality(L) = Len(logged)
  BY <1>3, <1>8, <1>9, <1>10, <1>11, <1>12
<1> QED BY <1>1, <1>13

LEMMA CompareLimitIsNat == CompareLimit \in Nat
<1>1. TriageLimit * 4 \in Nat /\ CompareFloor \in Nat /\ CompareCap \in Nat
  BY AnalysisAssumption
<1>2. Max({TriageLimit * 4, CompareFloor}) \in Nat
  BY <1>1, MaxOfTwo
<1> QED BY <1>1, <1>2, MinOfTwo DEF CompareLimit

\* The alerts shown to the analyst are of the log.
IsShown(shown, logged) ==
    /\ shown \in Seq(AlertsRead)
    /\ \A x \in ToSet(shown) : x \in ToSet(logged)

\* What a triage found, whatever its answer says of the steps to take.
TriageIsSound(found) ==
    /\ found.severity["critical"] + found.severity["high"] + found.severity["medium"]
         + found.severity["low"] = found.total
    /\ Len(found.log) <= CompareLimit =>
         ToSet(OfAge(found.shown, 0, found.asOf)) \subseteq ToSet(found.now)
    /\ ~found.failed /\ Len(found.log) <= CompareLimit =>
         LET left == OfAge(found.log, 0, found.asOf)
         IN  found.spikes = SpikeLevels(IF left # <<>> THEN left ELSE found.shown,
                                        OfAge(found.log, 1, found.asOf))

\* A read whose limit is large enough is the whole of both windows.
LEMMA ReadIsWhole ==
    ASSUME NEW limit \in Nat, indexedLog \in Seq(AlertsRead), Len(indexedLog) <= limit,
           NEW age \in 0 .. 1
    PROVE  OfAge(NewestAlerts(limit, 1), age, moment) = OfAge(indexedLog, age, moment)
<1>1. NewestAlerts(limit, 1) = Picked(indexedLog, UpTo(indexedLog, 1, moment))
  BY NewestOfLog
<1> QED BY <1>1, WindowOfRead

LEMMA TriageOfReads ==
    ASSUME indexedLog \in Seq(AlertsRead), NEW shown, IsShown(shown, indexedLog)
    PROVE  LET read == NewestAlerts(CompareLimit, 1)
           IN  /\ TriageIsSound(
                     Triage(shown, Counted(shown, read), OfAge(read, 1, moment), FALSE))
               /\ TriageIsSound(Triage(shown, shown, <<>>, TRUE))
<1> DEFINE read == NewestAlerts(CompareLimit, 1)
           now == Counted(shown, read)
           left == OfAge(indexedLog, 0, moment)
           answer == Triage(shown, now, OfAge(read, 1, moment), FALSE)
           partial == Triage(shown, shown, <<>>, TRUE)
<1>1. read \in Seq(AlertsRead)
  BY NewestOfLog, CompareLimitIsNat
<1>2. OfAge(read, 0, moment) \in Seq(AlertsRead)
  <2> HIDE DEF read
  <2> QED BY <1>1, OfAgeElements
<1>3. now \in Seq(AlertsRead) /\ shown \in Seq(AlertsRead)
  BY <1>2 DEF Counted, IsShown
<1>7. ToSet(OfAge(shown, 0, moment)) \subseteq ToSet(left) \cap ToSet(shown)
  <2>1. /\ ToSet(OfAge(shown, 0, moment)) = {shown[i] : i \in At(shown, 0, moment)}
        /\ ToSet(left) = {indexedLog[i] : i \in At(indexedLog, 0, moment)}
    BY <1>3, OfAgeElements
  <2>2. /\ ToSet(shown) = {shown[i] : i \in DOMAIN shown}
        /\ ToSet(indexedLog) = {indexedLog[i] : i \in DOMAIN indexedLog}
    BY <1>3, LogEntries
  <2> HIDE DEF left
  <2>3. ASSUME NEW i \in At(shown, 0, moment)
        PROVE  /\ shown[i] \in ToSet(shown)
               /\ \E j \in At(indexedLog, 0, moment) : shown[i] = indexedLog[j]
    <3>1. i \in DOMAIN shown /\ shown[i].readable /\ Age(shown[i], moment) = 0
      BY DEF At
    <3>2. PICK j \in DOMAIN indexedLog : shown[i] = indexedLog[j]
      BY <2>2, <3>1 DEF IsShown
    <3> QED BY <2>2, <3>1, <3>2 DEF At
  <2> QED BY <2>1, <2>3
<1>4. Len(indexedLog) <= CompareLimit =>
        /\ now = IF left # <<>> THEN left ELSE shown
        /\ OfAge(read, 1, moment) = OfAge(indexedLog, 1, moment)
        /\ ToSet(OfAge(shown, 0, moment)) \subseteq ToSet(now)
  <2> SUFFICES ASSUME Len(indexedLog) <= CompareLimit
               PROVE  /\ now = IF left # <<>> THEN left ELSE shown
                      /\ OfAge(read, 1, moment) = OfAge(indexedLog, 1, moment)
                      /\ ToSet(OfAge(shown, 0, moment)) \subseteq ToSet(now)
    OBVIOUS
  <2>1. OfAge(read, 0, moment) = left /\ OfAge(read, 1, moment) = OfAge(indexedLog, 1, moment)
    BY ReadIsWhole, CompareLimitIsNat
  <2> HIDE DEF read, left
  <2>2. now = IF left # <<>> THEN left ELSE shown
    BY <2>1 DEF Counted
  <2> QED BY <1>7, <2>1, <2>2
<1>5. TriageIsSound(answer)
  <2>1. /\ answer.severity = Breakdown(now) /\ answer.total = Len(now) /\ answer.shown = shown
        /\ answer.now = now /\ answer.log = indexedLog /\ answer.failed = FALSE
        /\ answer.spikes = SpikeLevels(now, OfAge(read, 1, moment)) /\ answer.asOf = moment
    BY DEF Triage, Severity
  <2> HIDE DEF read, now, answer
  <2>2. LET n == Breakdown(now)
        IN  n["critical"] + n["high"] + n["medium"] + n["low"] = Len(now)
    BY <1>3, BreakdownAdds
  <2> QED BY <1>4, <2>1, <2>2 DEF TriageIsSound
<1>6. TriageIsSound(partial)
  <2>1. /\ partial.severity = Breakdown(shown) /\ partial.total = Len(shown)
        /\ partial.shown = shown /\ partial.now = shown /\ partial.failed = TRUE
        /\ partial.asOf = moment
    BY DEF Triage, Severity
  <2> HIDE DEF partial
  <2>2. LET n == Breakdown(shown)
        IN  n["critical"] + n["high"] + n["medium"] + n["low"] = Len(shown)
    BY <1>3, BreakdownAdds
  <2> QED BY <1>7, <2>1, <2>2 DEF TriageIsSound
<1> QED BY <1>5, <1>6

-----------------------------------------------------------------------------
(* Techniques, indicators and the two answers that need no lemma.            *)

\* Confidences have a greatest one.
LEMMA MaxOfConfidences ==
    ASSUME NEW S \in SUBSET (0 .. 99), S # {}
    PROVE  Max(S) \in 0 .. 99
<1> DEFINE T == {99 - x : x \in S}
<1>1. T \in SUBSET Nat /\ T # {}
  <2>1. PICK x \in S : TRUE
    OBVIOUS
  <2>2. 99 - x \in T
    OBVIOUS
  <2>3. \A y \in S : 99 - y \in Nat
    OBVIOUS
  <2> QED BY <2>2, <2>3
<1>2. PICK n \in T : \A m \in T : ~(m < n)
  <2> HIDE DEF T
  <2> QED BY <1>1, LeastOf
<1>3. PICK x \in S : n = 99 - x
  BY <1>2
<1>4. \A y \in S : x >= y
  <2> SUFFICES ASSUME NEW y \in S PROVE x >= y
    OBVIOUS
  <2>1. ~(99 - y < n)
    BY <1>2
  <2> QED BY <1>3, <2>1
<1>5. \E z \in S : \A y \in S : z >= y
  BY <1>4
<1>6. Max(S) \in S
  BY <1>5 DEF Max
<1> QED BY <1>6

LEMMA QuotientIsNat ==
    ASSUME NEW n \in Nat, NEW d \in Nat \ {0}
    PROVE  n \div d \in Nat
OBVIOUS

LEMMA RuleConfidenceRange ==
    ASSUME NEW level \in Nat
    PROVE  RuleConfidence(level) \in 0 .. 99
<1> DEFINE l == Min({level, 15})
           q == (2 * l + 1) \div 3
<1>1. l \in Nat
  BY MinOfTwo
<1> HIDE DEF l
<1>2. 2 * l + 1 \in Nat /\ 3 \in Nat \ {0}
  BY <1>1
<1>3. q \in Nat
  BY <1>2, QuotientIsNat
<1>4. RuleConfidence(level) = Min({99, 88 + q})
  BY DEF RuleConfidence, l
<1> HIDE DEF q
<1>5. 99 \in Int /\ 88 + q \in Int /\ 88 + q >= 0
  BY <1>3
<1>6. Min({99, 88 + q}) = IF 99 <= 88 + q THEN 99 ELSE 88 + q
  BY <1>5, MinOfTwo
<1> QED BY <1>4, <1>5, <1>6

LEMMA SignConfidenceRange ==
    ASSUME NEW level \in Nat, NEW terms \in Nat
    PROVE  SignConfidence(level, terms) \in 0 .. 99
<1> DEFINE l == Min({level, 15})
           k == Min({terms, 3})
           q == (5 * l) \div 2
<1>1. l \in Nat /\ k \in Nat
  BY MinOfTwo
<1> HIDE DEF l, k
<1>2. 5 * l \in Nat /\ 2 \in Nat \ {0}
  BY <1>1
<1>3. q \in Nat
  BY <1>2, QuotientIsNat
<1>4. SignConfidence(level, terms) = Min({93, 45 + q + 5 * k})
  BY DEF SignConfidence, l, k
<1> HIDE DEF q
<1>5. 93 \in Int /\ 45 + q + 5 * k \in Int /\ 45 + q + 5 * k >= 0
  BY <1>1, <1>3
<1>6. Min({93, 45 + q + 5 * k}) = IF 93 <= 45 + q + 5 * k THEN 93 ELSE 45 + q + 5 * k
  BY <1>5, MinOfTwo
<1> QED BY <1>4, <1>5, <1>6

\* A technique found in alerts has evidence, and a confidence below certainty.
LEMMA ConfidencesRange ==
    ASSUME NEW a \in AlertsRead, NEW t
    PROVE  /\ Confidences(a, t) \in SUBSET (0 .. 99)
           /\ t \in a.rules => Confidences(a, t) # {}
           /\ \A s \in a.signs : s.technique = t => Confidences(a, t) # {}
<1> DEFINE R == {RuleConfidence(a.level) : r \in a.rules \cap {t}}
           S == {SignConfidence(a.level, s.terms) : s \in {x \in a.signs : x.technique = t}}
<1>1. Confidences(a, t) = R \cup S
  BY DEF Confidences
<1>2. a.level \in Nat /\ \A s \in a.signs : s.terms \in Nat
  BY AnalysisAssumption
<1>3. R \in SUBSET (0 .. 99)
  BY <1>2, RuleConfidenceRange
<1>4. S \in SUBSET (0 .. 99)
  BY <1>2, SignConfidenceRange
<1>5. t \in a.rules => RuleConfidence(a.level) \in R
  OBVIOUS
<1>6. \A s \in a.signs : s.technique = t => SignConfidence(a.level, s.terms) \in S
  OBVIOUS
<1> HIDE DEF R, S
<1> QED BY <1>1, <1>3, <1>4, <1>5, <1>6

LEMMA MappingOfTechnique ==
    ASSUME NEW alerts \in Seq(AlertsRead), NEW t \in Techniques(alerts)
    PROVE  /\ Mapping(alerts, t).confidence \in 0 .. 99
           /\ Mapping(alerts, t).support \in Nat /\ Mapping(alerts, t).support > 0
<1> DEFINE evidence == {i \in DOMAIN alerts : Confidences(alerts[i], t) # {}}
           all == UNION {Confidences(alerts[i], t) : i \in evidence}
           share == (25 * Cardinality(evidence)) \div Len(alerts)
           bonus == IF \E i \in evidence : t \in alerts[i].rules THEN 10 ELSE 0
           best == Max(all)
           support == Min({20, share})
<1>1. /\ Len(alerts) \in Nat /\ DOMAIN alerts = 1 .. Len(alerts)
      /\ \A i \in DOMAIN alerts : alerts[i] \in AlertsRead
  BY LogEntries
<1>2. \A i \in DOMAIN alerts : Confidences(alerts[i], t) \in SUBSET (0 .. 99)
  BY <1>1, ConfidencesRange
<1>3. PICK i \in DOMAIN alerts : t \in alerts[i].rules \cup {s.technique : s \in alerts[i].signs}
  BY DEF Techniques
<1>4. Confidences(alerts[i], t) # {}
  BY <1>1, <1>3, ConfidencesRange
<1>5. i \in evidence /\ evidence \in SUBSET (1 .. Len(alerts))
  BY <1>1, <1>4
<1>6. all \in SUBSET (0 .. 99) /\ all # {}
  <2>1. \A j \in evidence : Confidences(alerts[j], t) \in SUBSET (0 .. 99)
    BY <1>2
  <2>2. Confidences(alerts[i], t) \subseteq all
    BY <1>5
  <2>3. \A x \in all : \E j \in evidence : x \in Confidences(alerts[j], t)
    BY Zenon
  <2> HIDE DEF evidence, all
  <2>4. all \in SUBSET (0 .. 99)
    BY <2>1, <2>3
  <2>5. all # {}
    BY <1>4, <2>2
  <2> QED BY <2>4, <2>5
<1>7. /\ Mapping(alerts, t).support = Cardinality(evidence)
      /\ Mapping(alerts, t).confidence = Min({99, best + support + bonus})
  BY DEF Mapping
<1> HIDE DEF evidence, all
<1>8. Cardinality(evidence) \in Nat /\ Cardinality(evidence) > 0
  <2>1. IsFiniteSet(evidence) /\ Cardinality(evidence) \in Nat
    BY <1>1, <1>5, IndexesAreFinite
  <2>2. Cardinality(evidence) # 0
    BY <1>5, <2>1, FS_EmptySet
  <2> QED BY <2>1, <2>2
<1>9. Len(alerts) \in Nat \ {0}
  BY <1>1, <1>3
<1>10. best \in 0 .. 99
  BY <1>6, MaxOfConfidences
<1>11. share \in Nat
  <2>1. 25 * Cardinality(evidence) \in Nat
    BY <1>8
  <2> QED BY <1>9, <2>1, QuotientIsNat
<1> HIDE DEF share, best
<1>12. support \in Nat
  BY <1>11, MinOfTwo
<1>13. bonus \in Nat
  OBVIOUS
<1> HIDE DEF support, bonus
<1>14. best + support + bonus \in Nat /\ 99 \in Nat
  BY <1>10, <1>12, <1>13
<1>15. Min({99, best + support + bonus}) \in 0 .. 99
  BY <1>14, MinIsWithin
<1> QED BY <1>7, <1>8, <1>15

\* What a mapping tells: its techniques are ranked, and those of no alert are none.
MappingsAreSound(found) ==
    /\ DOMAIN found = {"alerts", "mappings", "method"}
    /\ \A i, j \in DOMAIN found.mappings :
         i < j => found.mappings[i].confidence >= found.mappings[j].confidence
    /\ \A i \in DOMAIN found.mappings :
         found.mappings[i].confidence \in 0 .. 99 /\ found.mappings[i].support > 0
    /\ found.alerts = <<>> => found.mappings = <<>>
    /\ found.method = "rules" => found.mappings \in Mappings(found.alerts)

\* Ranked, the best come first.
LEMMA RankedIsSound ==
    ASSUME NEW mappings, NEW s \in Ranked(mappings),
           \A m \in mappings : m.confidence \in 0 .. 99 /\ m.support \in Nat /\ m.support > 0
    PROVE  /\ \A i, j \in DOMAIN s : i < j => s[i].confidence >= s[j].confidence
           /\ \A i \in DOMAIN s : s[i].confidence \in 0 .. 99 /\ s[i].support > 0
           /\ mappings = {} => s = <<>>
<1>1. \A i \in DOMAIN s : s[i] \in mappings
  BY DEF Ranked
<1>2. \A i, j \in DOMAIN s : i < j => ~Better(s[j], s[i])
  BY DEF Ranked
<1>3. ASSUME NEW i \in DOMAIN s, NEW j \in DOMAIN s, i < j
      PROVE  s[i].confidence >= s[j].confidence
  <2>1. s[i].confidence \in 0 .. 99 /\ s[j].confidence \in 0 .. 99
    BY <1>1
  <2>2. ~(s[j].confidence > s[i].confidence)
    BY <1>2, <1>3 DEF Better
  <2>3. \A a, b \in 0 .. 99 : ~(b > a) => a >= b
    OBVIOUS
  <2> QED BY <2>1, <2>2, <2>3
<1>4. ASSUME mappings = {} PROVE s = <<>>
  <2>1. s \in [1 .. 0 -> {}] /\ 0 \in Nat
    BY <1>4, FS_EmptySet DEF Ranked
  <2>2. s \in Seq({}) /\ Len(s) = 0
    BY <2>1, FunctionIsSeq
  <2> QED BY <2>2, EmptySeq
<1> QED BY <1>1, <1>3, <1>4

LEMMA RulesMap ==
    ASSUME NEW alerts \in Seq(AlertsRead), NEW mappings \in Mappings(alerts)
    PROVE  MappingsAreSound([alerts |-> alerts, mappings |-> mappings, method |-> "rules"])
<1> DEFINE made == {Mapping(alerts, t) : t \in Techniques(alerts)}
<1>1. \A m \in made : m.confidence \in 0 .. 99 /\ m.support \in Nat /\ m.support > 0
  BY MappingOfTechnique
<1>2. mappings \in Ranked(made)
  BY DEF Mappings
<1>3. alerts = <<>> => made = {}
  BY DEF Techniques
<1> HIDE DEF made
<1>4. /\ \A i, j \in DOMAIN mappings : i < j => mappings[i].confidence >= mappings[j].confidence
      /\ \A i \in DOMAIN mappings : mappings[i].confidence \in 0 .. 99 /\ mappings[i].support > 0
      /\ made = {} => mappings = <<>>
  BY <1>1, <1>2, RankedIsSound
<1> QED BY <1>3, <1>4 DEF MappingsAreSound

LEMMA ModelMaps ==
    ASSUME NEW found, MappingsAreSound(found), found.alerts # <<>>,
           NEW c \in Claims, NEW d \in Claims, NEW mappings \in Ranked(Accepted({c, d}))
    PROVE  MappingsAreSound([found EXCEPT !.mappings = mappings, !.method = "model"])
<1> DEFINE new == [found EXCEPT !.mappings = mappings, !.method = "model"]
<1>1. \A m \in Accepted({c, d}) : m.confidence \in 0 .. 99 /\ m.support \in Nat /\ m.support > 0
  <2> SUFFICES ASSUME NEW m \in Accepted({c, d})
               PROVE  m.confidence \in 0 .. 99 /\ m.support \in Nat /\ m.support > 0
    OBVIOUS
  <2>1. PICK x \in {c, d} : /\ m.support = Max({1, x.support})
                            /\ m.confidence = Clamp(x.confidence)
    <3>1. \E x \in {y \in {c, d} : y.technique # "bad"} :
             m = [technique |-> x.technique, support |-> Max({1, x.support}),
                  byRule |-> FALSE, confidence |-> Clamp(x.confidence)]
      BY Zenon DEF Accepted
    <3>2. PICK x \in {y \in {c, d} : y.technique # "bad"} :
             m = [technique |-> x.technique, support |-> Max({1, x.support}),
                  byRule |-> FALSE, confidence |-> Clamp(x.confidence)]
      BY <3>1
    <3>3. x \in {c, d}
      OBVIOUS
    <3>4. m.support = Max({1, x.support}) /\ m.confidence = Clamp(x.confidence)
      BY <3>2
    <3> QED BY <3>3, <3>4
  <2>2. x.support \in Int /\ x.confidence \in Int
    BY DEF Claims
  <2>3. m.support \in Nat /\ m.support > 0
    <3>1. 1 \in Int /\ Max({1, x.support}) = IF 1 >= x.support THEN 1 ELSE x.support
      BY <2>2, MaxOfTwo
    <3>2. Max({1, x.support}) \in Nat /\ Max({1, x.support}) > 0
      BY <2>2, <3>1
    <3> QED BY <2>1, <3>2
  <2>4. Max({0, x.confidence}) \in Nat
    BY <2>2, MaxOfTwo
  <2>5. Clamp(x.confidence) \in 0 .. 99
    <3>1. 99 \in Nat
      OBVIOUS
    <3>2. Min({99, Max({0, x.confidence})}) \in 0 .. 99
      BY <2>4, <3>1, MinIsWithin
    <3> QED BY <3>2 DEF Clamp
  <2> QED BY <2>1, <2>3, <2>5
<1>2. /\ \A i, j \in DOMAIN mappings : i < j => mappings[i].confidence >= mappings[j].confidence
      /\ \A i \in DOMAIN mappings : mappings[i].confidence \in 0 .. 99 /\ mappings[i].support > 0
  BY <1>1, RankedIsSound
<1>3. /\ DOMAIN new = DOMAIN found /\ new.alerts = found.alerts /\ new.mappings = mappings
      /\ new.method = "model"
  BY DEF MappingsAreSound
<1> HIDE DEF new
<1> QED BY <1>2, <1>3 DEF MappingsAreSound

\* What is said of an indicator without the model follows from its evidence.
LEMMA VerdictIsEarned ==
    ASSUME NEW e \in Evidences
    PROVE  LET sources == {s \in {"indexer", "opencti", "graph"} :
                             CASE s = "indexer" -> e.alerts > 0
                               [] s = "opencti" -> e.indicators > 0
                               [] s = "graph" -> e.graph # "failed"}
           IN  /\ Verdict(Score(e)) = "malicious" => Cardinality(sources) >= 2
               /\ e.kind # "ip" /\ e.alerts = 0 /\ e.indicators = 0 /\ e.graph # "rows"
                    => Verdict(Score(e)) = "unknown"
<1> DEFINE sources == {s \in {"indexer", "opencti", "graph"} :
                         CASE s = "indexer" -> e.alerts > 0
                           [] s = "opencti" -> e.indicators > 0
                           [] s = "graph" -> e.graph # "failed"}
           shared == AlertScore(e.alerts)
           severe == IF e.severe THEN 20 ELSE 0
           known == IF e.indicators > 0 THEN 20 ELSE 0
           linked == IF GraphKnows(e.kind, e.graph) THEN 10 ELSE 0
<1>1. /\ e.alerts \in {0, 6, 14} /\ e.severe \in BOOLEAN /\ e.indicators \in 0 .. 1
      /\ e.graph \in {"failed", "empty", "rows"} /\ e.kind \in Kinds
      /\ e.severe => e.alerts > 0
  BY DEF Evidences
<1>2. shared \in 0 .. 40 /\ (e.alerts = 0 => shared = 0)
  <2>1. 40 \in Nat /\ 5 * e.alerts \in Nat /\ (e.alerts = 0 => 5 * e.alerts = 0)
    BY <1>1
  <2>2. Min({40, 5 * e.alerts}) = IF 40 <= 5 * e.alerts THEN 40 ELSE 5 * e.alerts
    BY <2>1, MinOfTwo
  <2>3. Min({40, 5 * e.alerts}) \in 0 .. 40
    BY <2>1, MinIsWithin
  <2> QED BY <2>1, <2>2, <2>3 DEF AlertScore
<1>3. Score(e) = shared + severe + known + linked
  BY DEF Score
<1>4. /\ severe \in {0, 20} /\ (severe = 20 => e.alerts > 0)
      /\ known \in {0, 20} /\ (known = 20 => "opencti" \in sources)
      /\ linked \in {0, 10} /\ (linked = 10 => "graph" \in sources)
      /\ e.alerts > 0 => "indexer" \in sources
      /\ e.kind # "ip" /\ e.graph # "rows" => linked = 0
      /\ e.indicators = 0 => known = 0
      /\ e.alerts = 0 => severe = 0
  <2>1. severe \in {0, 20} /\ (severe = 20 => e.alerts > 0) /\ (e.alerts = 0 => severe = 0)
    BY <1>1
  <2>2. known \in {0, 20} /\ (known = 20 => "opencti" \in sources) /\ (e.indicators = 0 => known = 0)
    BY <1>1
  <2>3. linked \in {0, 10} /\ (linked = 10 => "graph" \in sources)
        /\ (e.kind # "ip" /\ e.graph # "rows" => linked = 0)
    BY DEF GraphKnows
  <2>4. e.alerts > 0 => "indexer" \in sources
    OBVIOUS
  <2> QED BY <2>1, <2>2, <2>3, <2>4
<1>5. IsFiniteSet(sources)
  <2>1. IsFiniteSet({"indexer", "opencti", "graph"})
    <3>1. IsFiniteSet({"indexer"} \cup {"opencti"} \cup {"graph"})
      BY FS_Singleton, FS_Union
    <3>2. {"indexer"} \cup {"opencti"} \cup {"graph"} = {"indexer", "opencti", "graph"}
      OBVIOUS
    <3> QED BY <3>1, <3>2
  <2> QED BY <2>1, FS_Subset
<1>6. \A s, t \in sources : s # t => Cardinality(sources) >= 2
  <2> SUFFICES ASSUME NEW s \in sources, NEW t \in sources, s # t
               PROVE  Cardinality(sources) >= 2
    OBVIOUS
  <2>1. {s, t} \subseteq sources
    OBVIOUS
  <2> HIDE DEF sources
  <2>2. Cardinality({s, t}) = 2
    <3>1. IsFiniteSet({s}) /\ Cardinality({s}) = 1
      BY FS_Singleton
    <3>2. IsFiniteSet({t}) /\ Cardinality({t}) = 1 /\ {s} \cap {t} = {}
      BY FS_Singleton
    <3>3. Cardinality({s} \cup {t}) = 1 + 1
      BY <3>1, <3>2, DisjointUnion
    <3>4. {s} \cup {t} = {s, t}
      OBVIOUS
    <3> QED BY <3>3, <3>4
  <2>3. Cardinality({s, t}) <= Cardinality(sources)
    BY <1>5, <2>1, FS_Subset
  <2>4. Cardinality(sources) \in Nat
    BY <1>5, FS_CardinalityType
  <2> QED BY <2>2, <2>3, <2>4
<1> HIDE DEF sources, shared, severe, known, linked
<1>7. ASSUME Verdict(Score(e)) = "malicious" PROVE Cardinality(sources) >= 2
  <2>1. shared + severe + known + linked >= 70
    <3>1. Score(e) \in Int
      BY <1>2, <1>3, <1>4
    <3>2. Score(e) >= 70
      BY <1>7, <3>1 DEF Verdict
    <3> QED BY <1>3, <3>2
  <2>2. known = 20 \/ linked = 10
    BY <1>2, <1>4, <2>1
  <2>3. e.alerts > 0
    <3>1. ~(shared = 0 /\ severe = 0)
      BY <1>4, <2>1
    <3> QED BY <1>1, <1>2, <1>4, <3>1
  <2>4. "indexer" \in sources /\ ("opencti" \in sources \/ "graph" \in sources)
    BY <1>4, <2>2, <2>3
  <2> QED BY <1>6, <2>4
<1>8. ASSUME e.kind # "ip", e.alerts = 0, e.indicators = 0, e.graph # "rows"
      PROVE  Verdict(Score(e)) = "unknown"
  <2>1. Score(e) = 0
    BY <1>2, <1>3, <1>4, <1>8
  <2> QED BY <2>1 DEF Verdict
<1> QED BY <1>7, <1>8 DEF sources

IndicatorIsSound(found) ==
    /\ DOMAIN found = {"evidence", "baseline", "result", "method"}
    /\ found.evidence \in Evidences /\ found.baseline = Baseline(found.evidence)
    /\ found.method = "rules" => found.result = found.baseline

\* Every enrichment and every report is as the properties say.
LEMMA EnrichmentsAreWhole ==
    ASSUME NEW found \in Enrichments
    PROVE  /\ ToSet(SubSeq(CtiCalls(found.ip), 1, found.cti)) \subseteq found.sections
           /\ ToSet(SubSeq(GraphCalls(found.ip), 1, found.graph)) \subseteq found.sections
           /\ "opencti" \notin found.sections => found.cti = Len(CtiCalls(found.ip))
           /\ "neo4j" \notin found.sections => found.graph = Len(GraphCalls(found.ip))
<1>1. PICK src \in BOOLEAN, agent \in BOOLEAN, matches \in BOOLEAN, ipInMatch \in BOOLEAN,
           vulnerable \in BOOLEAN, cti \in 0 .. 3, graph \in 0 .. 3 :
             found = Enrich(src, agent, matches, ipInMatch, vulnerable, cti, graph)
  BY DEF Enrichments
<1> DEFINE of(calls, n) == ToSet(SubSeq(calls, 1, n))
<1>2. found.sections = Sections(CtiCalls(found.ip), found.cti, "opencti")
                         \cup Sections(GraphCalls(found.ip), found.graph, "neo4j")
  BY <1>1 DEF Enrich
<1>3. \A calls, n, name : /\ of(calls, n) \subseteq Sections(calls, n, name)
                          /\ n # Len(calls) => name \in Sections(calls, n, name)
  BY DEF Sections
<1> HIDE DEF of
<1>4. /\ of(CtiCalls(found.ip), found.cti) \subseteq found.sections
      /\ found.cti # Len(CtiCalls(found.ip)) => "opencti" \in found.sections
      /\ of(GraphCalls(found.ip), found.graph) \subseteq found.sections
      /\ found.graph # Len(GraphCalls(found.ip)) => "neo4j" \in found.sections
  BY <1>2, <1>3
<1> QED BY <1>4 DEF of

LEMMA ReportsTellTrouble ==
    ASSUME NEW found \in Reports
    PROVE  /\ found.recommend /\ found.parts["connection"] # "good" => "connection" \in found.steps
           /\ found.priority = "high" => found.parts["vulnerabilities"] = "bad"
<1>1. PICK parts \in [Asked -> Part], recommend \in BOOLEAN :
        found = [parts |-> parts, steps |-> IF recommend THEN ReportSteps(parts) ELSE {},
                 recommend |-> recommend,
                 priority |-> IF parts["vulnerabilities"] = "bad" THEN "high" ELSE "normal"]
  BY DEF Reports
<1>2. parts["connection"] \in {"bad", "good", "error"}
  BY DEF Asked, Part
<1>3. parts["connection"] # "good" => "connection" \in ReportSteps(parts)
  BY <1>2 DEF ReportSteps, Asked
<1> QED BY <1>1, <1>3

-----------------------------------------------------------------------------
(* The model.                                                                *)

\* The model is sent the contract, then the compact and the ultra-compact one.
LEMMA RequestsAre ==
    ASSUME NEW sizes \in PayloadSizes
    PROVE  /\ Requests(sizes) \in Seq(Nat) /\ Len(Requests(sizes)) = 3
           /\ \A i \in 1 .. 3 : Requests(sizes)[i] \in Nat
           /\ Requests(sizes)[2] = sizes["compact"] /\ Requests(sizes)[3] = sizes["ultra"]
<1>1. sizes \in [Forms -> Nat]
  BY AnalysisAssumption
<1>2. TrimmedForm(sizes) \in Forms
  <2> DEFINE fits == {i \in DOMAIN Shrinking : sizes[Shrinking[i]] <= PayloadBudget}
  <2>1. DOMAIN Shrinking = 1 .. 3 /\ \A i \in 1 .. 3 : Shrinking[i] \in Forms
    BY DEF Shrinking, Forms
  <2>2. fits # {} => Min(fits) \in fits
    <3>1. fits \in SUBSET Nat
      BY <2>1
    <3> HIDE DEF fits
    <3>2. ASSUME fits # {} PROVE Min(fits) \in fits
      <4>1. PICK n \in fits : \A m \in fits : ~(m < n)
        BY <3>1, <3>2, LeastOf
      <4>2. \A m \in fits : n <= m
        BY <3>1, <4>1
      <4> QED BY <4>2 DEF Min
    <3> QED BY <3>2
  <2>3. fits \subseteq 1 .. 3
    BY <2>1
  <2>4. TrimmedForm(sizes) = IF fits = {} THEN "trimmed" ELSE Shrinking[Min(fits)]
    BY DEF TrimmedForm
  <2>5. "trimmed" \in Forms
    BY DEF Forms
  <2> HIDE DEF fits
  <2> QED BY <2>1, <2>2, <2>3, <2>4, <2>5
<1> DEFINE first == sizes[TrimmedForm(sizes)]
<1>3. Requests(sizes) = <<first, sizes["compact"], sizes["ultra"]>>
  BY DEF Requests
<1>4. first \in Nat /\ sizes["compact"] \in Nat /\ sizes["ultra"] \in Nat
  BY <1>1, <1>2 DEF Forms
<1> HIDE DEF first
<1> QED BY <1>3, <1>4

-----------------------------------------------------------------------------
(* The invariant.                                                            *)

Fields == {"pc", "flow", "found", "tries", "sizes", "trouble", "engine"}
Unasked == {"idle", "compare", "health", "classify", "contract", "raised"}

\* Where an analysis of each kind can be.
Stages ==
    /\ analysis.pc = "idle" => analysis.flow = "none"
    /\ analysis.pc \in {"compare", "health"} => analysis.flow = "triage"
    /\ analysis.pc = "classify" => analysis.flow \in {"mitre", "ioc"}
    /\ analysis.pc = "raised" => analysis.flow \in {"triage", "enrichment", "mitre"}

\* Once an analysis has its findings, they are as its tool promises.
FindingsAreSound ==
    analysis.pc \in {"health", "classify", "contract", "ask", "done"} =>
        /\ analysis.flow = "triage" => TriageIsSound(analysis.found)
        /\ analysis.flow = "enrichment" => analysis.found \in Enrichments
        /\ analysis.flow = "report" => analysis.found \in Reports
        /\ analysis.flow = "mitre" => MappingsAreSound(analysis.found)
        /\ analysis.flow = "ioc" => IndicatorIsSound(analysis.found)

\* The model has been sent the requests in their order, each while the one
\* before it called for another.
RequestsInOrder ==
    /\ analysis.pc \in Unasked =>
         analysis.tries = <<>> /\ analysis.engine = "none" /\ analysis.trouble = FALSE
    /\ analysis.pc \in {"ask", "done"} => analysis.sizes \in PayloadSizes
    /\ analysis.pc = "ask" =>
         /\ modelOn /\ analysis.engine = "none" /\ Len(analysis.tries) <= 2
         /\ Len(analysis.tries) > 0 => analysis.tries[1] > ModelWindow
         /\ ~analysis.trouble =>
              \A i \in 1 .. Len(analysis.tries) : analysis.tries[i] > ModelWindow
    /\ analysis.tries \in Seq(Nat)
    /\ analysis.pc \in {"ask", "done"} =>
         /\ Len(analysis.tries) <= 3
         /\ \A i \in 1 .. Len(analysis.tries) : analysis.tries[i] = Requests(analysis.sizes)[i]
    /\ ModelIsAskedAgain

AnalysisInv ==
    /\ indexedLog \in Seq(AlertsRead)
    /\ DOMAIN analysis = Fields
    /\ AnalysisTypeOK /\ Stages
    /\ analysis.pc = "compare" => IsShown(analysis.found, indexedLog)
    /\ FindingsAreSound
    /\ RequestsInOrder

LEMMA AnalysisInvGivesHolds ==
    ASSUME AnalysisInv
    PROVE  AnalysisHolds
<1>1. AnalysisTypeOK /\ ModelIsAskedAgain
  BY DEF AnalysisInv, RequestsInOrder
<1>2. TriageAddsUp /\ SpikesAreReal
  BY DEF AnalysisInv, FindingsAreSound, TriageIsSound, TriageAddsUp, SpikesAreReal, Is, F
<1>3. EnrichmentIsWhole
  BY EnrichmentsAreWhole DEF AnalysisInv, FindingsAreSound, EnrichmentIsWhole, Is, F
<1>4. ReportTellsTrouble
  BY ReportsTellTrouble DEF AnalysisInv, FindingsAreSound, ReportTellsTrouble, Is, F
<1>5. analysis.flow = "mitre" /\ analysis.pc # "raised" => MappingsAreSound(analysis.found)
  BY DEF AnalysisInv, AnalysisTypeOK, Stages, FindingsAreSound
<1>6. MappingIsSound
  BY <1>5 DEF MappingsAreSound, MappingIsSound, F
<1>7. analysis.flow = "ioc" => IndicatorIsSound(analysis.found)
  BY DEF AnalysisInv, AnalysisTypeOK, Stages, FindingsAreSound
<1>8. VerdictsAreEarned
  <2> SUFFICES ASSUME analysis.flow = "ioc" PROVE VerdictsAreEarned
    BY DEF VerdictsAreEarned
  <2>1. F.evidence \in Evidences /\ F.baseline.verdict = Verdict(Score(F.evidence))
    BY <1>7 DEF IndicatorIsSound, Baseline, F
  <2> QED BY <2>1, VerdictIsEarned DEF VerdictsAreEarned
<1>9. BaselineIsKept
  BY <1>7 DEF IndicatorIsSound, BaselineIsKept, F
<1> QED BY <1>1, <1>2, <1>3, <1>4, <1>6, <1>8, <1>9 DEF AnalysisHolds

\* What an analysis that has not asked the model yet moves on to.
LEMMA AnalysisMovesOn ==
    ASSUME AnalysisInv, NEW flow \in Flows, NEW pc \in Unasked \ {"idle"}, NEW found,
           analysis' = [analysis EXCEPT !.flow = flow, !.pc = pc, !.found = found],
           analysis.pc \in Unasked,
           UNCHANGED <<indexedLog, modelOn>>,
           pc = "compare" => flow = "triage" /\ IsShown(found, indexedLog),
           pc = "health" => flow = "triage",
           pc = "classify" => flow \in {"mitre", "ioc"},
           pc = "raised" => flow \in {"triage", "enrichment", "mitre"},
           pc \in {"health", "classify", "contract"} =>
             /\ flow = "triage" => TriageIsSound(found)
             /\ flow = "enrichment" => found \in Enrichments
             /\ flow = "report" => found \in Reports
             /\ flow = "mitre" => MappingsAreSound(found)
             /\ flow = "ioc" => IndicatorIsSound(found)
    PROVE  AnalysisInv'
<1>1. /\ DOMAIN analysis' = Fields /\ analysis'.flow = flow /\ analysis'.pc = pc
      /\ analysis'.found = found /\ analysis'.tries = analysis.tries
      /\ analysis'.sizes = analysis.sizes /\ analysis'.trouble = analysis.trouble
      /\ analysis'.engine = analysis.engine
  BY DEF AnalysisInv, Fields
<1>2. pc \in {"compare", "health", "classify", "contract", "raised"}
  BY DEF Unasked
<1>3. indexedLog' \in Seq(AlertsRead)
  BY DEF AnalysisInv
<1>4. AnalysisTypeOK'
  BY <1>1, <1>2 DEF AnalysisInv, AnalysisTypeOK, Flows
<1>5. Stages'
  BY <1>1, <1>2 DEF Stages
<1>6. analysis'.pc = "compare" => IsShown(analysis'.found, indexedLog')
  BY <1>1
<1>7. FindingsAreSound'
  BY <1>1, <1>2 DEF FindingsAreSound
<1>8. RequestsInOrder'
  <2>1. analysis.tries = <<>> /\ analysis.engine = "none" /\ analysis.trouble = FALSE
    BY DEF AnalysisInv, RequestsInOrder
  <2>2. DOMAIN <<>> = {} /\ Len(<<>>) = 0 /\ <<>> \in Seq(Nat)
    BY EmptySeq, LenProperties
  <2>3. ModelIsAskedAgain'
    BY <1>1, <2>1, <2>2 DEF ModelIsAskedAgain
  <2>4. pc \in Unasked /\ pc \notin {"ask", "done"} /\ pc # "ask"
    BY <1>2
  <2> QED BY <1>1, <2>1, <2>2, <2>3, <2>4 DEF RequestsInOrder
<1> QED BY <1>1, <1>3, <1>4, <1>5, <1>6, <1>7, <1>8 DEF AnalysisInv

\* The same of an analysis that is under way.
LEMMA AnalysisContinues ==
    ASSUME AnalysisInv, NEW pc \in {"health", "contract"}, NEW found,
           analysis.pc \in {"compare", "health", "classify"}, Continue(pc, found),
           pc = "health" => analysis.flow = "triage",
           /\ analysis.flow = "triage" => TriageIsSound(found)
           /\ analysis.flow = "mitre" => MappingsAreSound(found)
           /\ analysis.flow = "ioc" => IndicatorIsSound(found)
    PROVE  AnalysisInv'
<1> DEFINE flow == analysis.flow
<1>1. flow \in {"triage", "mitre", "ioc"}
  BY DEF AnalysisInv, Stages
<1>2. analysis' = [analysis EXCEPT !.flow = flow, !.pc = pc, !.found = found]
  <2>1. analysis' = [analysis EXCEPT !.pc = pc, !.found = found]
    BY DEF Continue
  <2>2. DOMAIN analysis = Fields
    BY DEF AnalysisInv
  <2> QED BY <2>1, <2>2 DEF Fields
<1>3. UNCHANGED <<indexedLog, modelOn>>
  BY DEF Continue
<1>4. flow \in Flows /\ pc \in Unasked \ {"idle"} /\ analysis.pc \in Unasked
  BY <1>1 DEF Flows, Unasked
<1>5. pc # "compare" /\ pc # "classify" /\ pc # "raised" /\ flow # "enrichment" /\ flow # "report"
  BY <1>1
<1> HIDE DEF flow
<1> QED BY <1>2, <1>3, <1>4, <1>5, AnalysisMovesOn DEF flow

LEMMA AlertArrivesKeeps ==
    ASSUME AnalysisInv, AlertArrives
    PROVE  AnalysisInv'
<1>1. PICK a \in LateAlerts : indexedLog' = <<a>> \o indexedLog
  BY DEF AlertArrives
<1>2. /\ analysis' = analysis /\ modelOn' = modelOn
  BY DEF AlertArrives
<1>3. indexedLog \in Seq(AlertsRead) /\ <<a>> \in Seq(AlertsRead)
  <2>1. a \in AlertsRead
    BY DEF AlertsRead
  <2> QED BY <2>1 DEF AnalysisInv
<1>4. indexedLog' \in Seq(AlertsRead)
  BY <1>1, <1>3, ConcatProperties
<1>5. ToSet(indexedLog) \subseteq ToSet(indexedLog')
  <2>1. /\ ToSet(indexedLog) = {indexedLog[i] : i \in DOMAIN indexedLog}
        /\ Len(indexedLog) \in Nat /\ DOMAIN indexedLog = 1 .. Len(indexedLog)
        /\ Len(indexedLog') \in Nat /\ DOMAIN indexedLog' = 1 .. Len(indexedLog')
    BY <1>3, <1>4, LogEntries, LenProperties
  <2>2. Len(<<a>>) = 1
    OBVIOUS
  <2>3. Len(indexedLog') = 1 + Len(indexedLog)
    BY <1>1, <1>3, <2>2, ConcatProperties
  <2>4. ASSUME NEW i \in DOMAIN indexedLog
        PROVE  indexedLog[i] \in ToSet(indexedLog')
    <3>1. i + 1 \in 1 .. Len(<<a>>) + Len(indexedLog) /\ i + 1 > Len(<<a>>)
          /\ i + 1 - Len(<<a>>) = i
      BY <2>1, <2>2
    <3>2. indexedLog'[i + 1] = indexedLog[i]
      BY <1>1, <1>3, <2>2, <3>1, ConcatProperties
    <3>3. i + 1 \in DOMAIN indexedLog'
      BY <2>1, <2>3
    <3> QED BY <3>2, <3>3 DEF ToSet
  <2> QED BY <2>1, <2>4
<1>6. analysis'.pc = "compare" => IsShown(analysis'.found, indexedLog')
  BY <1>2, <1>5 DEF AnalysisInv, IsShown
<1>7. AnalysisTypeOK' /\ Stages' /\ FindingsAreSound' /\ RequestsInOrder'
  <2>1. AnalysisTypeOK'
    BY <1>2 DEF AnalysisInv, AnalysisTypeOK
  <2>2. Stages' /\ FindingsAreSound'
    BY <1>2 DEF AnalysisInv, Stages, FindingsAreSound
  <2>3. RequestsInOrder'
    BY <1>2 DEF AnalysisInv, RequestsInOrder, ModelIsAskedAgain
  <2> QED BY <2>1, <2>2, <2>3
<1> QED BY <1>2, <1>4, <1>6, <1>7 DEF AnalysisInv

\* An analysis begins with what was read first.
LEMMA AnalysisBegins ==
    ASSUME AnalysisInv, NEW flow \in Flows, NEW pc \in Unasked \ {"idle"}, NEW found,
           BeginAnalysis(flow, pc, found),
           pc = "compare" => flow = "triage" /\ IsShown(found, indexedLog),
           pc # "health",
           pc = "classify" => flow \in {"mitre", "ioc"},
           pc = "raised" => flow \in {"triage", "enrichment", "mitre"},
           pc \in {"classify", "contract"} =>
             /\ flow # "triage"
             /\ flow = "enrichment" => found \in Enrichments
             /\ flow = "report" => found \in Reports
             /\ flow = "mitre" => MappingsAreSound(found)
             /\ flow = "ioc" => IndicatorIsSound(found)
    PROVE  AnalysisInv'
<1>1. analysis.pc \in Unasked
  BY DEF BeginAnalysis, Unasked
<1>2. /\ analysis' = [analysis EXCEPT !.flow = flow, !.pc = pc, !.found = found]
      /\ UNCHANGED <<indexedLog, modelOn>>
  BY DEF BeginAnalysis
<1> QED BY <1>1, <1>2, AnalysisMovesOn

LEMMA AnalysesStart ==
    ASSUME AnalysisInv, StartTriage \/ StartEnrichment \/ StartReport \/ StartMapping \/ StartPivot
    PROVE  AnalysisInv'
<1>1. /\ \A flow : flow \in {"triage", "enrichment", "report", "mitre", "ioc"} <=> flow \in Flows
      /\ \A pc : pc \in {"compare", "classify", "contract", "raised"} => pc \in Unasked \ {"idle"}
  BY DEF Flows, Unasked
<1>2. indexedLog \in Seq(AlertsRead)
  BY DEF AnalysisInv
<1>3. CASE StartTriage
  <2>1. CASE BeginAnalysis("triage", "raised", <<>>)
    BY <1>1, <2>1, AnalysisBegins
  <2>2. CASE BeginAnalysis("triage", "compare", NewestAlerts(TriageLimit, 0))
    <3>1. IsShown(NewestAlerts(TriageLimit, 0), indexedLog)
      <4>1. TriageLimit \in Nat /\ 0 \in Nat
        BY AnalysisAssumption
      <4>2. /\ NewestAlerts(TriageLimit, 0) \in Seq(AlertsRead)
            /\ ToSet(NewestAlerts(TriageLimit, 0))
                 \subseteq {indexedLog[i] : i \in UpTo(indexedLog, 0, moment)}
        BY <1>2, <4>1, NewestOfLog
      <4>3. \A i \in UpTo(indexedLog, 0, moment) : i \in DOMAIN indexedLog
        BY DEF UpTo
      <4>4. ToSet(indexedLog) = {indexedLog[i] : i \in DOMAIN indexedLog}
        BY <1>2, LogEntries
      <4> QED BY <4>2, <4>3, <4>4 DEF IsShown
    <3> QED BY <1>1, <2>2, <3>1, AnalysisBegins
  <2> QED BY <1>3, <2>1, <2>2 DEF StartTriage
<1>4. CASE StartEnrichment
  <2>1. CASE BeginAnalysis("enrichment", "raised", <<>>)
    BY <1>1, <2>1, AnalysisBegins
  <2>2. ASSUME NEW found \in Enrichments, BeginAnalysis("enrichment", "contract", found)
        PROVE  AnalysisInv'
    BY <1>1, <2>2, AnalysisBegins
  <2> QED BY <1>4, <2>1, <2>2 DEF StartEnrichment
<1>5. CASE StartReport
  <2>1. PICK found \in Reports : BeginAnalysis("report", "contract", found)
    BY <1>5 DEF StartReport
  <2> QED BY <1>1, <2>1, AnalysisBegins
<1>6. CASE StartMapping
  <2> DEFINE alerts == NewestAlerts(TriageLimit, 0)
  <2>1. CASE BeginAnalysis("mitre", "raised", <<>>)
    BY <1>1, <2>1, AnalysisBegins
  <2>2. ASSUME NEW mappings \in Mappings(alerts),
               BeginAnalysis("mitre", "classify",
                   [alerts |-> alerts, mappings |-> mappings, method |-> "rules"])
        PROVE  AnalysisInv'
    <3> DEFINE found == [alerts |-> alerts, mappings |-> mappings, method |-> "rules"]
    <3>1. TriageLimit \in Nat /\ 0 \in Nat
      BY AnalysisAssumption
    <3>2. alerts \in Seq(AlertsRead)
      BY <1>2, <3>1, NewestOfLog
    <3> HIDE DEF alerts
    <3>3. MappingsAreSound(found)
      BY <3>2, RulesMap
    <3>4. BeginAnalysis("mitre", "classify", found)
      BY <2>2
    <3> HIDE DEF found
    <3> QED BY <1>1, <3>3, <3>4, AnalysisBegins
  <2> QED BY <1>6, <2>1, <2>2 DEF StartMapping
<1>7. CASE StartPivot
  <2>1. PICK e \in Evidences :
          BeginAnalysis("ioc", "classify", [evidence |-> e, baseline |-> Baseline(e),
                                    result |-> Baseline(e), method |-> "rules"])
    BY <1>7 DEF StartPivot
  <2> DEFINE found == [evidence |-> e, baseline |-> Baseline(e),
                       result |-> Baseline(e), method |-> "rules"]
  <2>2. IndicatorIsSound(found)
    BY DEF IndicatorIsSound
  <2>3. BeginAnalysis("ioc", "classify", found)
    BY <2>1
  <2> HIDE DEF found
  <2> QED BY <1>1, <2>2, <2>3, AnalysisBegins
<1> QED BY <1>3, <1>4, <1>5, <1>6, <1>7

LEMMA AnalysesFind ==
    ASSUME AnalysisInv, Compare \/ ReadHealth \/ Classify \/ Synthesize
    PROVE  AnalysisInv'
<1>1. CASE Compare
  <2> DEFINE shown == analysis.found
             read == NewestAlerts(CompareLimit, 1)
  <2>1. analysis.pc = "compare" /\ analysis.flow = "triage" /\ IsShown(shown, indexedLog)
        /\ indexedLog \in Seq(AlertsRead)
    BY <1>1 DEF Compare, AnalysisInv, Stages
  <2>2. /\ TriageIsSound(Triage(shown, Counted(shown, read), OfAge(read, 1, moment), FALSE))
        /\ TriageIsSound(Triage(shown, shown, <<>>, TRUE))
    BY <2>1, TriageOfReads
  <2>3. PICK found : Continue("health", found) /\ TriageIsSound(found)
    BY <1>1, <2>2 DEF Compare
  <2> QED BY <2>1, <2>3, AnalysisContinues
<1>2. CASE ReadHealth
  <2>1. analysis.pc = "health" /\ analysis.flow = "triage" /\ TriageIsSound(analysis.found)
    BY <1>2 DEF ReadHealth, AnalysisInv, Stages, FindingsAreSound
  <2>2. PICK steps : Continue("contract", [analysis.found EXCEPT !.steps = steps])
    BY <1>2 DEF ReadHealth
  <2> DEFINE found == [analysis.found EXCEPT !.steps = steps]
  <2>3. TriageIsSound(found)
    BY <2>1 DEF TriageIsSound
  <2>4. Continue("contract", found)
    BY <2>2
  <2> HIDE DEF found
  <2> QED BY <2>1, <2>3, <2>4, AnalysisContinues
<1>3. CASE Classify
  <2>1. analysis.pc = "classify" /\ analysis.flow = "mitre" /\ MappingsAreSound(analysis.found)
    BY <1>3 DEF Classify, AnalysisInv, FindingsAreSound
  <2>2. CASE Continue("contract", analysis.found)
    BY <2>1, <2>2, AnalysisContinues
  <2>3. ASSUME analysis.found.alerts # <<>>, NEW c \in Claims, NEW d \in Claims,
               NEW mappings \in Ranked(Accepted({c, d})),
               Continue("contract",
                  [analysis.found EXCEPT !.mappings = mappings, !.method = "model"])
        PROVE  AnalysisInv'
    <3> DEFINE found == [analysis.found EXCEPT !.mappings = mappings, !.method = "model"]
    <3>1. MappingsAreSound(found)
      BY <2>1, <2>3, ModelMaps
    <3>2. Continue("contract", found)
      BY <2>3
    <3> HIDE DEF found
    <3> QED BY <2>1, <3>1, <3>2, AnalysisContinues
  <2> QED BY <1>3, <2>2, <2>3 DEF Classify
<1>4. CASE Synthesize
  <2>1. analysis.pc = "classify" /\ analysis.flow = "ioc" /\ IndicatorIsSound(analysis.found)
    BY <1>4 DEF Synthesize, AnalysisInv, FindingsAreSound
  <2>2. CASE Continue("contract", analysis.found)
    BY <2>1, <2>2, AnalysisContinues
  <2>3. ASSUME NEW o \in Opinions, Continue("contract", Concluded(analysis.found, o))
        PROVE  AnalysisInv'
    <3>1. IndicatorIsSound(Concluded(analysis.found, o))
      BY <2>1 DEF IndicatorIsSound, Concluded
    <3> QED BY <2>1, <2>3, <3>1, AnalysisContinues
  <2> QED BY <1>4, <2>2, <2>3 DEF Synthesize
<1> QED BY <1>1, <1>2, <1>3, <1>4

LEMMA ContractKeeps ==
    ASSUME AnalysisInv, Contract
    PROVE  AnalysisInv'
<1>1. analysis.pc = "contract" /\ indexedLog' = indexedLog /\ modelOn' = modelOn
  BY DEF Contract
<1>2. PICK sizes \in PayloadSizes :
        analysis' = [analysis EXCEPT !.sizes = sizes, !.pc = IF modelOn THEN "ask" ELSE "done",
                                     !.engine = IF modelOn THEN "none" ELSE "deterministic"]
  BY DEF Contract
<1>3. DOMAIN analysis = Fields /\ modelOn \in BOOLEAN
  BY DEF AnalysisInv, AnalysisTypeOK
<1>4. /\ DOMAIN analysis' = Fields /\ analysis'.flow = analysis.flow
      /\ analysis'.found = analysis.found /\ analysis'.tries = analysis.tries
      /\ analysis'.sizes = sizes /\ analysis'.trouble = analysis.trouble
      /\ analysis'.pc = (IF modelOn THEN "ask" ELSE "done")
      /\ analysis'.engine = (IF modelOn THEN "none" ELSE "deterministic")
  BY <1>2, <1>3 DEF Fields
<1>5. analysis.tries = <<>> /\ analysis.trouble = FALSE
  BY <1>1 DEF AnalysisInv, RequestsInOrder, Unasked
<1>6. AnalysisTypeOK' /\ Stages' /\ FindingsAreSound'
  <2>1. AnalysisTypeOK'
    BY <1>1, <1>3, <1>4 DEF AnalysisInv, AnalysisTypeOK
  <2>2. analysis'.pc \in {"ask", "done"}
    BY <1>4
  <2>3. Stages'
    BY <2>2 DEF Stages
  <2>4. FindingsAreSound'
    BY <1>1, <1>4 DEF AnalysisInv, FindingsAreSound
  <2> QED BY <2>1, <2>3, <2>4
<1>7. RequestsInOrder'
  <2>1. DOMAIN <<>> = {} /\ Len(<<>>) = 0 /\ <<>> \in Seq(Nat)
    BY EmptySeq, LenProperties
  <2>2. ModelIsAskedAgain'
    BY <1>1, <1>4, <1>5, <2>1 DEF ModelIsAskedAgain
  <2>3. analysis'.pc \notin Unasked
    BY <1>4 DEF Unasked
  <2> QED BY <1>1, <1>4, <1>5, <2>1, <2>2, <2>3 DEF RequestsInOrder
<1> QED BY <1>1, <1>4, <1>6, <1>7 DEF AnalysisInv

\* The model is asked, and answers or does not.
LEMMA AskKeeps ==
    ASSUME AnalysisInv, Ask
    PROVE  AnalysisInv'
<1> DEFINE tries == analysis.tries
           sizes == analysis.sizes
           try == Len(tries) + 1
           size == Requests(sizes)[try]
<1>1. analysis.pc = "ask" /\ indexedLog' = indexedLog /\ modelOn' = modelOn
  BY DEF Ask
<1>2. /\ DOMAIN analysis = Fields /\ modelOn = TRUE /\ analysis.engine = "none"
      /\ sizes \in PayloadSizes /\ tries \in Seq(Nat) /\ Len(tries) <= 2
      /\ \A i \in 1 .. Len(tries) : tries[i] = Requests(sizes)[i]
      /\ Len(tries) > 0 => tries[1] > ModelWindow
      /\ ~analysis.trouble => \A i \in 1 .. Len(tries) : tries[i] > ModelWindow
  BY <1>1 DEF AnalysisInv, RequestsInOrder, AnalysisTypeOK
<1>3. try \in 1 .. 3 /\ Len(tries) \in Nat /\ size \in Nat
  <2>1. Len(tries) \in Nat
    BY <1>2, LenProperties
  <2>2. try \in 1 .. 3
    BY <1>2, <2>1
  <2> HIDE DEF try
  <2>3. size \in Nat
    BY <1>2, <2>2, RequestsAre
  <2> QED BY <2>1, <2>2, <2>3
<1> DEFINE asked == [analysis EXCEPT !.tries = Append(@, size)]
           Failed(tooLong) ==
               IF Again(try, tooLong) THEN asked
               ELSE [asked EXCEPT !.pc = "done", !.engine = "deterministic"]
<1>4. \/ analysis' = [asked EXCEPT !.pc = "done", !.engine = "model"]
      \/ size > ModelWindow /\ analysis' = Failed(TRUE)
      \/ analysis' = [Failed(FALSE) EXCEPT !.trouble = TRUE]
  BY DEF Ask
<1>5. /\ DOMAIN asked = Fields /\ asked.flow = analysis.flow /\ asked.found = analysis.found
      /\ asked.sizes = sizes /\ asked.tries = Append(tries, size) /\ asked.pc = "ask"
      /\ asked.engine = "none" /\ asked.trouble = analysis.trouble
  BY <1>1, <1>2 DEF Fields
<1>6. (Again(try, TRUE) <=> try = 2 \/ try = 1) /\ (Again(try, FALSE) <=> try = 2)
  BY DEF Again
<1> HIDE DEF asked, try, size
<1>7. /\ DOMAIN analysis' = Fields /\ analysis'.flow = analysis.flow
      /\ analysis'.found = analysis.found /\ analysis'.sizes = sizes
      /\ analysis'.tries = Append(tries, size)
      /\ analysis'.pc \in {"ask", "done"} /\ analysis'.engine \in {"none", "deterministic", "model"}
      /\ analysis'.pc = "ask" =>
           analysis'.engine = "none" /\ (try = 2 \/ (try = 1 /\ size > ModelWindow))
      /\ analysis'.engine = "deterministic" /\ ~analysis'.trouble =>
           try = 3 /\ size > ModelWindow /\ ~analysis.trouble
      /\ analysis'.pc = "ask" /\ ~analysis'.trouble => size > ModelWindow /\ ~analysis.trouble
  <2>1. CASE analysis' = [asked EXCEPT !.pc = "done", !.engine = "model"]
    BY <1>5, <2>1 DEF Fields
  <2>2. CASE size > ModelWindow /\ analysis' = Failed(TRUE)
    <3>1. CASE Again(try, TRUE)
      <4>1. analysis' = asked /\ (try = 2 \/ try = 1)
        BY <1>6, <2>2, <3>1
      <4> QED BY <1>5, <2>2, <4>1
    <3>2. CASE ~Again(try, TRUE)
      <4>1. analysis' = [asked EXCEPT !.pc = "done", !.engine = "deterministic"]
        BY <2>2, <3>2
      <4>2. try # 1 /\ try # 2
        BY <1>6, <3>2, Zenon
      <4>3. try = 3
        BY <1>3, <4>2
      <4>4. /\ DOMAIN analysis' = Fields /\ analysis'.flow = asked.flow
            /\ analysis'.found = asked.found /\ analysis'.sizes = asked.sizes
            /\ analysis'.tries = asked.tries /\ analysis'.pc = "done"
            /\ analysis'.engine = "deterministic" /\ analysis'.trouble = asked.trouble
        BY <1>5, <4>1 DEF Fields
      <4> QED BY <1>5, <2>2, <4>3, <4>4
    <3> QED BY <3>1, <3>2
  <2>3. CASE analysis' = [Failed(FALSE) EXCEPT !.trouble = TRUE]
    <3>1. CASE Again(try, FALSE)
      <4>1. analysis' = [asked EXCEPT !.trouble = TRUE] /\ try = 2
        BY <1>6, <2>3, <3>1
      <4>2. /\ DOMAIN analysis' = Fields /\ analysis'.flow = asked.flow
            /\ analysis'.found = asked.found /\ analysis'.sizes = asked.sizes
            /\ analysis'.tries = asked.tries /\ analysis'.pc = "ask"
            /\ analysis'.engine = "none" /\ analysis'.trouble = TRUE
        BY <1>5, <4>1 DEF Fields
      <4> QED BY <1>5, <4>1, <4>2
    <3>2. CASE ~Again(try, FALSE)
      <4> DEFINE given == [asked EXCEPT !.pc = "done", !.engine = "deterministic"]
      <4>1. analysis' = [given EXCEPT !.trouble = TRUE]
        BY <2>3, <3>2
      <4>2. /\ DOMAIN given = Fields /\ given.flow = asked.flow /\ given.found = asked.found
            /\ given.sizes = asked.sizes /\ given.tries = asked.tries /\ given.pc = "done"
            /\ given.engine = "deterministic"
        BY <1>5 DEF Fields
      <4> HIDE DEF given
      <4> QED BY <1>5, <4>1, <4>2 DEF Fields
    <3> QED BY <3>1, <3>2
  <2> QED BY <1>4, <2>1, <2>2, <2>3
<1>8. /\ analysis'.tries \in Seq(Nat) /\ Len(analysis'.tries) = try
      /\ \A i \in 1 .. try : analysis'.tries[i] = Requests(sizes)[i]
  <2>1. /\ Append(tries, size) \in Seq(Nat) /\ Len(Append(tries, size)) = Len(tries) + 1
        /\ \A i \in 1 .. Len(tries) : Append(tries, size)[i] = tries[i]
        /\ Append(tries, size)[Len(tries) + 1] = size
    BY <1>2, <1>3, AppendProperties
  <2>2. \A i \in 1 .. try : i \in 1 .. Len(tries) \/ i = try
    BY <1>3 DEF try
  <2> QED BY <1>2, <1>7, <2>1, <2>2 DEF try, size
<1>9. DOMAIN analysis'.tries = 1 .. try
  BY <1>8, LenProperties
<1>13. analysis'.pc = "ask" \/ analysis'.engine = "deterministic" =>
         (~analysis'.trouble => \A i \in 1 .. try : analysis'.tries[i] > ModelWindow)
  <2> SUFFICES ASSUME analysis'.pc = "ask" \/ analysis'.engine = "deterministic",
                      ~analysis'.trouble, NEW i \in 1 .. try
               PROVE  analysis'.tries[i] > ModelWindow
    OBVIOUS
  <2>1. size > ModelWindow /\ ~analysis.trouble
    BY <1>7
  <2>2. CASE i = try
    BY <1>8, <2>1, <2>2 DEF size
  <2>3. CASE i # try
    <3>1. i \in 1 .. Len(tries)
      BY <1>3, <2>3 DEF try
    <3> QED BY <1>2, <1>8, <2>1, <3>1
  <2> QED BY <2>2, <2>3
<1>10. ModelIsAskedAgain'
  <2>1. Requests(sizes)[2] = sizes["compact"] /\ Requests(sizes)[3] = sizes["ultra"]
    BY <1>2, RequestsAre
  <2>2. analysis'.engine = "deterministic" /\ ~analysis'.trouble =>
          /\ sizes["compact"] > ModelWindow /\ sizes["ultra"] > ModelWindow
          /\ try = 3 /\ \A i \in 1 .. 3 : analysis'.tries[i] > ModelWindow
    <3> SUFFICES ASSUME analysis'.engine = "deterministic", ~analysis'.trouble
                 PROVE  /\ sizes["compact"] > ModelWindow /\ sizes["ultra"] > ModelWindow
                        /\ try = 3 /\ \A i \in 1 .. 3 : analysis'.tries[i] > ModelWindow
      OBVIOUS
    <3>1. try = 3
      BY <1>7
    <3>2. \A i \in 1 .. 3 : analysis'.tries[i] > ModelWindow
      BY <1>13, <3>1
    <3>3. analysis'.tries[2] = Requests(sizes)[2] /\ analysis'.tries[3] = Requests(sizes)[3]
      BY <1>8, <3>1
    <3> QED BY <2>1, <3>1, <3>2, <3>3
  <2>5. try > 1 => analysis'.tries[1] > ModelWindow
    <3> SUFFICES ASSUME try > 1 PROVE analysis'.tries[1] > ModelWindow
      OBVIOUS
    <3>1. Len(tries) > 0 /\ 1 \in 1 .. Len(tries) /\ 1 \in 1 .. try
      BY <1>3 DEF try
    <3> QED BY <1>2, <1>8, <3>1
  <2> QED BY <1>7, <1>8, <2>2, <2>5 DEF ModelIsAskedAgain
<1>11. RequestsInOrder'
  <2>1. analysis'.pc \notin Unasked
    BY <1>7 DEF Unasked
  <2>2. analysis'.pc = "ask" => try <= 2 /\ analysis'.tries[1] > ModelWindow
    <3>1. try = 1 => analysis'.tries[1] = size
      BY <1>8 DEF size
    <3>2. try = 2 => analysis'.tries[1] > ModelWindow
      <4> SUFFICES ASSUME try = 2 PROVE analysis'.tries[1] > ModelWindow
        OBVIOUS
      <4>1. Len(tries) > 0 /\ 1 \in 1 .. Len(tries) /\ 1 \in 1 .. try
        BY <1>3 DEF try
      <4> QED BY <1>2, <1>8, <4>1
    <3> QED BY <1>3, <1>7, <3>1, <3>2
  <2> QED BY <1>1, <1>2, <1>3, <1>7, <1>8, <1>10, <1>13, <2>1, <2>2 DEF RequestsInOrder
<1>12. AnalysisTypeOK' /\ Stages' /\ FindingsAreSound'
  <2>1. AnalysisTypeOK'
    BY <1>1, <1>7 DEF AnalysisInv, AnalysisTypeOK
  <2>2. Stages'
    BY <1>7 DEF Stages
  <2>3. FindingsAreSound'
    BY <1>1, <1>7 DEF AnalysisInv, FindingsAreSound
  <2> QED BY <2>1, <2>2, <2>3
<1> QED BY <1>1, <1>7, <1>11, <1>12 DEF AnalysisInv

\* An analysis tells what it read and how far it got: whatever was indexed,
\* whenever alerts arrive, time passes and whichever source fails, what it
\* counts, ranks and concludes follows from its reads, what could not be read is
\* said, and the model is given up on only when every request was too long for
\* it or failed otherwise (phase2.py).
THEOREM AnalysesHold == AnalysisSpec => []AnalysisHolds
<1>1. AnalysisInit => AnalysisInv
  <2> SUFFICES ASSUME AnalysisInit PROVE AnalysisInv
    OBVIOUS
  <2>1. /\ indexedLog \in Seq(AlertsRead) /\ modelOn \in BOOLEAN /\ DOMAIN analysis = Fields
        /\ analysis.pc = "idle" /\ analysis.flow = "none" /\ analysis.tries = <<>>
        /\ analysis.engine = "none" /\ analysis.trouble = FALSE
    BY AnalysisAssumption DEF AnalysisInit, NoAnalysis, Fields
  <2>2. DOMAIN <<>> = {} /\ Len(<<>>) = 0 /\ <<>> \in Seq(Nat)
    BY EmptySeq, LenProperties
  <2>3. RequestsInOrder
    <3>1. ModelIsAskedAgain
      BY <2>1, <2>2 DEF ModelIsAskedAgain
    <3> QED BY <2>1, <2>2, <3>1 DEF RequestsInOrder
  <2>4. AnalysisTypeOK /\ Stages /\ FindingsAreSound
    BY <2>1 DEF AnalysisTypeOK, Stages, FindingsAreSound
  <2> QED BY <2>1, <2>3, <2>4 DEF AnalysisInv
<1>2. AnalysisInv /\ [AnalysisNext]_analysisVars => AnalysisInv'
  <2> SUFFICES ASSUME AnalysisInv, [AnalysisNext]_analysisVars PROVE AnalysisInv'
    OBVIOUS
  <2>1. CASE UNCHANGED analysisVars
    <3>1. analysis' = analysis /\ modelOn' = modelOn /\ indexedLog' = indexedLog
      BY <2>1 DEF analysisVars
    <3> QED BY <3>1 DEF AnalysisInv, AnalysisTypeOK, Stages, FindingsAreSound,
                        RequestsInOrder, ModelIsAskedAgain
  <2>2. CASE AnalysisNext
    <3>1. CASE StartTriage \/ StartEnrichment \/ StartReport \/ StartMapping \/ StartPivot
      BY <3>1, AnalysesStart
    <3>2. CASE Compare \/ ReadHealth \/ Classify \/ Synthesize
      BY <3>2, AnalysesFind
    <3>3. CASE AlertArrives
      BY <3>3, AlertArrivesKeeps
    <3>6. CASE ClockAdvances
      <4>1. analysis' = analysis /\ modelOn' = modelOn /\ indexedLog' = indexedLog
        BY <3>6 DEF ClockAdvances
      <4> QED BY <4>1 DEF AnalysisInv, AnalysisTypeOK, Stages, FindingsAreSound,
                          RequestsInOrder, ModelIsAskedAgain
    <3>4. CASE Contract
      BY <3>4, ContractKeeps
    <3>5. CASE Ask
      BY <3>5, AskKeeps
    <3> QED BY <2>2, <3>1, <3>2, <3>3, <3>4, <3>5, <3>6 DEF AnalysisNext
  <2> QED BY <2>1, <2>2
<1>3. AnalysisInv => AnalysisHolds
  BY AnalysisInvGivesHolds
<1> QED BY <1>1, <1>2, <1>3, PTL DEF AnalysisSpec

-----------------------------------------------------------------------------
(* The discovery alerts: buffers that are read newest first.               *)

\* The first of a sequence.
LEMMA FirstOfSeq ==
    ASSUME NEW X, NEW s \in Seq(X), NEW n \in Nat
    PROVE  /\ FirstOf(s, n) \in Seq(X)
           /\ Len(FirstOf(s, n)) = (IF n <= Len(s) THEN n ELSE Len(s))
           /\ \A i \in 1 .. Len(FirstOf(s, n)) : FirstOf(s, n)[i] = s[i]
<1> DEFINE m == IF n <= Len(s) THEN n ELSE Len(s)
<1>1. Len(s) \in Nat /\ \A i \in 1 .. Len(s) : s[i] \in X
  BY LenProperties, ElementOfSeq
<1>2. n \in Int /\ Len(s) \in Int
  BY <1>1
<1>3. Min({n, Len(s)}) = m
  BY <1>2, MinOfTwo
<1>4. m \in Nat /\ m \in Int /\ m <= Len(s) /\ 1 \in Int
  BY <1>1
<1> HIDE DEF m
<1>5. \A i \in 1 .. m : s[i] \in X
  BY <1>1, <1>4
<1>6. /\ SubSeq(s, 1, m) \in Seq(X)
      /\ Len(SubSeq(s, 1, m)) = IF 1 <= m THEN m - 1 + 1 ELSE 0
      /\ \A i \in 1 .. m - 1 + 1 : SubSeq(s, 1, m)[i] = s[1 + i - 1]
  BY <1>4, <1>5, SubSeqProperties
<1>7. Len(SubSeq(s, 1, m)) = m
  BY <1>4, <1>6
<1>8. \A i \in 1 .. m : SubSeq(s, 1, m)[i] = s[i]
  BY <1>4, <1>6
<1>9. FirstOf(s, n) = SubSeq(s, 1, m)
  BY <1>3 DEF FirstOf
<1> QED BY <1>6, <1>7, <1>8, <1>9 DEF m

\* A sequence from its end.
LEMMA ReverseSeq ==
    ASSUME NEW X, NEW s \in Seq(X)
    PROVE  /\ Reverse(s) \in Seq(X) /\ Len(Reverse(s)) = Len(s)
           /\ \A i \in 1 .. Len(s) : Reverse(s)[i] = s[Len(s) - i + 1]
<1>1. Len(s) \in Nat /\ \A i \in 1 .. Len(s) : s[i] \in X
  BY LenProperties, ElementOfSeq
<1>2. \A i \in 1 .. Len(s) : Len(s) - i + 1 \in 1 .. Len(s)
  BY <1>1
<1>3. \A i \in 1 .. Len(s) : s[Len(s) - i + 1] \in X
  BY <1>1, <1>2
<1>4. Reverse(s) = [i \in 1 .. Len(s) |-> s[Len(s) - i + 1]]
  BY DEF Reverse
<1>5. Reverse(s) \in [1 .. Len(s) -> X]
  BY <1>3, <1>4
<1>6. Reverse(s) \in Seq(X) /\ Len(Reverse(s)) = Len(s)
  BY <1>1, <1>5, FunctionIsSeq
<1> QED BY <1>4, <1>6

\* A buffer that holds the newest of a log holds them after a push onto both.
LEMMA PushIsReverse ==
    ASSUME NEW X, NEW s \in Seq(X), NEW x \in X, NEW n \in Nat \ {0}
    PROVE  FirstOf(<<x>> \o FirstOf(Reverse(s), n), n) = FirstOf(Reverse(Append(s, x)), n)
<1> DEFINE r == Reverse(s)
           f == FirstOf(r, n)
           p == <<x>> \o f
           t == Reverse(Append(s, x))
<1>1. r \in Seq(X) /\ Len(r) = Len(s) /\ Len(s) \in Nat
      /\ \A i \in 1 .. Len(s) : r[i] = s[Len(s) - i + 1]
  BY ReverseSeq, LenProperties
<1>2. /\ Append(s, x) \in Seq(X) /\ Len(Append(s, x)) = Len(s) + 1
      /\ \A i \in 1 .. Len(s) : Append(s, x)[i] = s[i]
      /\ Append(s, x)[Len(s) + 1] = x
  BY AppendProperties
<1>3. t \in Seq(X) /\ Len(t) = Len(s) + 1
      /\ \A i \in 1 .. Len(s) + 1 : t[i] = Append(s, x)[Len(s) + 1 - i + 1]
  <2> DEFINE a == Append(s, x)
  <2>1. a \in Seq(X) /\ Len(a) = Len(s) + 1
    BY <1>2
  <2> HIDE DEF a
  <2>2. /\ Reverse(a) \in Seq(X) /\ Len(Reverse(a)) = Len(a)
        /\ \A i \in 1 .. Len(a) : Reverse(a)[i] = a[Len(a) - i + 1]
    BY <2>1, ReverseSeq
  <2> QED BY <2>1, <2>2 DEF a
<1> HIDE DEF r, t
<1>4. f \in Seq(X) /\ Len(f) = (IF n <= Len(s) THEN n ELSE Len(s)) /\ Len(f) \in Nat
      /\ \A i \in 1 .. Len(f) : f[i] = r[i]
  BY <1>1, FirstOfSeq
<1> HIDE DEF f
<1>5. <<x>> \in Seq(X) /\ Len(<<x>>) = 1 /\ <<x>>[1] = x
  OBVIOUS
<1>6. p \in Seq(X) /\ Len(p) = 1 + Len(f)
      /\ \A i \in 1 .. 1 + Len(f) : p[i] = IF i <= 1 THEN <<x>>[i] ELSE f[i - 1]
  BY <1>4, <1>5, ConcatProperties
<1> HIDE DEF p
<1>7. FirstOf(p, n) \in Seq(X) /\ Len(FirstOf(p, n)) = (IF n <= Len(p) THEN n ELSE Len(p))
      /\ \A i \in 1 .. Len(FirstOf(p, n)) : FirstOf(p, n)[i] = p[i]
  BY <1>6, FirstOfSeq
<1>8. FirstOf(t, n) \in Seq(X) /\ Len(FirstOf(t, n)) = (IF n <= Len(t) THEN n ELSE Len(t))
      /\ \A i \in 1 .. Len(FirstOf(t, n)) : FirstOf(t, n)[i] = t[i]
  BY <1>3, FirstOfSeq
<1>9. Len(FirstOf(p, n)) = Len(FirstOf(t, n)) /\ Len(FirstOf(p, n)) \in Nat
      /\ Len(FirstOf(p, n)) <= 1 + Len(f) /\ Len(f) <= Len(s)
  BY <1>1, <1>3, <1>4, <1>6, <1>7, <1>8
<1>10. ASSUME NEW i \in 1 .. Len(FirstOf(p, n)) PROVE FirstOf(p, n)[i] = FirstOf(t, n)[i]
  <2>1. i \in 1 .. 1 + Len(f) /\ i \in 1 .. Len(s) + 1 /\ i \in Nat /\ 1 <= i
    BY <1>1, <1>4, <1>9
  <2>2. FirstOf(p, n)[i] = p[i] /\ FirstOf(t, n)[i] = t[i]
    BY <1>7, <1>8, <1>9
  <2>3. CASE i = 1
    <3>1. p[i] = x
      BY <1>5, <1>6, <2>1, <2>3
    <3>2. t[i] = Append(s, x)[Len(s) + 1]
      BY <1>1, <1>3, <2>1, <2>3
    <3> QED BY <1>2, <2>2, <3>1, <3>2
  <2>4. CASE i # 1
    <3>1. i - 1 \in 1 .. Len(f) /\ i - 1 \in 1 .. Len(s) /\ ~(i <= 1)
      BY <1>1, <1>4, <1>9, <2>1, <2>4
    <3>2. p[i] = f[i - 1] /\ f[i - 1] = r[i - 1]
      BY <1>4, <1>6, <2>1, <3>1
    <3>3. r[i - 1] = s[Len(s) - (i - 1) + 1]
      BY <1>1, <3>1
    <3>4. Len(s) - (i - 1) + 1 = Len(s) + 1 - i + 1 /\ Len(s) + 1 - i + 1 \in 1 .. Len(s)
      BY <1>1, <3>1
    <3>5. t[i] = s[Len(s) + 1 - i + 1]
      BY <1>2, <1>3, <2>1, <3>4
    <3> QED BY <2>2, <3>2, <3>3, <3>4, <3>5
  <2> QED BY <2>3, <2>4
<1>11. FirstOf(p, n) = FirstOf(t, n)
  BY <1>7, <1>8, <1>9, <1>10, SeqEqual
<1> QED BY <1>11 DEF p, f, r, t

-----------------------------------------------------------------------------
(* The discovery alerts: what a rule counts.                               *)

\* The denials that were logged, and those of them a rule counts.
DenialEvent == [call : Denials, at : Nat]
InOrder(entries, now) ==
    /\ \A i \in 1 .. Len(entries) : entries[i].at <= now
    /\ \A i, j \in 1 .. Len(entries) : i <= j => entries[i].at <= entries[j].at
CountedIn(rule, entries, now) == {i \in 1 .. Len(entries) : Counts(rule, entries[i], now)}
NewestOf(entries) == FirstOf(Reverse(entries), EventsKept)

\* An event is stamped with the second it falls in.
LEMMA StampIsFloor ==
    ASSUME NEW e, e.at \in Nat
    PROVE  /\ Stamp(e) \in Int /\ Stamp(e) <= e.at /\ e.at <= Stamp(e) + TicksPerSecond - 1
           /\ TicksPerSecond \in Nat \ {0}
<1> DEFINE rest == e.at % TicksPerSecond
<1>1. TicksPerSecond \in Nat \ {0}
  BY DiscoveryAssumption
<1>2. rest \in 0 .. TicksPerSecond - 1
  BY <1>1
<1>3. Stamp(e) = e.at - rest
  BY DEF Stamp
<1> HIDE DEF rest
<1> QED BY <1>1, <1>2, <1>3

\* A threshold and a window are at least one.
LEMMA RulesAreReadable ==
    ASSUME NEW rule \in AllRules
    PROVE  Required(rule) \in Nat \ {0} /\ WindowOf(rule) \in Nat \ {0}
<1> DEFINE seconds == IF Readable(rule) THEN rule.window ELSE DefaultWindow
<1>1. rule.count \in Nat /\ rule.window \in Nat /\ DefaultWindow \in Nat \ {0}
      /\ TicksPerSecond \in Nat \ {0}
  BY DiscoveryAssumption
<1>2. seconds \in Nat \ {0} /\ Required(rule) \in Nat \ {0}
  BY <1>1 DEF Required, Readable
<1>3. WindowOf(rule) = seconds * TicksPerSecond
  BY DEF WindowOf
<1> HIDE DEF seconds
<1>4. \A m, n \in Nat \ {0} : m * n \in Nat \ {0}
  OBVIOUS
<1> QED BY <1>1, <1>2, <1>3, <1>4

\* The newest of the log, and where they are in it.
LEMMA NewestEntries ==
    ASSUME NEW entries \in Seq(DenialEvent)
    PROVE  /\ NewestOf(entries) \in Seq(DenialEvent) /\ Len(entries) \in Nat
           /\ Len(NewestOf(entries))
                = (IF EventsKept <= Len(entries) THEN EventsKept ELSE Len(entries))
           /\ Len(NewestOf(entries)) \in Nat
           /\ \A i \in 1 .. Len(NewestOf(entries)) :
                /\ Len(entries) - i + 1 \in 1 .. Len(entries)
                /\ NewestOf(entries)[i] = entries[Len(entries) - i + 1]
<1> DEFINE r == Reverse(entries)
<1>1. r \in Seq(DenialEvent) /\ Len(r) = Len(entries) /\ Len(entries) \in Nat
      /\ \A i \in 1 .. Len(entries) : r[i] = entries[Len(entries) - i + 1]
  BY ReverseSeq, LenProperties
<1>2. EventsKept \in Nat
  BY DiscoveryAssumption
<1> HIDE DEF r
<1>3. /\ FirstOf(r, EventsKept) \in Seq(DenialEvent)
      /\ Len(FirstOf(r, EventsKept)) = (IF EventsKept <= Len(r) THEN EventsKept ELSE Len(r))
      /\ \A i \in 1 .. Len(FirstOf(r, EventsKept)) : FirstOf(r, EventsKept)[i] = r[i]
  BY <1>1, <1>2, FirstOfSeq
<1>4. NewestOf(entries) = FirstOf(r, EventsKept)
  BY DEF NewestOf, r
<1>5. Len(NewestOf(entries)) \in Nat /\ Len(NewestOf(entries)) <= Len(entries)
  BY <1>1, <1>2, <1>3, <1>4
<1>6. \A i \in 1 .. Len(NewestOf(entries)) :
        i \in 1 .. Len(entries) /\ Len(entries) - i + 1 \in 1 .. Len(entries)
  BY <1>1, <1>5
<1>7. \A i \in 1 .. Len(NewestOf(entries)) : NewestOf(entries)[i] = entries[Len(entries) - i + 1]
  BY <1>1, <1>3, <1>4, <1>6
<1> QED BY <1>1, <1>3, <1>4, <1>5, <1>6, <1>7

\* What a rule counts of the newest is in the log, each once; and if the log
\* holds no more of its window than are kept, it counts all there are.
LEMMA CountedOfLog ==
    ASSUME NEW entries \in Seq(DenialEvent), NEW now \in Nat, InOrder(entries, now),
           NEW rule \in AllRules
    PROVE  /\ CountedBy(rule, NewestOf(entries), now) \in Seq(DenialEvent)
           /\ IsFiniteSet(CountedIn(rule, entries, now))
           /\ Len(CountedBy(rule, NewestOf(entries), now))
                <= Cardinality(CountedIn(rule, entries, now))
           /\ \A k \in 1 .. Len(CountedBy(rule, NewestOf(entries), now)) :
                \E i \in CountedIn(rule, entries, now) :
                    CountedBy(rule, NewestOf(entries), now)[k] = entries[i]
           /\ Cardinality({i \in 1 .. Len(entries) : entries[i].at >= now - WindowOf(rule)})
                <= EventsKept
              => Cardinality(CountedIn(rule, entries, now))
                   <= Len(CountedBy(rule, NewestOf(entries), now))
<1> DEFINE n == Len(entries)
           m == Len(NewestOf(entries))
           I == {i \in DOMAIN NewestOf(entries) : Counts(rule, NewestOf(entries)[i], now)}
           J == CountedIn(rule, entries, now)
           recent == {i \in 1 .. n : entries[i].at >= now - WindowOf(rule)}
<1>1. /\ NewestOf(entries) \in Seq(DenialEvent) /\ n \in Nat /\ m \in Nat
      /\ m = (IF EventsKept <= n THEN EventsKept ELSE n)
      /\ \A i \in 1 .. m : /\ n - i + 1 \in 1 .. n
                           /\ NewestOf(entries)[i] = entries[n - i + 1]
  BY NewestEntries
<1>2. DOMAIN NewestOf(entries) = 1 .. m
  BY <1>1, LenProperties
<1>3. I \subseteq 1 .. m /\ J \subseteq 1 .. n /\ recent \subseteq 1 .. n
  BY <1>2 DEF CountedIn
<1>4. /\ IsFiniteSet(I) /\ IsFiniteSet(J) /\ IsFiniteSet(recent)
      /\ Cardinality(I) \in Nat /\ Cardinality(J) \in Nat /\ Cardinality(recent) \in Nat
  <2> HIDE DEF I, J, recent, n, m
  <2> QED BY <1>1, <1>3, IndexesAreFinite
<1>5. /\ CountedBy(rule, NewestOf(entries), now) = Picked(NewestOf(entries), I)
      /\ Picked(NewestOf(entries), I) \in Seq(DenialEvent)
      /\ Len(Picked(NewestOf(entries), I)) = Cardinality(I)
      /\ DOMAIN Picked(NewestOf(entries), I) = 1 .. Cardinality(I)
      /\ \A k \in DOMAIN Picked(NewestOf(entries), I) :
            /\ Nth(I, k) \in I
            /\ Picked(NewestOf(entries), I)[k] = NewestOf(entries)[Nth(I, k)]
  <2>1. CountedBy(rule, NewestOf(entries), now) = Picked(NewestOf(entries), I)
    BY DEF CountedBy
  <2> HIDE DEF I
  <2> QED BY <1>1, <1>3, <2>1, PickedElements
<1>6. \A i \in 1 .. m : i \in I <=> n - i + 1 \in J
  BY <1>1, <1>2 DEF CountedIn
<1>7. \A i \in I : i \in 1 .. m
  BY <1>3
<1>8. Cardinality(I) <= Cardinality(J)
  <2> DEFINE f == [i \in I |-> n - i + 1]
  <2>1. \A i \in I : f[i] \in J
    BY <1>6, <1>7
  <2>2. \A i, k \in I : f[i] = f[k] => i = k
    <3>1. \A i \in I : i \in Int
      BY <1>7
    <3> QED BY <1>1, <3>1
  <2>3. f \in Injection(I, J)
    <3> HIDE DEF I, J
    <3> QED BY <2>1, <2>2 DEF Injection, IsInjective
  <2> HIDE DEF f, I, J
  <2> QED BY <1>4, <2>3, FS_Injection
<1>9. ASSUME Cardinality(recent) <= EventsKept PROVE Cardinality(J) <= Cardinality(I)
  <2>0. /\ EventsKept \in Nat /\ WindowOf(rule) \in Nat /\ now \in Int
        /\ \A i \in 1 .. n : entries[i].at \in Nat
    <3>1. \A i \in 1 .. n : entries[i] \in DenialEvent
      BY ElementOfSeq
    <3>2. \A i \in 1 .. n : entries[i].at \in Nat
      BY <3>1 DEF DenialEvent
    <3>3. EventsKept \in Nat /\ now \in Int
      BY DiscoveryAssumption
    <3>4. WindowOf(rule) \in Nat
      BY RulesAreReadable
    <3> QED BY <3>2, <3>3, <3>4
  <2>1. ASSUME NEW p \in J PROVE n - p + 1 \in 1 .. m
    <3>1. p \in 1 .. n /\ entries[p].at >= now - WindowOf(rule)
      <4>1. p \in 1 .. n /\ Stamp(entries[p]) >= now - WindowOf(rule)
        BY DEF CountedIn, Counts
      <4>2. entries[p].at \in Nat
        BY <2>0, <4>1
      <4>3. Stamp(entries[p]) \in Int /\ Stamp(entries[p]) <= entries[p].at
        BY <4>2, StampIsFloor
      <4> QED BY <2>0, <4>1, <4>2, <4>3
    <3>2. ASSUME NEW i \in p .. n PROVE i \in recent
      <4>1. i \in 1 .. n /\ p <= i
        BY <1>1, <3>1
      <4>2. entries[p].at <= entries[i].at
        BY <3>1, <4>1 DEF InOrder
      <4>3. entries[i].at >= now - WindowOf(rule)
        BY <2>0, <3>1, <4>1, <4>2
      <4> QED BY <4>1, <4>3
    <3>3. p .. n \in SUBSET recent
      BY <3>2
    <3>4. Cardinality(p .. n) <= Cardinality(recent)
      <4> HIDE DEF recent
      <4> QED BY <1>4, <3>3, FS_Subset
    <3>5. p \in Int /\ n \in Int
      BY <1>1, <3>1
    <3>6. Cardinality(p .. n) = n - p + 1
      <4> HIDE DEF n
      <4>1. Cardinality(p .. n) = IF p > n THEN 0 ELSE n - p + 1
        BY <3>5, FS_Interval
      <4> QED BY <3>1, <3>5, <4>1
    <3>7. n - p + 1 <= EventsKept
      <4> HIDE DEF recent, n
      <4> QED BY <1>4, <1>9, <2>0, <3>4, <3>5, <3>6
    <3> QED BY <1>1, <2>0, <3>1, <3>5, <3>7
  <2> DEFINE g == [p \in J |-> n - p + 1]
  <2>2. \A p \in J : p \in 1 .. n
    BY <1>3
  <2>3. \A p \in J : n - (n - p + 1) + 1 = p
    BY <1>1, <2>2
  <2>4. \A p \in J : g[p] \in I
    BY <1>6, <2>1, <2>3
  <2>5. \A p, q \in J : g[p] = g[q] => p = q
    <3>1. \A p \in J : p \in Int
      BY <2>2
    <3> QED BY <1>1, <3>1
  <2>6. g \in Injection(J, I)
    <3> HIDE DEF I, J
    <3> QED BY <2>4, <2>5 DEF Injection, IsInjective
  <2> HIDE DEF g, I, J
  <2> QED BY <1>4, <2>6, FS_Injection
<1>10. ASSUME NEW k \in 1 .. Cardinality(I)
       PROVE  \E i \in J : Picked(NewestOf(entries), I)[k] = entries[i]
  <2>1. Nth(I, k) \in I /\ Picked(NewestOf(entries), I)[k] = NewestOf(entries)[Nth(I, k)]
    <3> HIDE DEF I
    <3> QED BY <1>5
  <2>2. Nth(I, k) \in 1 .. m
    BY <1>3, <2>1
  <2> QED BY <1>1, <1>6, <2>1, <2>2
<1> HIDE DEF I, J, m
<1> QED BY <1>4, <1>5, <1>8, <1>9, <1>10 DEF J, n

-----------------------------------------------------------------------------
(* The discovery alerts: the invariant.                                    *)

AlertKinds == {KindOf(r) : r \in AllRules}
AlertRecord == [asOf : Nat, at : Nat, kind : AlertKinds, window : Nat, required : Nat,
                observed : Nat, tool : {d.tool : d \in Denials}]
Memory == [denied : Seq(DenialEvent), alerts : Seq(AlertRecord),
           last : [AlertKinds -> Nat \cup {Never}]]
Told == [kept : Memory, log : Seq(DenialEvent), raised : Seq(AlertRecord)]

\* The denials an alert may speak of, and that it counts no others
Within(a, entries) ==
    {i \in 1 .. Len(entries) : /\ entries[i].at \in (a.asOf - a.window) .. a.asOf
                               /\ a.kind[3] = {} \/ entries[i].call.tool \in a.kind[3]}
IsCounted(a, entries) ==
    /\ a.required <= a.observed /\ a.observed <= Cardinality(Within(a, entries))
    /\ a.tool \in {entries[i].call.tool : i \in Within(a, entries)}

\* Alerts of a kind are a cooldown apart, and the time stored for the kind is
\* that of the latest
Apart(raised) ==
    \A i, j \in 1 .. Len(raised) :
        i < j /\ raised[i].kind = raised[j].kind =>
            raised[j].at - raised[i].at >= CooldownOf(raised[j])
LastIsLatest(last, raised, now) ==
    /\ \A j \in 1 .. Len(raised) : raised[j].at <= last[raised[j].kind]
    /\ \A k \in AlertKinds : last[k] # Never =>
         /\ last[k] <= now
         /\ \E j \in 1 .. Len(raised) : raised[j].kind = k /\ raised[j].at = last[k]

\* What the buffers, and the file, hold is what happened: the newest of the
\* denials and of the alerts, with the cooldowns of all of them
IsTrueHistory(h, now) ==
    /\ h \in Told
    /\ InOrder(h.log, now)
    /\ h.kept.denied = NewestOf(h.log)
    /\ h.kept.alerts = FirstOf(Reverse(h.raised), AlertsKept)
    /\ LastIsLatest(h.kept.last, h.raised, now)
    /\ Apart(h.raised)
    /\ \A j \in 1 .. Len(h.raised) : IsCounted(h.raised[j], h.log)

InMemory == [kept |-> history, log |-> denialLog, raised |-> alertLog]
DiscoveryInv ==
    /\ ruleList \in RuleLists /\ time \in Nat /\ judgedAt \in Nat \cup {Never}
    /\ IsTrueHistory(InMemory, time)
    /\ IsTrueHistory(onDisk, time)
    /\ NoBurstIsMissed

\* An alert says so much of a cooldown: the shorter of its window and that of
\* the policy.
LEMMA CooldownIsMin ==
    ASSUME NEW a, a.window \in Nat
    PROVE  /\ CooldownOf(a) = (IF a.window <= CooldownTicks THEN a.window ELSE CooldownTicks)
           /\ CooldownOf(a) \in Nat
<1>1. CooldownTicks \in Nat
  <2>1. Cooldown \in Nat /\ TicksPerSecond \in Nat
    BY DiscoveryAssumption
  <2>2. \A m, n \in Nat : m * n \in Nat
    OBVIOUS
  <2> QED BY <2>1, <2>2 DEF CooldownTicks
<1>2. a.window \in Int /\ CooldownTicks \in Int
  BY <1>1
<1>3. Min({a.window, CooldownTicks})
        = IF a.window <= CooldownTicks THEN a.window ELSE CooldownTicks
  BY <1>2, MinOfTwo
<1> QED BY <1>1, <1>3 DEF CooldownOf

\* An alert on a rule is well formed, and of denials that were logged.
LEMMA AlertsSpeakOfDenials ==
    ASSUME NEW entries \in Seq(DenialEvent), NEW now \in Nat, InOrder(entries, now),
           NEW rule \in AllRules,
           Len(CountedBy(rule, NewestOf(entries), now)) >= Required(rule)
    PROVE  /\ AlertOn(rule, NewestOf(entries), now) \in AlertRecord
           /\ AlertOn(rule, NewestOf(entries), now).kind = KindOf(rule)
           /\ AlertOn(rule, NewestOf(entries), now).window = WindowOf(rule)
           /\ IsCounted(AlertOn(rule, NewestOf(entries), now), entries)
<1> DEFINE c == CountedBy(rule, NewestOf(entries), now)
           J == CountedIn(rule, entries, now)
           a == AlertOn(rule, NewestOf(entries), now)
           t == Last(c).call.tool
<1>1. /\ c \in Seq(DenialEvent) /\ IsFiniteSet(J) /\ Len(c) <= Cardinality(J)
      /\ \A k \in 1 .. Len(c) : \E i \in J : c[k] = entries[i]
  BY CountedOfLog
<1>2. Required(rule) \in Nat \ {0} /\ WindowOf(rule) \in Nat \ {0}
  BY RulesAreReadable
<1>3. Len(c) \in Nat /\ Len(c) >= Required(rule) /\ Len(c) \in 1 .. Len(c)
  <2>1. Len(c) \in Nat
    BY <1>1, LenProperties
  <2> QED BY <1>2, <2>1
<1>4. Last(c) = c[Len(c)]
  BY DEF Last
<1>5. PICK i \in J : c[Len(c)] = entries[i]
  BY <1>1, <1>3
<1>6. /\ a = [asOf |-> now, at |-> now, kind |-> KindOf(rule), window |-> WindowOf(rule),
              required |-> Required(rule), observed |-> Len(c), tool |-> t]
  BY DEF AlertOn
<1>7. /\ a.asOf = now /\ a.kind = KindOf(rule) /\ a.window = WindowOf(rule)
      /\ a.required = Required(rule) /\ a.observed = Len(c) /\ a.tool = t
  BY <1>6
<1>8. \A j \in 1 .. Len(entries) : entries[j].at \in Nat /\ entries[j].call \in Denials
  <2>1. \A j \in 1 .. Len(entries) : entries[j] \in DenialEvent
    BY ElementOfSeq
  <2> QED BY <2>1 DEF DenialEvent
<1>9. i \in 1 .. Len(entries) /\ t = entries[i].call.tool
  BY <1>4, <1>5 DEF CountedIn
<1>10. t \in {d.tool : d \in Denials}
  BY <1>8, <1>9
<1>11. KindOf(rule) \in AlertKinds
  BY DEF AlertKinds
<1>12. a \in AlertRecord
  <2> HIDE DEF c, t
  <2> QED BY <1>2, <1>3, <1>6, <1>10, <1>11 DEF AlertRecord
<1>13. \A j \in J : j \in Within(a, entries)
  <2> SUFFICES ASSUME NEW j \in J PROVE j \in Within(a, entries)
    OBVIOUS
  <2>1. j \in 1 .. Len(entries) /\ Counts(rule, entries[j], now)
    BY DEF CountedIn
  <2>2. entries[j].at >= now - WindowOf(rule) /\ entries[j].at <= now
        /\ (rule.scope = {} \/ entries[j].call.tool \in rule.scope)
    <3>1. Stamp(entries[j]) >= now - WindowOf(rule) /\ entries[j].at <= now
          /\ (rule.scope = {} \/ entries[j].call.tool \in rule.scope)
      BY <2>1 DEF Counts, InOrder
    <3>2. entries[j].at \in Nat
      BY <1>8, <2>1
    <3>3. Stamp(entries[j]) \in Int /\ Stamp(entries[j]) <= entries[j].at
      BY <3>2, StampIsFloor
    <3> QED BY <1>2, <3>1, <3>2, <3>3
  <2>3. entries[j].at \in (now - WindowOf(rule)) .. now
    BY <1>2, <1>8, <2>1, <2>2
  <2>4. KindOf(rule)[3] = rule.scope
    BY DEF KindOf
  <2> HIDE DEF a
  <2> QED BY <1>7, <2>1, <2>2, <2>3, <2>4 DEF Within
<1>14. /\ IsFiniteSet(Within(a, entries)) /\ Cardinality(Within(a, entries)) \in Nat
       /\ Cardinality(J) <= Cardinality(Within(a, entries)) /\ Cardinality(J) \in Nat
  <2> DEFINE W == Within(a, entries)
  <2>1. W \subseteq 1 .. Len(entries) /\ Len(entries) \in Nat
    BY LenProperties DEF Within
  <2>2. J \in SUBSET W
    BY <1>13
  <2> HIDE DEF W, J
  <2>3. IsFiniteSet(W) /\ Cardinality(W) \in Nat
    BY <2>1, IndexesAreFinite
  <2>4. Cardinality(J) <= Cardinality(W)
    BY <2>2, <2>3, FS_Subset
  <2>5. Cardinality(J) \in Nat
    BY <1>1, FS_CardinalityType
  <2> QED BY <2>3, <2>4, <2>5 DEF W, J
<1>15. a.required <= a.observed /\ a.observed <= Cardinality(Within(a, entries))
  <2> HIDE DEF a, c, J
  <2> QED BY <1>1, <1>2, <1>3, <1>7, <1>14
<1>16. a.tool \in {entries[j].call.tool : j \in Within(a, entries)}
  <2> HIDE DEF a, c, J
  <2> QED BY <1>5, <1>7, <1>9, <1>13
<1>17. IsCounted(a, entries)
  <2> HIDE DEF a
  <2> QED BY <1>15, <1>16 DEF IsCounted
<1> QED BY <1>7, <1>12, <1>17

\* What an alert counts it still counts when more is logged.
LEMMA CountedStays ==
    ASSUME NEW entries \in Seq(DenialEvent), NEW e \in DenialEvent, NEW a \in AlertRecord,
           IsCounted(a, entries)
    PROVE  IsCounted(a, Append(entries, e))
<1> DEFINE more == Append(entries, e)
           W == Within(a, entries)
           V == Within(a, more)
<1>1. /\ more \in Seq(DenialEvent) /\ Len(more) = Len(entries) + 1 /\ Len(entries) \in Nat
      /\ \A i \in 1 .. Len(entries) : more[i] = entries[i]
  BY AppendProperties, LenProperties
<1> HIDE DEF more
<1>2. \A i \in W : i \in V /\ more[i] = entries[i]
  BY <1>1 DEF Within
<1>3. V \subseteq 1 .. Len(more) /\ Len(more) \in Nat /\ W \subseteq 1 .. Len(entries)
  BY <1>1 DEF Within
<1>4. W \in SUBSET V
  BY <1>2
<1>5. a.required <= a.observed /\ a.observed <= Cardinality(W)
      /\ a.tool \in {entries[i].call.tool : i \in W}
  BY DEF IsCounted
<1>6. a.observed \in Nat
  BY DEF AlertRecord
<1> HIDE DEF W, V
<1>7. IsFiniteSet(V) /\ Cardinality(V) \in Nat /\ Cardinality(W) \in Nat
  BY <1>1, <1>3, IndexesAreFinite
<1>8. Cardinality(W) <= Cardinality(V)
  BY <1>4, <1>7, FS_Subset
<1>9. a.observed <= Cardinality(V)
  BY <1>5, <1>6, <1>7, <1>8
<1>10. a.tool \in {more[i].call.tool : i \in V}
  BY <1>2, <1>5
<1> QED BY <1>5, <1>9, <1>10 DEF IsCounted, V, more

-----------------------------------------------------------------------------
(* The discovery alerts: one alert, and one after the other.               *)

\* A record of the memory, field by field.
LEMMA ToldFields ==
    ASSUME NEW h \in Told
    PROVE  /\ h.kept \in Memory /\ h.log \in Seq(DenialEvent) /\ h.raised \in Seq(AlertRecord)
           /\ h.kept.denied \in Seq(DenialEvent) /\ h.kept.alerts \in Seq(AlertRecord)
           /\ h.kept.last \in [AlertKinds -> Nat \cup {Never}]
BY DEF Told, Memory

\* What an alert that is fired leaves, field by field.
LEMMA EmitFields ==
    ASSUME NEW h \in Told, NEW a \in AlertRecord, ~Cooling(h.kept.last, a)
    PROVE  /\ Emit(h, a).log = h.log
           /\ Emit(h, a).raised = Append(h.raised, a)
           /\ Emit(h, a).kept.denied = h.kept.denied
           /\ Emit(h, a).kept.alerts = FirstOf(<<a>> \o h.kept.alerts, AlertsKept)
           /\ Emit(h, a).kept.last = [h.kept.last EXCEPT ![a.kind] = a.at]
           /\ Emit(h, a) \in Told
<1> DEFINE kept == [h.kept EXCEPT !.last[a.kind] = a.at,
                                  !.alerts = FirstOf(<<a>> \o @, AlertsKept)]
<1>1. Emit(h, a) = [kept |-> kept, log |-> h.log, raised |-> Append(h.raised, a)]
  BY DEF Emit
<1>2. /\ h.kept \in Memory /\ h.log \in Seq(DenialEvent) /\ h.raised \in Seq(AlertRecord)
      /\ h.kept.denied \in Seq(DenialEvent) /\ h.kept.alerts \in Seq(AlertRecord)
      /\ h.kept.last \in [AlertKinds -> Nat \cup {Never}]
  BY ToldFields
<1>3. a.kind \in AlertKinds /\ a.at \in Nat
  BY DEF AlertRecord
<1>4. kept = [denied |-> h.kept.denied,
              alerts |-> FirstOf(<<a>> \o h.kept.alerts, AlertsKept),
              last |-> [h.kept.last EXCEPT ![a.kind] = a.at]]
  <2>1. DOMAIN h.kept = {"denied", "alerts", "last"}
    BY <1>2 DEF Memory
  <2>2. DOMAIN kept = {"denied", "alerts", "last"}
    BY <2>1
  <2>3. kept = [x \in {"denied", "alerts", "last"} |-> kept[x]]
    BY <2>2
  <2>4. kept.denied = h.kept.denied
    BY <2>1
  <2>5. kept.alerts = FirstOf(<<a>> \o h.kept.alerts, AlertsKept)
    BY <2>1
  <2>6. kept.last = [h.kept.last EXCEPT ![a.kind] = a.at]
    BY <2>1
  <2> HIDE DEF kept
  <2> QED BY <2>2, <2>3, <2>4, <2>5, <2>6
<1>5. FirstOf(<<a>> \o h.kept.alerts, AlertsKept) \in Seq(AlertRecord)
  <2>1. <<a>> \o h.kept.alerts \in Seq(AlertRecord)
    <3>1. <<a>> \in Seq(AlertRecord)
      OBVIOUS
    <3> QED BY <1>2, <3>1, ConcatProperties
  <2>2. AlertsKept \in Nat
    BY DiscoveryAssumption
  <2> QED BY <2>1, <2>2, FirstOfSeq
<1>6. [h.kept.last EXCEPT ![a.kind] = a.at] \in [AlertKinds -> Nat \cup {Never}]
  BY <1>2, <1>3
<1>7. kept \in Memory
  BY <1>2, <1>4, <1>5, <1>6 DEF Memory
<1>8. Append(h.raised, a) \in Seq(AlertRecord)
  BY <1>2, AppendProperties
<1>9. /\ kept.denied = h.kept.denied
      /\ kept.alerts = FirstOf(<<a>> \o h.kept.alerts, AlertsKept)
      /\ kept.last = [h.kept.last EXCEPT ![a.kind] = a.at]
  BY <1>4
<1> HIDE DEF kept
<1>10. Emit(h, a) \in Told
  BY <1>1, <1>2, <1>7, <1>8 DEF Told
<1> QED BY <1>1, <1>9, <1>10

\* An alert that is fired, or cools down, leaves a true history.
LEMMA EmitIsTrue ==
    ASSUME NEW h, NEW now \in Nat, IsTrueHistory(h, now), NEW a \in AlertRecord,
           a.at = now, IsCounted(a, h.log)
    PROVE  IsTrueHistory(Emit(h, a), now)
<1>1. CASE Cooling(h.kept.last, a)
  BY <1>1 DEF Emit
<1>2. CASE ~Cooling(h.kept.last, a)
  <2> DEFINE g == Emit(h, a)
             old == h.raised
             new == g.raised
             n == Len(h.raised)
  <2>1. h \in Told
    BY DEF IsTrueHistory
  <2>2. /\ h.log \in Seq(DenialEvent) /\ old \in Seq(AlertRecord) /\ n \in Nat
        /\ h.kept.alerts \in Seq(AlertRecord)
        /\ h.kept.last \in [AlertKinds -> Nat \cup {Never}]
    BY <2>1, ToldFields, LenProperties
  <2>3. /\ g.log = h.log /\ new = Append(old, a)
        /\ g.kept.denied = h.kept.denied
        /\ g.kept.alerts = FirstOf(<<a>> \o h.kept.alerts, AlertsKept)
        /\ g.kept.last = [h.kept.last EXCEPT ![a.kind] = a.at]
        /\ g \in Told
    BY <1>2, <2>1, EmitFields
  <2> HIDE DEF g
  <2>4. /\ Len(new) = n + 1 /\ new \in Seq(AlertRecord)
        /\ \A i \in 1 .. n : new[i] = old[i]
        /\ new[n + 1] = a
    BY <2>2, <2>3, AppendProperties
  <2>5. \A i \in 1 .. n : old[i] \in AlertRecord
    BY <2>2, ElementOfSeq
  <2>6. a.kind \in AlertKinds /\ \A i \in 1 .. n : old[i].kind \in AlertKinds /\ old[i].at \in Nat
    BY <2>5 DEF AlertRecord
  <2>7. InOrder(g.log, now) /\ g.kept.denied = NewestOf(g.log)
    BY <2>3 DEF IsTrueHistory
  <2>8. g.kept.alerts = FirstOf(Reverse(new), AlertsKept)
    <3>1. h.kept.alerts = FirstOf(Reverse(old), AlertsKept) /\ AlertsKept \in Nat \ {0}
      BY DiscoveryAssumption DEF IsTrueHistory
    <3>2. FirstOf(<<a>> \o FirstOf(Reverse(old), AlertsKept), AlertsKept)
            = FirstOf(Reverse(Append(old, a)), AlertsKept)
      BY <2>2, <3>1, PushIsReverse
    <3> QED BY <2>3, <3>1, <3>2
  <2>9. /\ \A j \in 1 .. n : old[j].at <= h.kept.last[old[j].kind]
        /\ \A k \in AlertKinds : h.kept.last[k] # Never =>
             /\ h.kept.last[k] <= now
             /\ \E j \in 1 .. n : old[j].kind = k /\ old[j].at = h.kept.last[k]
    BY DEF IsTrueHistory, LastIsLatest
  <2>10. \A k \in AlertKinds : g.kept.last[k] = IF k = a.kind THEN now ELSE h.kept.last[k]
    BY <2>2, <2>3, <2>6
  <2>11. \A j \in 1 .. n : /\ h.kept.last[old[j].kind] # Never
                           /\ h.kept.last[old[j].kind] \in Nat
                           /\ h.kept.last[old[j].kind] <= now
    <3>1. \A j \in 1 .. n : h.kept.last[old[j].kind] \in Nat \cup {Never}
      BY <2>2, <2>6
    <3>2. \A j \in 1 .. n : h.kept.last[old[j].kind] # Never
      BY <2>6, <2>9, <3>1 DEF Never
    <3> QED BY <2>6, <2>9, <3>1, <3>2
  <2>12. \A j \in 1 .. n + 1 : new[j].at <= g.kept.last[new[j].kind]
    <3> SUFFICES ASSUME NEW j \in 1 .. n + 1 PROVE new[j].at <= g.kept.last[new[j].kind]
      OBVIOUS
    <3>1. CASE j = n + 1
      <4>1. g.kept.last[a.kind] = now
        BY <2>6, <2>10
      <4>2. new[j] = a
        BY <2>4, <3>1
      <4> HIDE DEF new
      <4> QED BY <4>1, <4>2
    <3>2. CASE j # n + 1
      <4>1. j \in 1 .. n
        BY <2>2, <3>2
      <4>2. new[j] = old[j] /\ old[j].at <= h.kept.last[old[j].kind]
        BY <2>4, <2>9, <4>1
      <4>3. old[j].at <= now
        <5>1. old[j].at \in Nat /\ old[j].at <= h.kept.last[old[j].kind]
          BY <2>6, <2>9, <4>1
        <5>2. h.kept.last[old[j].kind] \in Nat /\ h.kept.last[old[j].kind] <= now
          BY <2>11, <4>1
        <5> HIDE DEF old
        <5> QED BY <5>1, <5>2
      <4>4. old[j].kind \in AlertKinds
        BY <2>6, <4>1
      <4>5. CASE old[j].kind = a.kind
        <5>1. g.kept.last[old[j].kind] = now
          BY <2>10, <4>4, <4>5
        <5> QED BY <4>2, <4>3, <5>1
      <4>6. CASE old[j].kind # a.kind
        <5>1. g.kept.last[old[j].kind] = h.kept.last[old[j].kind]
          BY <2>10, <4>4, <4>6
        <5> QED BY <4>2, <5>1
      <4> QED BY <4>5, <4>6
    <3> QED BY <3>1, <3>2
  <2>13. ASSUME NEW k \in AlertKinds, g.kept.last[k] # Never
         PROVE  /\ g.kept.last[k] <= now
                /\ \E j \in 1 .. n + 1 : new[j].kind = k /\ new[j].at = g.kept.last[k]
    <3>0. n + 1 \in 1 .. n + 1 /\ 1 .. n \subseteq 1 .. n + 1
      BY <2>2
    <3>1. CASE k = a.kind
      <4>1. g.kept.last[k] = now
        BY <2>10, <3>1
      <4>2. new[n + 1].kind = k /\ new[n + 1].at = now
        BY <2>4, <3>1
      <4> HIDE DEF new, n
      <4> QED BY <3>0, <4>1, <4>2
    <3>2. CASE k # a.kind
      <4>1. h.kept.last[k] # Never /\ g.kept.last[k] = h.kept.last[k]
        BY <2>10, <2>13, <3>2
      <4>2. PICK j \in 1 .. n : old[j].kind = k /\ old[j].at = h.kept.last[k]
        BY <2>9, <4>1
      <4> QED BY <2>4, <2>9, <3>0, <4>1, <4>2
    <3> QED BY <3>1, <3>2
  <2>14. LastIsLatest(g.kept.last, new, now)
    BY <2>4, <2>12, <2>13 DEF LastIsLatest
  <2>15. Apart(new)
    <3> SUFFICES ASSUME NEW i \in 1 .. n + 1, NEW j \in 1 .. n + 1,
                        i < j, new[i].kind = new[j].kind
                 PROVE  new[j].at - new[i].at >= CooldownOf(new[j])
      BY <2>4 DEF Apart
    <3>1. i \in 1 .. n
      BY <2>2
    <3>2. CASE j \in 1 .. n
      <4>1. new[i] = old[i] /\ new[j] = old[j]
        BY <2>4, <3>1, <3>2
      <4> QED BY <3>1, <3>2, <4>1 DEF IsTrueHistory, Apart
    <3>3. CASE j = n + 1
      <4>1. new[j] = a /\ new[i] = old[i] /\ old[i].kind = a.kind
        BY <2>4, <3>1, <3>3
      <4>2. /\ h.kept.last[a.kind] # Never /\ h.kept.last[a.kind] \in Nat
            /\ old[i].at <= h.kept.last[a.kind]
        BY <2>9, <2>11, <3>1, <4>1
      <4>3. ~(a.at - h.kept.last[a.kind] < CooldownOf(a))
        BY <1>2, <4>2 DEF Cooling
      <4>4. a.at \in Nat /\ CooldownOf(a) \in Nat /\ old[i].at \in Nat
        BY <2>6, <3>1, CooldownIsMin DEF AlertRecord
      <4>5. a.at - old[i].at >= CooldownOf(a)
        <5> DEFINE x == h.kept.last[a.kind]
                   y == old[i].at
                   c == CooldownOf(a)
        <5>1. x \in Nat /\ y \in Nat /\ c \in Nat /\ a.at \in Nat
          BY <4>2, <4>4
        <5>2. y <= x /\ ~(a.at - x < c)
          BY <4>2, <4>3
        <5> HIDE DEF x, y, c
        <5>3. a.at - y >= c
          BY <5>1, <5>2
        <5> QED BY <5>3 DEF y, c
      <4> QED BY <4>1, <4>5
    <3>4. j \in 1 .. n \/ j = n + 1
      <4>1. n \in Nat
        BY <2>2
      <4> HIDE DEF n, new
      <4> QED BY <4>1
    <3> QED BY <3>2, <3>3, <3>4
  <2>16. \A j \in 1 .. n + 1 : IsCounted(new[j], g.log)
    <3> SUFFICES ASSUME NEW j \in 1 .. n + 1 PROVE IsCounted(new[j], g.log)
      OBVIOUS
    <3>1. CASE j = n + 1
      BY <2>3, <2>4, <3>1
    <3>2. CASE j # n + 1
      <4>1. j \in 1 .. n
        BY <2>2, <3>2
      <4>2. IsCounted(old[j], h.log)
        BY <4>1 DEF IsTrueHistory
      <4> QED BY <2>3, <2>4, <4>1, <4>2
    <3> QED BY <3>1, <3>2
  <2>17. \A j \in 1 .. Len(g.raised) : IsCounted(g.raised[j], g.log)
    BY <2>4, <2>16
  <2>18. Apart(g.raised) /\ LastIsLatest(g.kept.last, g.raised, now)
         /\ g.kept.alerts = FirstOf(Reverse(g.raised), AlertsKept)
    BY <2>8, <2>14, <2>15
  <2> HIDE DEF new, old, n
  <2>19. IsTrueHistory(g, now)
    BY <2>3, <2>7, <2>17, <2>18 DEF IsTrueHistory
  <2> QED BY <2>19 DEF g
<1> QED BY <1>1, <1>2

\* What is raised already stays, at its place; and an alert is raised or one of
\* its kind cools down.
LEMMA EmitRaises ==
    ASSUME NEW h, NEW now \in Nat, IsTrueHistory(h, now), NEW a \in AlertRecord,
           a.at = now
    PROVE  /\ Len(h.raised) \in Nat
           /\ \A j \in 1 .. Len(h.raised) :
                j \in 1 .. Len(Emit(h, a).raised) /\ Emit(h, a).raised[j] = h.raised[j]
           /\ CooldownOf(a) > 0 =>
                \E j \in 1 .. Len(Emit(h, a).raised) :
                    /\ Emit(h, a).raised[j].kind = a.kind
                    /\ \/ Emit(h, a).raised[j].at = now
                       \/ now - Emit(h, a).raised[j].at < CooldownOf(a)
<1>1. h \in Told
  BY DEF IsTrueHistory
<1>2. h.raised \in Seq(AlertRecord) /\ Len(h.raised) \in Nat
  BY <1>1, ToldFields, LenProperties
<1>3. CASE Cooling(h.kept.last, a)
  <2>1. Emit(h, a) = h
    BY <1>3 DEF Emit
  <2>2. ASSUME CooldownOf(a) > 0
        PROVE  \E j \in 1 .. Len(h.raised) :
                  /\ h.raised[j].kind = a.kind
                  /\ h.raised[j].at = now \/ now - h.raised[j].at < CooldownOf(a)
    <3>1. CooldownOf(a) \in Nat
      BY CooldownIsMin DEF AlertRecord
    <3>2. h.kept.last[a.kind] # Never /\ a.at - h.kept.last[a.kind] < CooldownOf(a)
      BY <1>3, <2>2, <3>1 DEF Cooling
    <3>3. a.kind \in AlertKinds
      BY DEF AlertRecord
    <3>4. PICK j \in 1 .. Len(h.raised) :
             h.raised[j].kind = a.kind /\ h.raised[j].at = h.kept.last[a.kind]
      BY <3>2, <3>3 DEF IsTrueHistory, LastIsLatest
    <3> QED BY <3>2, <3>4
  <2> QED BY <1>2, <2>1, <2>2
<1>4. CASE ~Cooling(h.kept.last, a)
  <2>1. Emit(h, a).raised = Append(h.raised, a)
    BY <1>1, <1>4, EmitFields
  <2>2. /\ Len(Append(h.raised, a)) = Len(h.raised) + 1
        /\ \A i \in 1 .. Len(h.raised) : Append(h.raised, a)[i] = h.raised[i]
        /\ Append(h.raised, a)[Len(h.raised) + 1] = a
    BY <1>2, AppendProperties
  <2>3. /\ Len(h.raised) + 1 \in 1 .. Len(h.raised) + 1
        /\ 1 .. Len(h.raised) \subseteq 1 .. Len(h.raised) + 1
    BY <1>2
  <2> QED BY <1>2, <2>1, <2>2, <2>3
<1> QED BY <1>3, <1>4

\* The stages of an evaluation: what there was before, and after each alert.
LEMMA StagesOfEvaluation ==
    ASSUME NEW first, NEW due, Len(due) \in Nat
    PROVE  /\ Evaluated(first, due)[0] = first
           /\ \A i \in 1 .. Len(due) :
                Evaluated(first, due)[i] = Emit(Evaluated(first, due)[i - 1], due[i])
<1> DEFINE n == Len(due)
           Step(f, i) == IF i = 0 THEN first ELSE Emit(f[i - 1], due[i])
           Upto(k, f) == f = [i \in 0 .. k |-> Step(f, i)]
           Bad == {k \in 0 .. n : ~ \E f : Upto(k, f)}
<1>1. Bad = {}
  <2>1. SUFFICES ASSUME Bad # {} PROVE FALSE
    OBVIOUS
  <2>2. PICK k \in Bad : \A m \in Bad : ~(m < k)
    <3>1. Bad \subseteq Nat
      OBVIOUS
    <3> HIDE DEF Bad
    <3> QED BY <2>1, <3>1, LeastOf
  <2>3. k \in 0 .. n /\ \A f : ~Upto(k, f)
    BY <2>2
  <2>4. CASE k = 0
    <3> DEFINE f == [i \in 0 .. 0 |-> first]
    <3>1. \A i \in 0 .. 0 : Step(f, i) = first
      OBVIOUS
    <3>2. Upto(0, f)
      BY <3>1
    <3> QED BY <2>3, <2>4, <3>2
  <2>5. CASE k # 0
    <3>1. k - 1 \in 0 .. n /\ k - 1 < k /\ k \in Nat
      BY <2>3, <2>5
    <3>2. k - 1 \notin Bad
      BY <2>2, <3>1
    <3>3. \E f : Upto(k - 1, f)
      BY <3>1, <3>2
    <3>4. PICK f : Upto(k - 1, f)
      BY <3>3
    <3> DEFINE g == [i \in 0 .. k |-> IF i = k THEN Emit(f[k - 1], due[k]) ELSE f[i]]
    <3>5. g[k] = Emit(f[k - 1], due[k]) /\ \A i \in 0 .. k : i # k => g[i] = f[i]
      BY <3>1
    <3>6. ASSUME NEW i \in 0 .. k PROVE g[i] = Step(g, i)
      <4>1. CASE i = k
        <5>1. g[k - 1] = f[k - 1]
          BY <3>1, <3>5
        <5> HIDE DEF g
        <5> QED BY <2>5, <3>5, <4>1, <5>1
      <4>2. CASE i # k
        <5>1. i \in 0 .. k - 1 /\ i \in Int /\ k \in Int
          BY <3>1, <4>2
        <5>2. f[i] = Step(f, i)
          BY <3>4, <5>1
        <5>3. i # 0 => i - 1 \in 0 .. k /\ i - 1 # k
          BY <5>1
        <5>4. i # 0 => g[i - 1] = f[i - 1]
          BY <3>5, <5>3
        <5>5. g[i] = f[i]
          BY <3>5, <4>2
        <5> HIDE DEF g
        <5> QED BY <5>2, <5>4, <5>5
      <4> QED BY <4>1, <4>2
    <3>7. DOMAIN g = 0 .. k /\ g = [i \in 0 .. k |-> g[i]]
      OBVIOUS
    <3>8. Upto(k, g)
      <4> HIDE DEF g, Step
      <4> QED BY <3>6, <3>7
    <3> QED BY <2>3, <3>8
  <2> QED BY <2>4, <2>5
<1>2. n \in 0 .. n
  OBVIOUS
<1>3. \E f : Upto(n, f)
  BY <1>1, <1>2
<1> DEFINE stage == Evaluated(first, due)
<1>4. stage = CHOOSE f : Upto(n, f)
  BY DEF Evaluated
<1>5. Upto(n, CHOOSE f : Upto(n, f))
  <2> HIDE DEF Upto
  <2> QED BY <1>3, Zenon
<1>6. Upto(n, stage)
  <2> HIDE DEF Upto, stage
  <2> QED BY <1>4, <1>5, Zenon
<1> HIDE DEF stage
<1>7. \A i \in 0 .. n : stage[i] = Step(stage, i)
  BY <1>6
<1>8. 0 \in 0 .. n /\ \A i \in 1 .. n : i \in 0 .. n /\ i # 0
  OBVIOUS
<1>9. stage[0] = first
  BY <1>7, <1>8
<1>10. \A i \in 1 .. n : stage[i] = Emit(stage[i - 1], due[i])
  BY <1>7, <1>8
<1> QED BY <1>9, <1>10 DEF stage

\* An alert changes nothing of the denials.
LEMMA EmitKeepsLog == ASSUME NEW h, NEW a PROVE Emit(h, a).log = h.log
BY DEF Emit

\* The alerts that are due, each of what it counts
AreFound(found, entries) ==
    /\ Len(found) \in Nat /\ DOMAIN found = 1 .. Len(found)
    /\ \A i \in 1 .. Len(found) : found[i] \in AlertRecord /\ IsCounted(found[i], entries)
\* and each with the time at which its turn comes
AreDue(due, entries, clock) ==
    /\ Len(due) \in Nat /\ clock \in [0 .. Len(due) -> Nat]
    /\ \A i \in 1 .. Len(due) :
         /\ clock[i - 1] <= clock[i] /\ clock[0] <= clock[i]
         /\ due[i] \in AlertRecord /\ due[i].at = clock[i] /\ IsCounted(due[i], entries)

\* Alerts that are found are due at the times the clock is read.
LEMMA FoundAreDue ==
    ASSUME NEW entries, NEW found, AreFound(found, entries), NEW begun \in Nat,
           NEW clock \in Readings(Len(found), begun)
    PROVE  /\ AreDue(FiredAt(found, clock), entries, clock)
           /\ Len(FiredAt(found, clock)) = Len(found) /\ clock[0] = begun
           /\ \A i \in 1 .. Len(found) : /\ FiredAt(found, clock)[i].kind = found[i].kind
                                         /\ FiredAt(found, clock)[i].window = found[i].window
<1> DEFINE n == Len(found)
           due == FiredAt(found, clock)
<1>1. n \in Nat /\ DOMAIN found = 1 .. n
      /\ \A i \in 1 .. n : found[i] \in AlertRecord /\ IsCounted(found[i], entries)
  BY DEF AreFound
<1>2. /\ clock \in [0 .. n -> begun .. Latest] /\ clock[0] = begun
      /\ \A i \in 1 .. n : clock[i - 1] <= clock[i]
  BY DEF Readings
<1>3. due = [i \in 1 .. n |-> [found[i] EXCEPT !.at = clock[i]]]
  BY <1>1 DEF FiredAt
<1> HIDE DEF n, due
<1>4. \A i \in 0 .. n : clock[i] \in Nat /\ begun <= clock[i]
  <2>1. \A x \in begun .. Latest : x \in Nat /\ begun <= x
    OBVIOUS
  <2> QED BY <1>2, <2>1
<1>5. clock \in [0 .. n -> Nat]
  BY <1>2, <1>4
<1>6. ASSUME NEW i \in 1 .. n
      PROVE  /\ due[i] \in AlertRecord /\ due[i].at = clock[i] /\ IsCounted(due[i], entries)
             /\ due[i].kind = found[i].kind /\ due[i].window = found[i].window
  <2>1. found[i] \in AlertRecord /\ clock[i] \in Nat /\ IsCounted(found[i], entries)
    BY <1>1, <1>4
  <2> DEFINE f == found[i]
             a == [f EXCEPT !.at = clock[i]]
  <2>2. due[i] = a
    BY <1>3
  <2>3. /\ a \in AlertRecord /\ a.at = clock[i] /\ a.asOf = f.asOf /\ a.kind = f.kind
        /\ a.window = f.window /\ a.required = f.required /\ a.observed = f.observed
        /\ a.tool = f.tool
    <3> HIDE DEF f
    <3>1. f \in AlertRecord
      BY <2>1 DEF f
    <3> QED BY <2>1, <3>1 DEF AlertRecord
  <2> HIDE DEF a
  <2>4. Within(a, entries) = Within(f, entries)
    BY <2>3 DEF Within
  <2>5. IsCounted(a, entries)
    BY <2>1, <2>3, <2>4 DEF IsCounted
  <2> QED BY <2>2, <2>3, <2>5 DEF f
<1>7. Len(due) = n
  <2>1. due \in [1 .. n -> AlertRecord]
    BY <1>3, <1>6
  <2> QED BY <1>1, <2>1, FunctionIsSeq
<1>8. \A i \in 1 .. n : clock[i - 1] <= clock[i] /\ clock[0] <= clock[i]
  BY <1>1, <1>2, <1>4
<1>9. AreDue(due, entries, clock)
  BY <1>1, <1>5, <1>6, <1>7, <1>8 DEF AreDue
<1> QED BY <1>2, <1>6, <1>7, <1>9 DEF due, n

\* A later clock changes nothing of a history.
LEMMA HistoryAges ==
    ASSUME NEW h, NEW now \in Nat, IsTrueHistory(h, now), NEW later \in Nat, now <= later
    PROVE  IsTrueHistory(h, later)
<1>1. h \in Told
  BY DEF IsTrueHistory
<1>2. h.log \in Seq(DenialEvent) /\ h.kept.last \in [AlertKinds -> Nat \cup {Never}]
  BY <1>1, ToldFields
<1>3. \A i \in 1 .. Len(h.log) : h.log[i].at \in Nat
  <2>1. \A i \in 1 .. Len(h.log) : h.log[i] \in DenialEvent
    BY <1>2, ElementOfSeq
  <2> QED BY <2>1 DEF DenialEvent
<1>4. InOrder(h.log, now)
  BY DEF IsTrueHistory
<1>5. InOrder(h.log, later)
  <2>1. \A i \in 1 .. Len(h.log) : h.log[i].at <= later
    <3>1. \A x \in Nat : x <= now => x <= later
      OBVIOUS
    <3>2. \A i \in 1 .. Len(h.log) : h.log[i].at <= now
      BY <1>4 DEF InOrder
    <3> QED BY <1>3, <3>1, <3>2
  <2> QED BY <1>4, <2>1 DEF InOrder
<1>6. LastIsLatest(h.kept.last, h.raised, now)
  BY DEF IsTrueHistory
<1>7. \A k \in AlertKinds : h.kept.last[k] # Never => h.kept.last[k] \in Nat
  BY <1>2
<1>8. \A k \in AlertKinds : h.kept.last[k] # Never => h.kept.last[k] <= later
  BY <1>6, <1>7 DEF LastIsLatest
<1>9. LastIsLatest(h.kept.last, h.raised, later)
  BY <1>6, <1>8 DEF LastIsLatest
<1> QED BY <1>5, <1>9 DEF IsTrueHistory

\* Each stage is a true history.
LEMMA StagesAreTrue ==
    ASSUME NEW first, NEW clock, IsTrueHistory(first, clock[0]),
           NEW due, AreDue(due, first.log, clock)
    PROVE  \A i \in 0 .. Len(due) :
             /\ IsTrueHistory(Evaluated(first, due)[i], clock[i])
             /\ Evaluated(first, due)[i].log = first.log
<1> DEFINE stage == Evaluated(first, due)
           Good(i) == IsTrueHistory(stage[i], clock[i]) /\ stage[i].log = first.log
           Bad == {i \in 0 .. Len(due) : ~Good(i)}
<1>0. Len(due) \in Nat
  BY DEF AreDue
<1>1. stage[0] = first /\ \A i \in 1 .. Len(due) : stage[i] = Emit(stage[i - 1], due[i])
  BY <1>0, StagesOfEvaluation
<1> HIDE DEF stage
<1>2. Bad = {}
  <2>1. SUFFICES ASSUME Bad # {} PROVE FALSE
    OBVIOUS
  <2>2. PICK k \in Bad : \A m \in Bad : ~(m < k)
    <3>1. Bad \subseteq Nat
      BY <1>0
    <3> HIDE DEF Bad
    <3> QED BY <2>1, <3>1, LeastOf
  <2>3. k \in 0 .. Len(due) /\ ~Good(k)
    BY <2>2
  <2>4. k # 0
    BY <1>1, <2>3
  <2>5. k \in 1 .. Len(due) /\ k - 1 \in 0 .. Len(due) /\ k - 1 < k
    BY <1>0, <2>3, <2>4
  <2>6. k - 1 \notin Bad
    BY <2>2, <2>5
  <2>7. Good(k - 1)
    BY <2>5, <2>6
  <2>8. stage[k] = Emit(stage[k - 1], due[k])
    BY <1>1, <2>5
  <2>9. /\ due[k] \in AlertRecord /\ due[k].at = clock[k]
        /\ IsCounted(due[k], stage[k - 1].log)
        /\ clock[k] \in Nat /\ clock[k - 1] \in Nat /\ clock[k - 1] <= clock[k]
    BY <2>5, <2>7 DEF AreDue
  <2>12. IsTrueHistory(stage[k - 1], clock[k])
    BY <2>7, <2>9, HistoryAges
  <2>10. IsTrueHistory(stage[k], clock[k])
    BY <2>8, <2>9, <2>12, EmitIsTrue
  <2>11. stage[k].log = first.log
    BY <2>7, <2>8, EmitKeepsLog
  <2> QED BY <2>3, <2>10, <2>11
<1> QED BY <1>2 DEF stage

\* What was raised is there, at its place
StillThere(earlier, later) ==
    \A j \in 1 .. Len(earlier) : j \in 1 .. Len(later) /\ later[j] = earlier[j]

\* What is raised at a stage is there at every later one.
LEMMA RaisedStays ==
    ASSUME NEW first, NEW clock, IsTrueHistory(first, clock[0]),
           NEW due, AreDue(due, first.log, clock),
           NEW m \in 0 .. Len(due)
    PROVE  \A k \in m .. Len(due) :
             StillThere(Evaluated(first, due)[m].raised, Evaluated(first, due)[k].raised)
<1> DEFINE stage == Evaluated(first, due)
           Good(k) == StillThere(stage[m].raised, stage[k].raised)
           Bad == {k \in m .. Len(due) : ~Good(k)}
<1>0. Len(due) \in Nat
  BY DEF AreDue
<1>1. \A i \in 1 .. Len(due) : stage[i] = Emit(stage[i - 1], due[i])
  BY <1>0, StagesOfEvaluation
<1>2. \A i \in 0 .. Len(due) : IsTrueHistory(stage[i], clock[i])
  BY StagesAreTrue
<1> HIDE DEF stage
<1>3. Bad = {}
  <2>1. SUFFICES ASSUME Bad # {} PROVE FALSE
    OBVIOUS
  <2>2. PICK k \in Bad : \A i \in Bad : ~(i < k)
    <3>1. Bad \subseteq Nat
      BY <1>0
    <3> HIDE DEF Bad
    <3> QED BY <2>1, <3>1, LeastOf
  <2>3. k \in m .. Len(due) /\ ~Good(k)
    BY <2>2
  <2>4. k # m
    BY <2>3 DEF StillThere
  <2>5. k \in 1 .. Len(due) /\ k - 1 \in m .. Len(due) /\ k - 1 < k /\ k - 1 \in 0 .. Len(due)
    BY <1>0, <2>3, <2>4
  <2>6. k - 1 \notin Bad
    BY <2>2, <2>5
  <2>7. Good(k - 1)
    BY <2>5, <2>6
  <2>8. stage[k] = Emit(stage[k - 1], due[k])
    BY <1>1, <2>5
  <2>9. /\ IsTrueHistory(stage[k - 1], clock[k - 1]) /\ due[k] \in AlertRecord
        /\ due[k].at = clock[k]
        /\ clock[k] \in Nat /\ clock[k - 1] \in Nat /\ clock[k - 1] <= clock[k]
    <3>1. k \in 0 .. Len(due) /\ clock \in [0 .. Len(due) -> Nat]
      BY <1>0, <2>5 DEF AreDue
    <3>2. clock[k] \in Nat /\ clock[k - 1] \in Nat
      BY <2>5, <3>1
    <3>3. IsTrueHistory(stage[k - 1], clock[k - 1])
      BY <1>2, <2>5
    <3>4. due[k] \in AlertRecord /\ due[k].at = clock[k] /\ clock[k - 1] <= clock[k]
      BY <2>5 DEF AreDue
    <3> QED BY <3>2, <3>3, <3>4
  <2>12. IsTrueHistory(stage[k - 1], clock[k])
    BY <2>9, HistoryAges
  <2>10. \A j \in 1 .. Len(stage[k - 1].raised) :
           j \in 1 .. Len(stage[k].raised) /\ stage[k].raised[j] = stage[k - 1].raised[j]
    <3> DEFINE h == stage[k - 1]
               a == due[k]
               now == clock[k]
    <3>1. now \in Nat /\ IsTrueHistory(h, now) /\ a \in AlertRecord /\ a.at = now
      BY <2>9, <2>12
    <3> HIDE DEF h, a, now
    <3>2. \A j \in 1 .. Len(h.raised) :
            j \in 1 .. Len(Emit(h, a).raised) /\ Emit(h, a).raised[j] = h.raised[j]
      BY <3>1, EmitRaises
    <3> QED BY <2>8, <3>2 DEF h, a
  <2>11. Good(k)
    BY <2>7, <2>10 DEF StillThere
  <2> QED BY <2>3, <2>11
<1> QED BY <1>3 DEF stage

\* Whatever is due, an alert of its kind is raised from then on or was cooling
\* down then.
LEMMA DueIsAnswered ==
    ASSUME NEW first, NEW clock, IsTrueHistory(first, clock[0]),
           NEW due, AreDue(due, first.log, clock),
           NEW m \in 1 .. Len(due), CooldownOf(due[m]) > 0
    PROVE  \E j \in 1 .. Len(Evaluated(first, due)[Len(due)].raised) :
             /\ Evaluated(first, due)[Len(due)].raised[j].kind = due[m].kind
             /\ clock[0] - Evaluated(first, due)[Len(due)].raised[j].at < CooldownOf(due[m])
<1> DEFINE stage == Evaluated(first, due)
           n == Len(due)
<1>0. Len(due) \in Nat
  BY DEF AreDue
<1>1. stage[m] = Emit(stage[m - 1], due[m])
  BY <1>0, StagesOfEvaluation
<1>2. m - 1 \in 0 .. n /\ m \in 0 .. n /\ n \in m .. n
  BY <1>0
<1>3. \A i \in 0 .. n : IsTrueHistory(stage[i], clock[i])
  BY StagesAreTrue
<1>4. \A j \in 1 .. Len(stage[m].raised) :
        j \in 1 .. Len(stage[n].raised) /\ stage[n].raised[j] = stage[m].raised[j]
  <2>1. \A k \in m .. n : StillThere(stage[m].raised, stage[k].raised)
    BY <1>2, RaisedStays
  <2> HIDE DEF stage
  <2> QED BY <1>2, <2>1 DEF StillThere
<1> HIDE DEF stage
<1>5. /\ IsTrueHistory(stage[m - 1], clock[m - 1]) /\ due[m] \in AlertRecord
      /\ due[m].at = clock[m] /\ clock[0] \in Nat /\ clock[0] <= clock[m]
      /\ clock[m] \in Nat /\ clock[m - 1] \in Nat /\ clock[m - 1] <= clock[m]
  <2>1. clock \in [0 .. n -> Nat] /\ 0 \in 0 .. n
    BY <1>0 DEF AreDue
  <2>2. clock[0] \in Nat /\ clock[m] \in Nat /\ clock[m - 1] \in Nat
    BY <1>2, <2>1
  <2>3. /\ due[m] \in AlertRecord /\ due[m].at = clock[m]
        /\ clock[0] <= clock[m] /\ clock[m - 1] <= clock[m]
    BY DEF AreDue
  <2>4. IsTrueHistory(stage[m - 1], clock[m - 1])
    BY <1>2, <1>3
  <2> QED BY <2>2, <2>3, <2>4
<1>7. IsTrueHistory(stage[m - 1], clock[m]) /\ IsTrueHistory(stage[m], clock[m])
  BY <1>2, <1>3, <1>5, HistoryAges
<1>6. PICK j \in 1 .. Len(stage[m].raised) :
         /\ stage[m].raised[j].kind = due[m].kind
         /\ \/ stage[m].raised[j].at = clock[m]
            \/ clock[m] - stage[m].raised[j].at < CooldownOf(due[m])
  <2> DEFINE h == stage[m - 1]
             a == due[m]
             now == clock[m]
  <2>1. /\ now \in Nat /\ IsTrueHistory(h, now) /\ a \in AlertRecord /\ a.at = now
        /\ CooldownOf(a) > 0
    BY <1>5, <1>7
  <2> HIDE DEF h, a, now
  <2>2. \E j \in 1 .. Len(Emit(h, a).raised) :
           /\ Emit(h, a).raised[j].kind = a.kind
           /\ \/ Emit(h, a).raised[j].at = now
              \/ now - Emit(h, a).raised[j].at < CooldownOf(a)
    BY <2>1, EmitRaises
  <2> QED BY <1>1, <2>2 DEF h, a, now
<1>8. clock[0] - stage[m].raised[j].at < CooldownOf(due[m])
  <2>1. stage[m].raised[j].at \in Nat
    <3>1. stage[m] \in Told
      BY <1>7 DEF IsTrueHistory
    <3>2. stage[m].raised[j] \in AlertRecord
      BY <3>1, ToldFields, ElementOfSeq
    <3> QED BY <3>2 DEF AlertRecord
  <2>2. CooldownOf(due[m]) \in Nat
    BY <1>5, CooldownIsMin DEF AlertRecord
  <2> QED BY <1>5, <1>6, <2>1, <2>2
<1> QED BY <1>4, <1>6, <1>8 DEF stage

-----------------------------------------------------------------------------
(* The discovery alerts: a denied call.                                    *)

\* The rules of the policy are rules.
LEMMA RuleListIsSeq ==
    ASSUME NEW rules \in RuleLists
    PROVE  /\ rules \in Seq(AllRules) /\ Len(rules) \in Nat /\ DOMAIN rules = 1 .. Len(rules)
           /\ \A i \in 1 .. Len(rules) : rules[i] \in AllRules
<1>1. rules \in Seq(AllRules)
  BY DiscoveryAssumption
<1> QED BY <1>1, LenProperties, ElementOfSeq

\* What is due is due, and a rule with enough denials has an alert.
LEMMA DueAlerts ==
    ASSUME ruleList \in RuleLists,
           NEW entries \in Seq(DenialEvent), NEW now \in Nat, InOrder(entries, now)
    PROVE  /\ AreFound(Due(NewestOf(entries), now), entries)
           /\ \A i \in 1 .. Len(ruleList) :
                Len(CountedBy(ruleList[i], NewestOf(entries), now)) >= Required(ruleList[i]) =>
                  \E m \in 1 .. Len(Due(NewestOf(entries), now)) :
                     /\ Due(NewestOf(entries), now)[m].kind = KindOf(ruleList[i])
                     /\ Due(NewestOf(entries), now)[m].window = WindowOf(ruleList[i])
<1> DEFINE events == NewestOf(entries)
           I == {i \in DOMAIN ruleList :
                    Len(CountedBy(ruleList[i], events, now)) >= Required(ruleList[i])}
           enough == Picked(ruleList, I)
           due == Due(events, now)
<1>1. /\ ruleList \in Seq(AllRules) /\ Len(ruleList) \in Nat
      /\ DOMAIN ruleList = 1 .. Len(ruleList)
      /\ \A i \in 1 .. Len(ruleList) : ruleList[i] \in AllRules
  BY RuleListIsSeq
<1>2. I \subseteq 1 .. Len(ruleList)
  BY <1>1
<1>3. /\ Len(enough) = Cardinality(I) /\ Cardinality(I) \in 0 .. Len(ruleList)
      /\ DOMAIN enough = 1 .. Cardinality(I)
      /\ \A i \in I : Rank(I, i) \in DOMAIN enough /\ enough[Rank(I, i)] = ruleList[i]
      /\ \A k \in DOMAIN enough : Nth(I, k) \in I /\ enough[k] = ruleList[Nth(I, k)]
  <2> HIDE DEF I
  <2> QED BY <1>1, <1>2, PickedElements
<1>4. due = [k \in 1 .. Cardinality(I) |-> AlertOn(enough[k], events, now)]
  BY <1>3 DEF Due
<1>5. Cardinality(I) \in Nat
  BY <1>1, <1>3
<1> HIDE DEF I, enough, due
<1>6. DOMAIN due = 1 .. Cardinality(I) /\ Len(due) = Cardinality(I)
      /\ \A k \in 1 .. Cardinality(I) : due[k] = AlertOn(enough[k], events, now)
  <2>1. DOMAIN due = 1 .. Cardinality(I)
        /\ \A k \in 1 .. Cardinality(I) : due[k] = AlertOn(enough[k], events, now)
    BY <1>4
  <2> DEFINE X == {due[k] : k \in 1 .. Cardinality(I)}
  <2>2. due \in [1 .. Cardinality(I) -> X]
    BY <1>4, <2>1
  <2>3. Len(due) = Cardinality(I)
    <3> HIDE DEF X
    <3> QED BY <1>5, <2>2, FunctionIsSeq
  <2> QED BY <2>1, <2>3
<1>7. ASSUME NEW k \in 1 .. Cardinality(I)
      PROVE  due[k] \in AlertRecord /\ IsCounted(due[k], entries)
  <2> DEFINE rule == ruleList[Nth(I, k)]
  <2>1. Nth(I, k) \in I /\ enough[k] = rule
    BY <1>3
  <2>2. rule \in AllRules /\ Len(CountedBy(rule, events, now)) >= Required(rule)
    BY <1>1, <1>2, <2>1 DEF I
  <2> HIDE DEF rule
  <2>3. /\ AlertOn(rule, events, now) \in AlertRecord
        /\ IsCounted(AlertOn(rule, events, now), entries)
    BY <2>2, AlertsSpeakOfDenials
  <2> QED BY <1>6, <2>1, <2>3
<1>8. AreFound(due, entries)
  BY <1>5, <1>6, <1>7 DEF AreFound
<1>9. ASSUME NEW i \in 1 .. Len(ruleList),
             Len(CountedBy(ruleList[i], events, now)) >= Required(ruleList[i])
      PROVE  \E m \in 1 .. Len(due) : /\ due[m].kind = KindOf(ruleList[i])
                                      /\ due[m].window = WindowOf(ruleList[i])
  <2> DEFINE rule == ruleList[i]
  <2>1. i \in I
    BY <1>1, <1>9 DEF I
  <2>2. Rank(I, i) \in 1 .. Cardinality(I) /\ enough[Rank(I, i)] = rule
    BY <1>3, <2>1
  <2>3. rule \in AllRules /\ Len(CountedBy(rule, events, now)) >= Required(rule)
    BY <1>1, <1>9
  <2> HIDE DEF rule
  <2>4. /\ AlertOn(rule, events, now).kind = KindOf(rule)
        /\ AlertOn(rule, events, now).window = WindowOf(rule)
    BY <2>3, AlertsSpeakOfDenials
  <2>5. due[Rank(I, i)] = AlertOn(rule, events, now) /\ Rank(I, i) \in 1 .. Len(due)
    BY <1>6, <2>2
  <2> QED BY <2>4, <2>5 DEF rule
<1> QED BY <1>8, <1>9 DEF due

\* A denial that is kept leaves a true history.
LEMMA DenialIsKept ==
    ASSUME NEW h, NEW now \in Nat, IsTrueHistory(h, now), NEW d \in Denials, NEW kept,
           kept = [h.kept EXCEPT !.denied = FirstOf(<<[call |-> d, at |-> now]>> \o @, EventsKept)]
    PROVE  /\ IsTrueHistory([kept |-> kept, raised |-> h.raised,
                             log |-> Append(h.log, [call |-> d, at |-> now])], now)
           /\ kept.denied = NewestOf(Append(h.log, [call |-> d, at |-> now]))
<1> DEFINE e == [call |-> d, at |-> now]
           entries == Append(h.log, e)
           n == Len(h.log)
           first == [kept |-> kept, raised |-> h.raised, log |-> entries]
<1>1. h \in Told
  BY DEF IsTrueHistory
<1>2. /\ h.kept \in Memory /\ h.log \in Seq(DenialEvent) /\ h.raised \in Seq(AlertRecord)
      /\ h.kept.denied \in Seq(DenialEvent) /\ n \in Nat
  BY <1>1, ToldFields, LenProperties
<1>3. e \in DenialEvent /\ e.at = now
  BY DEF DenialEvent
<1> HIDE DEF e
<1>4. /\ entries \in Seq(DenialEvent) /\ Len(entries) = n + 1
      /\ \A i \in 1 .. n : entries[i] = h.log[i]
      /\ entries[n + 1] = e
  BY <1>2, <1>3, AppendProperties
<1>5. EventsKept \in Nat \ {0}
  BY DiscoveryAssumption
<1>6. h.kept.denied = NewestOf(h.log)
  BY DEF IsTrueHistory
<1>7. FirstOf(<<e>> \o h.kept.denied, EventsKept) = NewestOf(entries)
  BY <1>2, <1>3, <1>5, <1>6, PushIsReverse DEF NewestOf
<1>8. NewestOf(entries) \in Seq(DenialEvent)
  <2> HIDE DEF entries
  <2> QED BY <1>4, NewestEntries
<1>9. kept \in Memory /\ kept.denied = NewestOf(entries)
      /\ kept.last = h.kept.last /\ kept.alerts = h.kept.alerts
  <2>1. kept = [h.kept EXCEPT !.denied = NewestOf(entries)]
    BY <1>7 DEF e
  <2> HIDE DEF entries
  <2> QED BY <1>2, <1>8, <2>1 DEF Memory
<1> HIDE DEF entries
<1>10. first \in Told
  BY <1>2, <1>4, <1>9 DEF Told
<1>11. first.kept = kept /\ first.raised = h.raised /\ first.log = entries
  OBVIOUS
<1>12. InOrder(entries, now)
  <2>1. /\ \A i \in 1 .. n : h.log[i].at <= now
        /\ \A i, j \in 1 .. n : i <= j => h.log[i].at <= h.log[j].at
    BY DEF IsTrueHistory, InOrder
  <2>2. \A i \in 1 .. n : entries[i].at = h.log[i].at
    BY <1>4
  <2>3. entries[n + 1].at = now
    BY <1>3, <1>4
  <2>4. \A i \in 1 .. n + 1 : i \in 1 .. n \/ i = n + 1
    BY <1>2
  <2> HIDE DEF n
  <2>5. \A i \in 1 .. n + 1 : entries[i].at <= now
    BY <2>1, <2>2, <2>3, <2>4
  <2>6. \A i, j \in 1 .. n + 1 : i <= j => entries[i].at <= entries[j].at
    <3> SUFFICES ASSUME NEW i \in 1 .. n + 1, NEW j \in 1 .. n + 1, i <= j
                 PROVE  entries[i].at <= entries[j].at
      OBVIOUS
    <3>1. CASE j = n + 1
      BY <2>3, <2>5, <3>1
    <3>2. CASE j # n + 1
      <4>1. n \in Nat
        BY <1>2 DEF n
      <4>2. i \in 1 .. n /\ j \in 1 .. n
        BY <3>2, <4>1
      <4> QED BY <2>1, <2>2, <4>2
    <3> QED BY <3>1, <3>2
  <2> QED BY <1>4, <2>5, <2>6 DEF InOrder, n
<1>13. \A j \in 1 .. Len(h.raised) : IsCounted(h.raised[j], entries)
  <2> SUFFICES ASSUME NEW j \in 1 .. Len(h.raised) PROVE IsCounted(h.raised[j], entries)
    OBVIOUS
  <2>1. h.raised[j] \in AlertRecord
    BY <1>2, ElementOfSeq
  <2>2. IsCounted(h.raised[j], h.log)
    BY DEF IsTrueHistory
  <2> QED BY <1>2, <1>3, <2>1, <2>2, CountedStays DEF entries
<1>14. /\ h.kept.alerts = FirstOf(Reverse(h.raised), AlertsKept)
       /\ LastIsLatest(h.kept.last, h.raised, now) /\ Apart(h.raised)
  BY DEF IsTrueHistory
<1> HIDE DEF first
<1>15. IsTrueHistory(first, now)
  BY <1>9, <1>10, <1>11, <1>12, <1>13, <1>14 DEF IsTrueHistory
<1> QED BY <1>9, <1>15 DEF first, entries, e

\* No rule whose threshold was reached is without an alert.
BurstOf(rule, entries, now) ==
    {k \in DOMAIN entries :
        LET e == entries[k]
        IN  /\ e.at \in (now - WindowOf(rule) + TicksPerSecond - 1) .. now
            /\ e.call.tool \in rule.scope \/ rule.scope = {}
            /\ Matches(rule.signal, e.call)}
BurstAnswered(rule, entries, raised, now) ==
    /\ Cardinality(BurstOf(rule, entries, now)) >= Required(rule)
    /\ Cardinality({k \in DOMAIN entries :
                       entries[k].at >= now - WindowOf(rule)}) <= EventsKept
    /\ Min({WindowOf(rule), CooldownTicks}) > 0
    => \E j \in DOMAIN raised :
           /\ raised[j].kind = KindOf(rule)
           /\ now - raised[j].at < Min({WindowOf(rule), CooldownTicks})
BurstsAnswered(rules, entries, raised, now) ==
    \A i \in DOMAIN rules : BurstAnswered(rules[i], entries, raised, now)

LEMMA NoBurstIsLeft ==
    ASSUME ruleList \in RuleLists, NEW now \in Nat, NEW first, IsTrueHistory(first, now),
           NEW found, found = Due(NewestOf(first.log), now),
           NEW clock \in Readings(Len(found), now), NEW due, due = FiredAt(found, clock),
           NEW last, last = Evaluated(first, due)[Len(due)]
    PROVE  BurstsAnswered(ruleList, first.log, last.raised, now)
<1> DEFINE entries == first.log
           stage == Evaluated(first, due)
<1>1. first \in Told /\ InOrder(entries, now)
  BY DEF IsTrueHistory
<1>2. entries \in Seq(DenialEvent)
  BY <1>1, ToldFields
<1>3. /\ AreDue(due, entries, clock) /\ Len(due) = Len(found) /\ clock[0] = now
      /\ \A i \in 1 .. Len(found) : due[i].kind = found[i].kind /\ due[i].window = found[i].window
  <2>1. AreFound(found, entries)
    BY <1>1, <1>2, DueAlerts
  <2> HIDE DEF entries
  <2> QED BY <2>1, FoundAreDue
<1>4. Len(due) \in Nat
  BY <1>3 DEF AreDue
<1>5. IsTrueHistory(last, clock[Len(due)])
  <2>1. \A i \in 0 .. Len(due) : IsTrueHistory(stage[i], clock[i])
    BY <1>3, StagesAreTrue
  <2>2. Len(due) \in 0 .. Len(due)
    BY <1>4
  <2> QED BY <2>1, <2>2
<1>6. last.raised \in Seq(AlertRecord) /\ DOMAIN last.raised = 1 .. Len(last.raised)
  <2>1. last \in Told
    BY <1>5 DEF IsTrueHistory
  <2> QED BY <2>1, ToldFields, LenProperties
<1>7. DOMAIN entries = 1 .. Len(entries) /\ DOMAIN ruleList = 1 .. Len(ruleList)
  BY <1>2, RuleListIsSeq, LenProperties
<1> SUFFICES ASSUME NEW i \in 1 .. Len(ruleList), NEW rule, rule = ruleList[i]
             PROVE  BurstAnswered(rule, entries, last.raised, now)
  <2> HIDE DEF entries
  <2> QED BY <1>7 DEF BurstsAnswered, entries
<1> SUFFICES ASSUME Cardinality(BurstOf(rule, entries, now)) >= Required(rule),
                    Cardinality({k \in DOMAIN entries :
                               entries[k].at >= now - WindowOf(rule)}) <= EventsKept,
                    Min({WindowOf(rule), CooldownTicks}) > 0
             PROVE  \E j \in DOMAIN last.raised :
                       /\ last.raised[j].kind = KindOf(rule)
                       /\ now - last.raised[j].at < Min({WindowOf(rule), CooldownTicks})
  BY Zenon DEF BurstAnswered
<1>8. rule \in AllRules
  BY RuleListIsSeq
<1>9. WindowOf(rule) \in Nat \ {0} /\ Required(rule) \in Nat \ {0}
  BY <1>8, RulesAreReadable
<1>10. \A k \in 1 .. Len(entries) : entries[k].at \in Nat /\ entries[k].at <= now
  <2>1. \A k \in 1 .. Len(entries) : entries[k] \in DenialEvent
    BY <1>2, ElementOfSeq
  <2> QED BY <1>1, <2>1 DEF DenialEvent, InOrder
<1> DEFINE burst == BurstOf(rule, entries, now)
<1>11. burst \in SUBSET CountedIn(rule, entries, now)
  <2>1. ASSUME NEW k \in 1 .. Len(entries),
               entries[k].at \in (now - WindowOf(rule) + TicksPerSecond - 1) .. now
        PROVE  Stamp(entries[k]) >= now - WindowOf(rule)
    <3>1. entries[k].at \in Nat /\ entries[k].at >= now - WindowOf(rule) + TicksPerSecond - 1
      BY <1>10, <2>1
    <3>2. /\ Stamp(entries[k]) \in Int /\ entries[k].at <= Stamp(entries[k]) + TicksPerSecond - 1
          /\ TicksPerSecond \in Nat
      BY <3>1, StampIsFloor
    <3> DEFINE s == Stamp(entries[k])
               w == WindowOf(rule)
    <3>3. w \in Nat /\ s \in Int
      BY <1>9, <3>2
    <3> HIDE DEF s, w
    <3>4. /\ entries[k].at \in Nat /\ entries[k].at >= now - w + TicksPerSecond - 1
          /\ entries[k].at <= s + TicksPerSecond - 1 /\ TicksPerSecond \in Nat
      BY <3>1, <3>2 DEF s, w
    <3>5. s >= now - w
      <4> HIDE DEF entries
      <4> QED BY <3>3, <3>4
    <3> QED BY <3>5 DEF s, w
  <2> HIDE DEF entries
  <2> QED BY <1>7, <2>1 DEF CountedIn, Counts, BurstOf
<1>12. Cardinality(CountedIn(rule, entries, now)) >= Required(rule)
  <2> DEFINE J == CountedIn(rule, entries, now)
  <2>1. Cardinality(burst) >= Required(rule)
    OBVIOUS
  <2>2. J \subseteq 1 .. Len(entries) /\ Len(entries) \in Nat
    BY <1>2, LenProperties DEF CountedIn
  <2>3. burst \in SUBSET J
    BY <1>11
  <2> HIDE DEF burst, J, entries
  <2>4. IsFiniteSet(J) /\ Cardinality(J) \in Nat
    BY <2>2, IndexesAreFinite
  <2>5. Cardinality(burst) <= Cardinality(J) /\ Cardinality(burst) \in Nat
    BY <2>3, <2>4, FS_Subset, FS_CardinalityType
  <2>6. Cardinality(J) >= Required(rule)
    BY <1>9, <2>1, <2>4, <2>5
  <2> QED BY <2>6 DEF J
<1>13. Cardinality({k \in 1 .. Len(entries) : entries[k].at >= now - WindowOf(rule)}) <= EventsKept
  BY <1>7
<1>14. Len(CountedBy(rule, NewestOf(entries), now)) >= Required(rule)
  <2> HIDE DEF entries
  <2> DEFINE c == CountedBy(rule, NewestOf(entries), now)
             J == CountedIn(rule, entries, now)
  <2>1. c \in Seq(DenialEvent) /\ IsFiniteSet(J) /\ Cardinality(J) <= Len(c)
    BY <1>1, <1>2, <1>8, <1>13, CountedOfLog
  <2>2. Len(c) \in Nat /\ Cardinality(J) \in Nat
    BY <2>1, LenProperties, FS_CardinalityType
  <2>3. Cardinality(J) >= Required(rule)
    BY <1>12
  <2> HIDE DEF c, J
  <2>4. Len(c) >= Required(rule)
    BY <1>9, <2>1, <2>2, <2>3
  <2> QED BY <2>4 DEF c
<1>15. PICK m \in 1 .. Len(due) : due[m].kind = KindOf(rule) /\ due[m].window = WindowOf(rule)
  <2>1. PICK m \in 1 .. Len(found) :
           found[m].kind = KindOf(rule) /\ found[m].window = WindowOf(rule)
    BY <1>1, <1>2, <1>14, DueAlerts
  <2> QED BY <1>3, <2>1
<1>16. CooldownOf(due[m]) = Min({WindowOf(rule), CooldownTicks})
  BY <1>15 DEF CooldownOf
<1>17. CooldownOf(due[m]) > 0
  BY <1>16
<1>18. PICK j \in 1 .. Len(last.raised) :
          /\ last.raised[j].kind = due[m].kind
          /\ now - last.raised[j].at < CooldownOf(due[m])
  <2>1. IsTrueHistory(first, clock[0]) /\ AreDue(due, first.log, clock)
    BY <1>3
  <2>2. \E j \in 1 .. Len(Evaluated(first, due)[Len(due)].raised) :
           /\ Evaluated(first, due)[Len(due)].raised[j].kind = due[m].kind
           /\ clock[0] - Evaluated(first, due)[Len(due)].raised[j].at < CooldownOf(due[m])
    BY <1>17, <2>1, DueIsAnswered
  <2>3. clock[0] = now
    BY <1>3
  <2>4. PICK j \in 1 .. Len(Evaluated(first, due)[Len(due)].raised) :
           /\ Evaluated(first, due)[Len(due)].raised[j].kind = due[m].kind
           /\ clock[0] - Evaluated(first, due)[Len(due)].raised[j].at < CooldownOf(due[m])
    BY <2>2
  <2>5. /\ j \in 1 .. Len(last.raised) /\ last.raised[j].kind = due[m].kind
        /\ now - last.raised[j].at < CooldownOf(due[m])
    BY <2>3, <2>4
  <2> QED BY <2>5
<1> QED BY <1>6, <1>15, <1>16, <1>18

\* Nothing kept is what there was before anything happened.
LEMMA NothingIsTrue ==
    ASSUME NEW now \in Nat
    PROVE  IsTrueHistory(NoHistory, now)
<1> DEFINE last == [k \in AlertKinds |-> Never]
<1>1. NoHistory = [kept |-> [denied |-> <<>>, alerts |-> <<>>, last |-> last],
                   log |-> <<>>, raised |-> <<>>]
  BY DEF NoHistory, NothingKept, AlertKinds
<1>2. last \in [AlertKinds -> Nat \cup {Never}] /\ \A k \in AlertKinds : last[k] = Never
  OBVIOUS
<1> HIDE DEF last
<1>3. /\ NoHistory.log = <<>> /\ NoHistory.raised = <<>> /\ NoHistory.kept.denied = <<>>
      /\ NoHistory.kept.alerts = <<>> /\ NoHistory.kept.last = last
  BY <1>1
<1>4. <<>> \in Seq(DenialEvent) /\ <<>> \in Seq(AlertRecord) /\ Len(<<>>) = 0
  BY EmptySeq
<1>5. NoHistory \in Told
  BY <1>1, <1>2, <1>4 DEF Told, Memory
<1>6. NewestOf(<<>>) = <<>>
  <2> DEFINE s == NewestOf(<<>>)
  <2>1. s \in Seq(DenialEvent) /\ Len(s) = (IF EventsKept <= 0 THEN EventsKept ELSE 0)
    BY <1>4, NewestEntries
  <2>2. Len(s) = 0
    BY <2>1, DiscoveryAssumption
  <2> HIDE DEF s
  <2>3. s = <<>>
    BY <2>1, <2>2, EmptySeq
  <2> QED BY <2>3 DEF s
<1>7. FirstOf(Reverse(<<>>), AlertsKept) = <<>>
  <2> DEFINE e == <<>>
             r == Reverse(e)
             s == FirstOf(r, AlertsKept)
  <2>1. r \in Seq(AlertRecord) /\ Len(r) = 0
    BY <1>4, ReverseSeq
  <2>2. AlertsKept \in Nat \ {0}
    BY DiscoveryAssumption
  <2> HIDE DEF r
  <2>3. s \in Seq(AlertRecord) /\ Len(s) = (IF AlertsKept <= Len(r) THEN AlertsKept ELSE Len(r))
    BY <2>1, <2>2, FirstOfSeq
  <2>4. Len(s) = 0
    BY <2>1, <2>2, <2>3
  <2> HIDE DEF s
  <2>5. s = <<>>
    BY <2>3, <2>4, EmptySeq
  <2> QED BY <2>5 DEF s, r
<1>8. InOrder(<<>>, now) /\ Apart(<<>>) /\ LastIsLatest(last, <<>>, now)
  BY <1>2, <1>4 DEF InOrder, Apart, LastIsLatest
<1> HIDE DEF NoHistory
<1> QED BY <1>3, <1>4, <1>5, <1>6, <1>7, <1>8 DEF IsTrueHistory

\* A true history that is told field by field is the record of its fields.
LEMMA ToldIsRecord ==
    ASSUME NEW h \in Told
    PROVE  h = [kept |-> h.kept, log |-> h.log, raised |-> h.raised]
BY DEF Told

\* What is read back is what was saved.
LEMMA RestoredIsSaved ==
    ASSUME NEW h \in Told
    PROVE  [h EXCEPT !.kept = Restored(@)] = h
BY DEF Told, Restored

\* A denied call, whether its evaluation runs to the end, fails or is cut short.
LEMMA DenyCallKeeps == DiscoveryInv /\ DenyCall => DiscoveryInv'
<1> SUFFICES ASSUME DiscoveryInv, DenyCall PROVE DiscoveryInv'
  OBVIOUS
<1>1. PICK d \in Denials :
        \E begun \in time .. Latest :
        LET recorded == WithEvent(d)
            first == [kept |-> recorded, raised |-> alertLog,
                      log |-> Append(denialLog, [call |-> d, at |-> time])]
            found == Due(recorded.denied, begun)
            n == Len(found)
        IN  \E clock \in Readings(n, begun) :
            LET stage == Evaluated(first, FiredAt(found, clock))
                before(i) == IF i = 0 THEN onDisk ELSE stage[i - 1]
                writes == {0} \cup {i \in 1 .. n : stage[i] # stage[i - 1]}
            IN  \/ /\ Remember(stage[n]) /\ onDisk' = stage[n] /\ time' = clock[n]
                   /\ judgedAt' = begun /\ UNCHANGED faults
                \/ /\ faults < MaxFaults /\ faults' = faults + 1
                   /\ judgedAt' = Never
                   /\ \E i \in writes :
                          /\ time' = clock[i]
                          /\ \/ Remember(stage[i]) /\ onDisk' = before(i)
                             \/ /\ Remember([stage[i] EXCEPT !.kept = Restored(@)])
                                /\ onDisk' = stage[i]
  BY DEF DenyCall
<1>0. PICK begun \in time .. Latest :
        LET recorded == WithEvent(d)
            first == [kept |-> recorded, raised |-> alertLog,
                      log |-> Append(denialLog, [call |-> d, at |-> time])]
            found == Due(recorded.denied, begun)
            n == Len(found)
        IN  \E clock \in Readings(n, begun) :
            LET stage == Evaluated(first, FiredAt(found, clock))
                before(i) == IF i = 0 THEN onDisk ELSE stage[i - 1]
                writes == {0} \cup {i \in 1 .. n : stage[i] # stage[i - 1]}
            IN  \/ /\ Remember(stage[n]) /\ onDisk' = stage[n] /\ time' = clock[n]
                   /\ judgedAt' = begun /\ UNCHANGED faults
                \/ /\ faults < MaxFaults /\ faults' = faults + 1
                   /\ judgedAt' = Never
                   /\ \E i \in writes :
                          /\ time' = clock[i]
                          /\ \/ Remember(stage[i]) /\ onDisk' = before(i)
                             \/ /\ Remember([stage[i] EXCEPT !.kept = Restored(@)])
                                /\ onDisk' = stage[i]
  BY <1>1
<1> DEFINE recorded == WithEvent(d)
           first == [kept |-> recorded, raised |-> alertLog,
                     log |-> Append(denialLog, [call |-> d, at |-> time])]
           found == Due(recorded.denied, begun)
           n == Len(found)
<1>16. PICK clock \in Readings(n, begun) :
            LET stage == Evaluated(first, FiredAt(found, clock))
                before(i) == IF i = 0 THEN onDisk ELSE stage[i - 1]
                writes == {0} \cup {i \in 1 .. n : stage[i] # stage[i - 1]}
            IN  \/ /\ Remember(stage[n]) /\ onDisk' = stage[n] /\ time' = clock[n]
                   /\ judgedAt' = begun /\ UNCHANGED faults
                \/ /\ faults < MaxFaults /\ faults' = faults + 1
                   /\ judgedAt' = Never
                   /\ \E i \in writes :
                          /\ time' = clock[i]
                          /\ \/ Remember(stage[i]) /\ onDisk' = before(i)
                             \/ /\ Remember([stage[i] EXCEPT !.kept = Restored(@)])
                                /\ onDisk' = stage[i]
  BY <1>0
<1> DEFINE due == FiredAt(found, clock)
           stage == Evaluated(first, due)
           before(i) == IF i = 0 THEN onDisk ELSE stage[i - 1]
           writes == {0} \cup {i \in 1 .. n : stage[i] # stage[i - 1]}
<1>2. /\ ruleList \in RuleLists /\ time \in Nat
      /\ IsTrueHistory(InMemory, time) /\ IsTrueHistory(onDisk, time)
  BY DEF DiscoveryInv
<1>3. ruleList' = ruleList /\ begun \in Nat /\ time <= begun
  BY <1>2 DEF DenyCall
<1>4. IsTrueHistory(first, time) /\ recorded.denied = NewestOf(first.log)
  <2>1. InMemory.kept = history /\ InMemory.log = denialLog /\ InMemory.raised = alertLog
    BY DEF InMemory
  <2>2. recorded = [InMemory.kept EXCEPT
                       !.denied = FirstOf(<<[call |-> d, at |-> time]>> \o @, EventsKept)]
    BY <2>1 DEF WithEvent
  <2> HIDE DEF recorded
  <2>3. /\ IsTrueHistory([kept |-> recorded, raised |-> InMemory.raised,
                          log |-> Append(InMemory.log, [call |-> d, at |-> time])], time)
        /\ recorded.denied = NewestOf(Append(InMemory.log, [call |-> d, at |-> time]))
    BY <1>2, <2>2, DenialIsKept
  <2> QED BY <2>1, <2>3
<1>5. first.log \in Seq(DenialEvent) /\ InOrder(first.log, time)
  <2>1. first \in Told /\ InOrder(first.log, time)
    <3> HIDE DEF first
    <3> QED BY <1>4 DEF IsTrueHistory
  <2> HIDE DEF first
  <2> QED BY <2>1, ToldFields
<1>6. found = Due(NewestOf(first.log), begun)
  BY <1>4
<1>17. \/ /\ Remember(stage[n]) /\ onDisk' = stage[n] /\ time' = clock[n]
          /\ judgedAt' = begun
       \/ /\ judgedAt' = Never
          /\ \E i \in writes :
                /\ time' = clock[i]
                /\ \/ Remember(stage[i]) /\ onDisk' = before(i)
                   \/ /\ Remember([stage[i] EXCEPT !.kept = Restored(@)])
                      /\ onDisk' = stage[i]
  BY <1>16
<1> HIDE DEF recorded, first, found, due
<1>18. IsTrueHistory(first, begun) /\ InOrder(first.log, begun)
  <2>1. IsTrueHistory(first, begun)
    BY <1>2, <1>3, <1>4, HistoryAges
  <2> QED BY <2>1 DEF IsTrueHistory
<1>19. AreFound(found, first.log)
  BY <1>2, <1>3, <1>5, <1>6, <1>18, DueAlerts
<1>7. AreDue(due, first.log, clock) /\ Len(due) = n /\ clock[0] = begun
  BY <1>3, <1>19, FoundAreDue DEF due
<1>8. n \in Nat /\ clock \in [0 .. n -> Nat] /\ \A i \in 1 .. n : clock[0] <= clock[i]
  BY <1>7 DEF AreDue
<1>20. \A i \in 0 .. n : clock[i] \in Nat /\ time <= clock[i]
  <2>1. \A i \in 0 .. n : clock[i] \in Nat /\ (i = 0 \/ begun <= clock[i])
    BY <1>7, <1>8
  <2> QED BY <1>2, <1>3, <1>7, <2>1
<1>9. \A i \in 0 .. n : IsTrueHistory(stage[i], clock[i]) /\ stage[i].log = first.log
  BY <1>7, <1>18, StagesAreTrue
<1>10. BurstsAnswered(ruleList, first.log, stage[n].raised, begun)
  BY <1>2, <1>3, <1>6, <1>7, <1>18, NoBurstIsLeft DEF due
<1>11. \/ /\ Remember(stage[n]) /\ onDisk' = stage[n] /\ time' = clock[n]
          /\ judgedAt' = begun
       \/ /\ judgedAt' = Never
          /\ \E i \in writes :
                /\ time' = clock[i]
                /\ \/ Remember(stage[i]) /\ onDisk' = before(i)
                   \/ /\ Remember([stage[i] EXCEPT !.kept = Restored(@)])
                      /\ onDisk' = stage[i]
  BY <1>17
<1> HIDE DEF stage, n
<1>12. ASSUME NEW i \in 0 .. n, Remember(stage[i]), time' = clock[i]
       PROVE  /\ IsTrueHistory(InMemory', time')
              /\ denialLog' = first.log /\ alertLog' = stage[i].raised
  <2>1. stage[i] \in Told /\ IsTrueHistory(stage[i], time') /\ stage[i].log = first.log
    BY <1>9, <1>12 DEF IsTrueHistory
  <2>2. InMemory' = stage[i]
    BY <1>12, <2>1, ToldIsRecord DEF Remember, InMemory
  <2> QED BY <1>12, <2>1, <2>2 DEF Remember
<1>13. CASE /\ Remember(stage[n]) /\ onDisk' = stage[n] /\ time' = clock[n]
            /\ judgedAt' = begun
  <2>1. n \in 0 .. n
    BY <1>8
  <2>2. /\ IsTrueHistory(InMemory', time')
        /\ denialLog' = first.log /\ alertLog' = stage[n].raised
    BY <1>12, <1>13, <2>1
  <2>3. IsTrueHistory(onDisk', time') /\ time' \in Nat
    BY <1>9, <1>13, <1>20, <2>1
  <2>4. BurstsAnswered(ruleList', denialLog', alertLog', judgedAt')
    BY <1>3, <1>10, <1>13, <2>2
  <2>5. NoBurstIsMissed'
    BY <2>4 DEF NoBurstIsMissed, InWindow, BurstsAnswered, BurstAnswered, BurstOf
  <2> QED BY <1>2, <1>3, <1>13, <2>2, <2>3, <2>5 DEF DiscoveryInv
<1>14. CASE /\ judgedAt' = Never
            /\ \E i \in writes :
                  /\ time' = clock[i]
                  /\ \/ Remember(stage[i]) /\ onDisk' = before(i)
                     \/ /\ Remember([stage[i] EXCEPT !.kept = Restored(@)])
                        /\ onDisk' = stage[i]
  <2>1. PICK i \in writes :
           /\ time' = clock[i]
           /\ \/ Remember(stage[i]) /\ onDisk' = before(i)
              \/ /\ Remember([stage[i] EXCEPT !.kept = Restored(@)])
                 /\ onDisk' = stage[i]
    BY <1>14
  <2>2. i \in 0 .. n /\ (i # 0 => i \in 1 .. n /\ i - 1 \in 0 .. n)
    BY <1>8
  <2>3. [stage[i] EXCEPT !.kept = Restored(@)] = stage[i]
    <3>1. stage[i] \in Told
      BY <1>9, <2>2 DEF IsTrueHistory
    <3> QED BY <3>1, RestoredIsSaved
  <2>4. Remember(stage[i]) /\ onDisk' \in {stage[i], before(i)}
    BY <2>1, <2>3
  <2>5. IsTrueHistory(InMemory', time') /\ time' \in Nat
    BY <1>12, <1>20, <2>1, <2>2, <2>4
  <2>6. IsTrueHistory(before(i), clock[i])
    <3>1. CASE i = 0
      BY <1>2, <1>20, <2>2, <3>1, HistoryAges
    <3>2. CASE i # 0
      <4>1. /\ i \in 1 .. n /\ i - 1 \in 0 .. n /\ before(i) = stage[i - 1]
            /\ clock[i - 1] \in Nat /\ clock[i] \in Nat
        BY <1>20, <2>2, <3>2
      <4>2. clock[i - 1] <= clock[i]
        BY <1>7, <4>1 DEF AreDue
      <4>3. IsTrueHistory(stage[i - 1], clock[i - 1])
        BY <1>9, <4>1
      <4> QED BY <4>1, <4>2, <4>3, HistoryAges
    <3> QED BY <3>1, <3>2
  <2>7. IsTrueHistory(onDisk', time')
    BY <1>9, <2>1, <2>2, <2>4, <2>6
  <2>8. NoBurstIsMissed' /\ judgedAt' \in Nat \cup {Never}
    BY <1>14 DEF NoBurstIsMissed
  <2> QED BY <1>2, <1>3, <2>5, <2>7, <2>8 DEF DiscoveryInv
<1> QED BY <1>11, <1>13, <1>14

\* Any other step: nothing was judged, and what is told is told of memory or of
\* the file.
LEMMA DiscoveryRestKeeps ==
    DiscoveryInv /\ (TimePasses \/ RestartDiscovery \/ PurgeHistory \/ ReplaceRules)
      => DiscoveryInv'
<1> SUFFICES ASSUME DiscoveryInv, TimePasses \/ RestartDiscovery \/ PurgeHistory \/ ReplaceRules
             PROVE  DiscoveryInv'
  OBVIOUS
<1>1. /\ ruleList \in RuleLists /\ time \in Nat
      /\ IsTrueHistory(InMemory, time) /\ IsTrueHistory(onDisk, time)
  BY DEF DiscoveryInv
<1>2. judgedAt' = Never
  BY DEF TimePasses, RestartDiscovery, PurgeHistory, ReplaceRules
<1>3. NoBurstIsMissed' /\ judgedAt' \in Nat \cup {Never}
  BY <1>2 DEF NoBurstIsMissed
<1>4. IsTrueHistory(NoHistory, time)
  BY <1>1, NothingIsTrue
<1>5. CASE TimePasses
  <2>1. InMemory' = InMemory /\ onDisk' = onDisk /\ time' = time + 1 /\ ruleList' = ruleList
    BY <1>5 DEF TimePasses, InMemory
  <2>2. IsTrueHistory(InMemory, time + 1) /\ IsTrueHistory(onDisk, time + 1)
    BY <1>1, HistoryAges
  <2> QED BY <1>1, <1>3, <2>1, <2>2 DEF DiscoveryInv
<1>6. CASE RestartDiscovery
  <2>1. onDisk \in Told
    BY <1>1 DEF IsTrueHistory
  <2>2. [onDisk EXCEPT !.kept = Restored(@)] = onDisk
    BY <2>1, RestoredIsSaved
  <2>3. onDisk' = onDisk /\ time' = time /\ ruleList' = ruleList /\ Remember(onDisk)
    BY <1>6, <2>2 DEF RestartDiscovery
  <2>4. InMemory' = onDisk
    BY <2>1, <2>3, ToldIsRecord DEF Remember, InMemory
  <2> QED BY <1>1, <1>3, <2>3, <2>4 DEF DiscoveryInv
<1>7. CASE PurgeHistory
  <2>1. time' = time /\ ruleList' = ruleList /\ onDisk' \in {onDisk, NoHistory}
    BY <1>7 DEF PurgeHistory
  <2>2. InMemory' = NoHistory \/ InMemory' = InMemory
    BY <1>7 DEF PurgeHistory, InMemory, NoHistory
  <2> QED BY <1>1, <1>3, <1>4, <2>1, <2>2 DEF DiscoveryInv
<1>8. CASE ReplaceRules
  <2>1. InMemory' = InMemory /\ onDisk' = onDisk /\ time' = time /\ ruleList' \in RuleLists
    BY <1>8 DEF ReplaceRules, InMemory
  <2> QED BY <1>1, <1>3, <2>1 DEF DiscoveryInv
<1> QED BY <1>5, <1>6, <1>7, <1>8

\* The invariant gives the properties the runs check.
LEMMA DiscoveryInvGivesHolds == DiscoveryInv => DiscoveryHolds
<1> SUFFICES ASSUME DiscoveryInv PROVE DiscoveryHolds
  OBVIOUS
<1>1. /\ ruleList \in RuleLists /\ time \in Nat /\ judgedAt \in Nat \cup {Never}
      /\ IsTrueHistory(InMemory, time) /\ NoBurstIsMissed
  BY DEF DiscoveryInv
<1>2. InMemory.kept = history /\ InMemory.log = denialLog /\ InMemory.raised = alertLog
  BY DEF InMemory
<1>3. InMemory \in Told
  BY <1>1 DEF IsTrueHistory
<1>4. /\ history \in Memory /\ denialLog \in Seq(DenialEvent) /\ alertLog \in Seq(AlertRecord)
      /\ history.last \in [AlertKinds -> Nat \cup {Never}]
  BY <1>2, <1>3, ToldFields
<1>5. DOMAIN denialLog = 1 .. Len(denialLog) /\ DOMAIN alertLog = 1 .. Len(alertLog)
  BY <1>4, LenProperties
<1>6. /\ history.denied = NewestOf(denialLog)
      /\ history.alerts = FirstOf(Reverse(alertLog), AlertsKept)
      /\ Apart(alertLog) /\ \A j \in 1 .. Len(alertLog) : IsCounted(alertLog[j], denialLog)
  BY <1>1, <1>2 DEF IsTrueHistory
<1>7. EventsKept \in Nat /\ AlertsKept \in Nat
  BY DiscoveryAssumption
<1>8. Len(history.denied) <= EventsKept
  <2>1. Len(NewestOf(denialLog))
          = (IF EventsKept <= Len(denialLog) THEN EventsKept ELSE Len(denialLog))
        /\ Len(denialLog) \in Nat
    BY <1>4, NewestEntries
  <2> QED BY <1>6, <1>7, <2>1
<1>9. Len(history.alerts) <= AlertsKept
  <2> DEFINE r == Reverse(alertLog)
  <2>1. r \in Seq(AlertRecord)
    BY <1>4, ReverseSeq
  <2>2. Len(r) \in Nat
    BY <2>1, LenProperties
  <2> HIDE DEF r
  <2>3. Len(FirstOf(r, AlertsKept)) = (IF AlertsKept <= Len(r) THEN AlertsKept ELSE Len(r))
    BY <1>7, <2>1, FirstOfSeq
  <2>4. Len(FirstOf(r, AlertsKept)) <= AlertsKept
    BY <1>7, <2>2, <2>3
  <2> QED BY <1>6, <2>4 DEF r
<1>10. DiscoveryTypeOK
  BY <1>1, <1>4, <1>8, <1>9 DEF DiscoveryTypeOK, AlertKinds
<1>11. AlertsCoolDown
  BY <1>5, <1>6 DEF AlertsCoolDown, Apart
<1>12. AlertsAreCounted
  BY <1>5, <1>6 DEF AlertsAreCounted, IsCounted, Within
<1> QED BY <1>1, <1>10, <1>11, <1>12 DEF DiscoveryHolds

\* Discovery alerts never come twice within a cooldown, are never missed when
\* the denials a rule asks for are among those kept, and count denials that did
\* happen: for any rules, sizes of the buffers, restarts, failed writes, purges
\* and changes of the policy (_evaluate_discovery_rules, app.py).
THEOREM DiscoveryAlertsHold == DiscoverySpec => []DiscoveryHolds
<1>1. DiscoveryInit => DiscoveryInv
  <2> SUFFICES ASSUME DiscoveryInit PROVE DiscoveryInv
    OBVIOUS
  <2>1. IsTrueHistory(NoHistory, 0)
    BY NothingIsTrue
  <2>2. InMemory = NoHistory /\ onDisk = NoHistory /\ time = 0
    BY DEF DiscoveryInit, InMemory, NoHistory
  <2>3. NoBurstIsMissed /\ judgedAt \in Nat \cup {Never} /\ ruleList \in RuleLists
    BY DEF DiscoveryInit, NoBurstIsMissed
  <2> QED BY <2>1, <2>2, <2>3 DEF DiscoveryInv
<1>2. DiscoveryInv /\ [DiscoveryNext]_discoveryVars => DiscoveryInv'
  <2> SUFFICES ASSUME DiscoveryInv, [DiscoveryNext]_discoveryVars PROVE DiscoveryInv'
    OBVIOUS
  <2>1. CASE UNCHANGED discoveryVars
    <3>1. NoBurstIsMissed' = NoBurstIsMissed
      BY <2>1 DEF NoBurstIsMissed, InWindow, discoveryVars
    <3>2. InMemory' = InMemory /\ onDisk' = onDisk /\ time' = time
          /\ ruleList' = ruleList /\ judgedAt' = judgedAt
      BY <2>1 DEF InMemory, discoveryVars
    <3> QED BY <3>1, <3>2 DEF DiscoveryInv
  <2>2. CASE DiscoveryNext
    BY <2>2, DenyCallKeeps, DiscoveryRestKeeps DEF DiscoveryNext
  <2> QED BY <2>1, <2>2
<1> QED BY <1>1, <1>2, DiscoveryInvGivesHolds, PTL DEF DiscoverySpec

-----------------------------------------------------------------------------
(* Advice on the policy: what is counted of the denied calls.              *)

\* A value is met as often as there are calls, at most; one that is seen is met.
LEMMA TimesInRange ==
    ASSUME NEW events \in Seq(DeniedCalls), NEW field, NEW v
    PROVE  Times(events, field, v) \in 0 .. Len(events) /\ Len(events) \in Nat
<1> DEFINE I == {i \in DOMAIN events : events[i][field] = v}
<1>1. DOMAIN events = 1 .. Len(events) /\ Len(events) \in Nat
  BY LenProperties
<1>2. I \in SUBSET (1 .. Len(events))
  BY <1>1
<1> HIDE DEF I
<1>3. Cardinality(I) \in Nat /\ Cardinality(I) <= Len(events)
  BY <1>1, <1>2, IndexesAreFinite
<1>4. Times(events, field, v) = Cardinality(I)
  BY DEF Times, I
<1> QED BY <1>1, <1>3, <1>4

\* The top is one of those seen, and none is met more often.
LEMMA TopIsMost ==
    ASSUME NEW events \in Seq(DeniedCalls), events # <<>>, NEW field
    PROVE  /\ Top(events, field) \in Seen(events, field)
           /\ \A u \in Seen(events, field) :
                Times(events, field, u) <= Times(events, field, Top(events, field))
<1> DEFINE len == Len(events)
           n(i) == Times(events, field, events[i][field])
           most == {i \in DOMAIN events : \A j \in DOMAIN events : n(j) <= n(i)}
<1>1. DOMAIN events = 1 .. len /\ len \in Nat /\ len # 0
  BY LenProperties, EmptySeq
<1>2. \A i \in 1 .. len : n(i) \in 0 .. len
  BY TimesInRange
<1>3. \E i \in most : TRUE
  <2> DEFINE T == {len - n(i) : i \in 1 .. len}
  <2>1. \A i \in 1 .. len : len - n(i) \in Nat
    <3> HIDE DEF n, len
    <3> QED BY <1>1, <1>2
  <2>2. T \in SUBSET Nat /\ T # {}
    <3>1. 1 \in 1 .. len
      BY <1>1
    <3> QED BY <2>1, <3>1
  <2>3. \E x \in T : \A y \in T : ~(y < x)
    <3> HIDE DEF T
    <3> QED BY <2>2, LeastOf
  <2>4. PICK i \in 1 .. len : \A j \in 1 .. len : ~(len - n(j) < len - n(i))
    <3> HIDE DEF n, len
    <3> QED BY <2>3
  <2>5. \A j \in 1 .. len : n(j) <= n(i)
    <3> HIDE DEF n, len
    <3> QED BY <1>1, <1>2, <2>4
  <2> QED BY <1>1, <2>5
<1>4. most \in SUBSET Nat
  BY <1>1
<1>5. Min(most) \in most
  <2> HIDE DEF most
  <2>1. PICK x \in most : \A y \in most : ~(y < x)
    BY <1>3, <1>4, LeastOf
  <2>2. \A y \in most : x <= y
    BY <1>4, <2>1
  <2> QED BY <2>2 DEF Min
<1>6. Top(events, field) = events[Min(most)][field]
  BY DEF Top
<1>7. Min(most) \in 1 .. len /\ \A j \in 1 .. len : n(j) <= n(Min(most))
  <2> HIDE DEF n
  <2> QED BY <1>1, <1>5
<1> HIDE DEF most
<1>8. Top(events, field) \in Seen(events, field)
  BY <1>1, <1>6, <1>7 DEF Seen
<1>9. \A u \in Seen(events, field) : Times(events, field, u) <= Times(events, field, Top(events, field))
  <2> SUFFICES ASSUME NEW u \in Seen(events, field)
               PROVE  Times(events, field, u) <= Times(events, field, Top(events, field))
    OBVIOUS
  <2>1. PICK j \in 1 .. len : u = events[j][field]
    BY <1>1 DEF Seen
  <2>2. n(j) <= n(Min(most))
    BY <1>7
  <2> QED BY <1>6, <2>1, <2>2
<1> QED BY <1>8, <1>9

\* How often a tool is met, and then who was met first, orders the tools.
LEMMA OftenIsOrder ==
    ASSUME NEW events \in Seq(DeniedCalls), NEW field
    PROVE  /\ \A t \in Seen(events, field) : ~Often(events, field, t, t)
           /\ \A t, u, v \in Seen(events, field) :
                Often(events, field, t, u) /\ Often(events, field, u, v)
                  => Often(events, field, t, v)
           /\ \A t, u \in Seen(events, field) :
                t # u => Often(events, field, t, u) \/ Often(events, field, u, t)
<1> DEFINE len == Len(events)
           n(t) == Times(events, field, t)
           First(t, u) == \E i \in DOMAIN events : /\ events[i][field] = t
                                                   /\ \A j \in 1 .. i : events[j][field] # u
           S == Seen(events, field)
<1>1. DOMAIN events = 1 .. len /\ len \in Nat
  BY LenProperties
<1>2. \A t : n(t) \in Nat
  BY TimesInRange
<1>3. \A t, u : Often(events, field, t, u) <=> n(t) > n(u) \/ (n(t) = n(u) /\ First(t, u))
  BY DEF Often
<1>4. \A t : ~First(t, t)
  <2> SUFFICES ASSUME NEW t, First(t, t) PROVE FALSE
    OBVIOUS
  <2>1. PICK i \in 1 .. len : events[i][field] = t /\ \A j \in 1 .. i : events[j][field] # t
    BY <1>1
  <2>2. i \in 1 .. i
    OBVIOUS
  <2> QED BY <2>1, <2>2
<1>5. \A t, u, v : First(t, u) /\ First(u, v) => First(t, v)
  <2> SUFFICES ASSUME NEW t, NEW u, NEW v, First(t, u), First(u, v) PROVE First(t, v)
    OBVIOUS
  <2>1. PICK i \in 1 .. len : events[i][field] = t /\ \A j \in 1 .. i : events[j][field] # u
    BY <1>1
  <2>2. PICK k \in 1 .. len : events[k][field] = u /\ \A j \in 1 .. k : events[j][field] # v
    BY <1>1
  <2>3. k \notin 1 .. i
    BY <2>1, <2>2
  <2>4. 1 .. i \subseteq 1 .. k
    BY <1>1, <2>3
  <2> QED BY <1>1, <2>1, <2>2, <2>4
<1>6. \A t, u \in S : t # u => First(t, u) \/ First(u, t)
  <2> SUFFICES ASSUME NEW t \in S, NEW u \in S, t # u PROVE First(t, u) \/ First(u, t)
    OBVIOUS
  <2> DEFINE T == {i \in 1 .. len : events[i][field] \in {t, u}}
  <2>1. T \in SUBSET Nat /\ T # {}
    <3>1. \E i \in 1 .. len : events[i][field] = t
      BY <1>1 DEF Seen
    <3> QED BY <1>1, <3>1
  <2>2. PICK i \in T : \A j \in T : ~(j < i)
    <3> HIDE DEF T
    <3> QED BY <2>1, LeastOf
  <2>3. i \in 1 .. len /\ events[i][field] \in {t, u}
    BY <2>2
  <2>4. \A j \in 1 .. i : j = i \/ (j \in 1 .. len /\ j < i)
    BY <1>1, <2>3
  <2>5. \A j \in 1 .. i : j = i \/ events[j][field] \notin {t, u}
    BY <2>2, <2>4
  <2>6. CASE events[i][field] = t
    <3>1. \A j \in 1 .. i : events[j][field] # u
      BY <2>5, <2>6
    <3> QED BY <1>1, <2>3, <2>6, <3>1
  <2>7. CASE events[i][field] = u
    <3>1. \A j \in 1 .. i : events[j][field] # t
      BY <2>5, <2>7
    <3> QED BY <1>1, <2>3, <2>7, <3>1
  <2> QED BY <2>3, <2>6, <2>7
<1> HIDE DEF First, n, S
<1>7. \A t \in S : ~Often(events, field, t, t)
  BY <1>2, <1>3, <1>4
<1>8. \A t, u, v \in S : Often(events, field, t, u) /\ Often(events, field, u, v)
                           => Often(events, field, t, v)
  <2> SUFFICES ASSUME NEW t \in S, NEW u \in S, NEW v \in S,
                      Often(events, field, t, u), Often(events, field, u, v)
               PROVE  Often(events, field, t, v)
    OBVIOUS
  <2>1. n(t) \in Nat /\ n(u) \in Nat /\ n(v) \in Nat
    BY <1>2
  <2>2. n(t) > n(u) \/ (n(t) = n(u) /\ First(t, u))
    BY <1>3
  <2>3. n(u) > n(v) \/ (n(u) = n(v) /\ First(u, v))
    BY <1>3
  <2>4. n(t) > n(v) \/ (n(t) = n(v) /\ First(t, v))
    BY <1>5, <2>1, <2>2, <2>3
  <2> QED BY <1>3, <2>4
<1>9. \A t, u \in S : t # u => Often(events, field, t, u) \/ Often(events, field, u, t)
  <2> SUFFICES ASSUME NEW t \in S, NEW u \in S, t # u
               PROVE  Often(events, field, t, u) \/ Often(events, field, u, t)
    OBVIOUS
  <2>1. n(t) \in Nat /\ n(u) \in Nat
    BY <1>2
  <2>2. n(t) > n(u) \/ n(u) > n(t) \/ n(t) = n(u)
    BY <2>1
  <2>3. First(t, u) \/ First(u, t)
    BY <1>6
  <2> QED BY <1>3, <2>2, <2>3
<1> QED BY <1>7, <1>8, <1>9 DEF S

\* The tools denied, each once, the most often denied first.
LEMMA DeniedToolsAreRanked ==
    ASSUME NEW events \in Seq(DeniedCalls)
    PROVE  /\ DeniedTools(events) \in Seq(Seen(events, "tool"))
           /\ \A i, j \in 1 .. Len(DeniedTools(events)) : i < j =>
                /\ DeniedTools(events)[i] # DeniedTools(events)[j]
                /\ Times(events, "tool", DeniedTools(events)[j])
                     <= Times(events, "tool", DeniedTools(events)[i])
<1> DEFINE S == Seen(events, "tool")
           pre == [t \in S |-> {u \in S : Often(events, "tool", u, t)}]
           m == Min({5, Cardinality(S)})
           tools == [k \in 1 .. m |-> CHOOSE t \in S : Cardinality(pre[t]) = k - 1]
<1>1. DOMAIN events = 1 .. Len(events) /\ Len(events) \in Nat
  BY LenProperties
<1>2. IsFiniteSet(S)
  <2> DEFINE f == [i \in 1 .. Len(events) |-> events[i]["tool"]]
  <2>1. f \in Surjection(1 .. Len(events), S)
    BY <1>1 DEF Surjection, Seen
  <2>2. IsFiniteSet(1 .. Len(events))
    BY <1>1, FS_Interval
  <2> HIDE DEF f, S
  <2> QED BY <2>1, <2>2, FS_Surjection
<1>3. /\ \A t \in S : ~Often(events, "tool", t, t)
      /\ \A t, u, v \in S : Often(events, "tool", t, u) /\ Often(events, "tool", u, v)
                              => Often(events, "tool", t, v)
      /\ \A t, u \in S : t # u => Often(events, "tool", t, u) \/ Often(events, "tool", u, t)
  BY OftenIsOrder
<1> HIDE DEF S
<1>4. /\ pre \in [S -> SUBSET S] /\ \A t \in S : t \notin pre[t]
      /\ \A t, u \in S : t \in pre[u] => pre[t] \subseteq pre[u]
      /\ \A t, u \in S : t # u => t \in pre[u] \/ u \in pre[t]
      /\ \A t, u \in S : t \in pre[u] <=> Often(events, "tool", t, u)
  <2>1. pre \in [S -> SUBSET S]
    OBVIOUS
  <2>2. \A t, u \in S : t \in pre[u] <=> Often(events, "tool", t, u)
    OBVIOUS
  <2>3. \A u \in S : pre[u] \subseteq S
    OBVIOUS
  <2> HIDE DEF pre
  <2>4. \A t, u \in S : t \in pre[u] => pre[t] \subseteq pre[u]
    <3> SUFFICES ASSUME NEW t \in S, NEW u \in S, t \in pre[u], NEW v \in pre[t]
                 PROVE  v \in pre[u]
      OBVIOUS
    <3>1. v \in S
      BY <2>3
    <3> QED BY <1>3, <2>2, <3>1
  <2> QED BY <1>3, <2>1, <2>2, <2>4
<1>5. DeniedTools(events) = [k \in 1 .. m |-> CHOOSE t \in S :
                               Cardinality({u \in S : Often(events, "tool", u, t)}) = k - 1]
  BY DEF DeniedTools, S
<1>6. DeniedTools(events) = tools
  <2>1. \A t \in S : pre[t] = {u \in S : Often(events, "tool", u, t)}
    OBVIOUS
  <2>2. \A k : (CHOOSE t \in S : Cardinality({u \in S : Often(events, "tool", u, t)}) = k - 1)
                = CHOOSE t \in S : Cardinality(pre[t]) = k - 1
    <3> HIDE DEF pre
    <3> QED BY <2>1
  <2> HIDE DEF pre, m
  <2> QED BY <1>5, <2>2
<1> HIDE DEF pre
<1>7. /\ Cardinality(S) \in Nat
      /\ \A k \in 0 .. Cardinality(S) - 1 : \E t \in S : Cardinality(pre[t]) = k
      /\ \A t, u \in S : t \in pre[u] <=> Cardinality(pre[t]) < Cardinality(pre[u])
  BY <1>2, <1>4, PlacesAreTaken
<1>8. m \in Nat /\ m <= Cardinality(S)
  <2>1. 5 \in Int /\ Cardinality(S) \in Int
    BY <1>7
  <2>2. m = IF 5 <= Cardinality(S) THEN 5 ELSE Cardinality(S)
    BY <2>1, MinOfTwo
  <2> QED BY <1>7, <2>2
<1> HIDE DEF m
<1>9. \A k \in 1 .. m : k - 1 \in 0 .. Cardinality(S) - 1
  BY <1>7, <1>8
<1>10. \A k \in 1 .. m : tools[k] \in S /\ Cardinality(pre[tools[k]]) = k - 1
  <2> SUFFICES ASSUME NEW k \in 1 .. m
               PROVE  tools[k] \in S /\ Cardinality(pre[tools[k]]) = k - 1
    OBVIOUS
  <2>1. \E t \in S : Cardinality(pre[t]) = k - 1
    BY <1>7, <1>9
  <2> QED BY <2>1
<1>11. DOMAIN tools = 1 .. m /\ tools = [k \in 1 .. m |-> tools[k]]
  OBVIOUS
<1> HIDE DEF tools
<1>12. tools \in [1 .. m -> S]
  BY <1>10, <1>11
<1>13. tools \in Seq(S) /\ Len(tools) = m
  BY <1>8, <1>12, FunctionIsSeq
<1>14. ASSUME NEW i \in 1 .. m, NEW j \in 1 .. m, i < j
       PROVE  tools[i] # tools[j] /\ Times(events, "tool", tools[j]) <= Times(events, "tool", tools[i])
  <2>1. /\ tools[i] \in S /\ tools[j] \in S
        /\ Cardinality(pre[tools[i]]) = i - 1 /\ Cardinality(pre[tools[j]]) = j - 1
    BY <1>10
  <2>2. i - 1 < j - 1
    BY <1>8, <1>14
  <2>3. Often(events, "tool", tools[i], tools[j])
    BY <1>4, <1>7, <2>1, <2>2
  <2>4. tools[i] # tools[j]
    BY <1>3, <2>1, <2>3
  <2>5. /\ Times(events, "tool", tools[i]) \in 0 .. Len(events)
        /\ Times(events, "tool", tools[j]) \in 0 .. Len(events)
    BY TimesInRange
  <2>6. \/ Times(events, "tool", tools[i]) > Times(events, "tool", tools[j])
        \/ Times(events, "tool", tools[i]) = Times(events, "tool", tools[j])
    BY <2>3 DEF Often
  <2>7. Times(events, "tool", tools[j]) <= Times(events, "tool", tools[i])
    BY <1>1, <2>5, <2>6
  <2> QED BY <2>4, <2>7
<1> QED BY <1>6, <1>13, <1>14 DEF S

\* The calls an analysis is about are calls that were denied, of those it counts.
DeniedEntries == [call : DeniedCalls, old : BOOLEAN]
LEMMA EventsAreDenied ==
    ASSUME recentDenied \in Seq(DeniedEntries), NEW asked \in AdviceRequests
    PROVE  /\ Len(InRange) \in Nat
           /\ EventsFor(asked) \in Seq(DeniedCalls)
           /\ Len(EventsFor(asked)) \in Nat /\ Len(EventsFor(asked)) <= Len(InRange)
<1> DEFINE I == {i \in DOMAIN recentDenied : ~recentDenied[i].old}
           all == InRange
           m == Min({asked.limit, Len(all)})
           newest == Denied(asked.limit)
           J == {i \in DOMAIN newest : asked.riskOnly => newest[i].reason = "llm_risk"}
<1>1. DOMAIN recentDenied = 1 .. Len(recentDenied)
  BY LenProperties
<1>2. I \in SUBSET (1 .. Len(recentDenied)) /\ all = Picked(recentDenied, I)
  BY <1>1 DEF InRange
<1> HIDE DEF I
<1>3. all \in Seq(DeniedEntries)
  <2> HIDE DEF all
  <2> QED BY <1>2, PickedElements
<1>4. Len(all) \in Nat /\ \A i \in 1 .. Len(all) : all[i].call \in DeniedCalls
  <2> HIDE DEF all
  <2>1. Len(all) \in Nat /\ \A i \in 1 .. Len(all) : all[i] \in DeniedEntries
    BY <1>3, LenProperties, ElementOfSeq
  <2> QED BY <2>1 DEF DeniedEntries
<1>5. asked.limit \in Nat
  BY AdviceAssumption DEF AdviceRequests
<1>6. m \in Nat /\ m <= Len(all)
  <2> DEFINE l == asked.limit
             n == Len(all)
  <2>1. l \in Nat /\ n \in Nat
    BY <1>4, <1>5
  <2> HIDE DEF l, n
  <2>2. Min({l, n}) = IF l <= n THEN l ELSE n
    BY <2>1, MinOfTwo
  <2>3. Min({l, n}) \in Nat /\ Min({l, n}) <= n
    BY <2>1, <2>2
  <2> QED BY <2>3 DEF l, n
<1>7. newest = [i \in 1 .. m |-> all[i].call]
  BY DEF Denied
<1> HIDE DEF m, all, newest
<1>8. newest \in [1 .. m -> DeniedCalls]
  <2>1. \A i \in 1 .. m : i \in 1 .. Len(all)
    BY <1>4, <1>6
  <2> QED BY <1>4, <1>7, <2>1
<1>9. newest \in Seq(DeniedCalls) /\ Len(newest) = m /\ DOMAIN newest = 1 .. m
  BY <1>6, <1>8, FunctionIsSeq
<1>10. J \in SUBSET (1 .. Len(newest)) /\ EventsFor(asked) = Picked(newest, J)
  BY <1>9 DEF EventsFor, newest
<1> HIDE DEF J
<1>11. /\ Picked(newest, J) \in Seq(DeniedCalls)
       /\ Len(Picked(newest, J)) \in 0 .. Len(newest)
  <2>1. newest \in Seq(DeniedCalls) BY <1>9
  <2>2. J \in SUBSET (1 .. Len(newest)) BY <1>10
  <2>3. /\ Picked(newest, J) \in Seq(DeniedCalls)
        /\ Len(Picked(newest, J)) = Cardinality(J)
        /\ Cardinality(J) \in 0 .. Len(newest)
    BY <2>1, <2>2, PickedElements, Zenon
  <2> QED BY <2>3
<1> QED BY <1>4, <1>6, <1>9, <1>10, <1>11 DEF all

-----------------------------------------------------------------------------
(* What the proxy and the model advise.                                    *)

RecKeys == {"client_ip", "arguments", "repeated_tool_denials", "write_tool_abuse"}
RecActions == MaskingActions \cup {"monitor", "challenge", "deny"}
\* Advice of the fallback names the tool most often denied, or no tool
RecsOf(events) ==
    {r \in [type : AdviceTypes, key : RecKeys, action : RecActions, score : 0 .. 100,
            tool : Seen(events, "tool") \cup {"any", "search_security_events"}] :
        /\ r.tool \in Seen(events, "tool") \cup {"any"} \/ events = <<>>
        /\ \A u \in Seen(events, "tool") :
             r.tool # "any" => Times(events, "tool", u) <= Times(events, "tool", r.tool)}
RecsSaid ==
    [type : AdviceTypes, key : {"said"}, action : RecActions, score : 0 .. 100, tool : {"any"}]

\* The fallback is of the events it is given.
LEMMA FallbackIsOfEvents ==
    ASSUME NEW events \in Seq(DeniedCalls)
    PROVE  Fallback(events) \in Seq(RecsOf(events)) /\ Fallback(events) # <<>>
<1> DEFINE tool == IF events = <<>> THEN "search_security_events" ELSE Top(events, "tool")
<1>1. events = <<>> => Seen(events, "tool") = {}
  BY DEF Seen
<1>2. /\ tool \in Seen(events, "tool") \/ (events = <<>> /\ tool = "search_security_events")
      /\ \A u \in Seen(events, "tool") : Times(events, "tool", u) <= Times(events, "tool", tool)
  <2>1. CASE events = <<>>
    BY <1>1, <2>1
  <2>2. CASE events # <<>>
    BY <2>2, TopIsMost
  <2> QED BY <2>1, <2>2
<1>3. Fallback(events) = << Rec("masking", "client_ip", "redact", 70, tool),
                            Rec("masking", "arguments", "hash", 60, tool),
                            Rec("discovery", "repeated_tool_denials", "monitor", 65, "any"),
                            Rec("discovery", "write_tool_abuse", "challenge", 70, tool) >>
  BY DEF Fallback
<1> HIDE DEF tool
<1>4. /\ Rec("masking", "client_ip", "redact", 70, tool) \in RecsOf(events)
      /\ Rec("masking", "arguments", "hash", 60, tool) \in RecsOf(events)
      /\ Rec("discovery", "repeated_tool_denials", "monitor", 65, "any") \in RecsOf(events)
      /\ Rec("discovery", "write_tool_abuse", "challenge", 70, tool) \in RecsOf(events)
  BY <1>2 DEF Rec, RecsOf, RecKeys, RecActions, MaskingActions, AdviceTypes
<1> QED BY <1>3, <1>4

\* What the model says is normalised, however it says it.
LEMMA NormalizeIsBounded ==
    ASSUME NEW said \in Seq(Suggestions)
    PROVE  Normalize(said) \in Seq(RecsSaid)
<1> DEFINE I == {i \in DOMAIN said : said[i].kind # "none"}
           objects == Picked(said, I)
           of(s) == Rec(IF s.kind = "DISCOVERY" THEN "discovery" ELSE "masking", "said",
                        IF s.action \in MaskingActions \cup {"monitor", "challenge", "deny"}
                          THEN s.action ELSE "monitor",
                        Max({0, Min({100, s.score})}), "any")
<1>1. I \in SUBSET (1 .. Len(said))
  <2>1. DOMAIN said = 1 .. Len(said)
    BY LenProperties
  <2> QED BY <2>1
<1>2. objects \in Seq(Suggestions)
  <2> HIDE DEF I
  <2> QED BY <1>1, PickedElements
<1>3. Normalize(said) = [i \in DOMAIN objects |-> of(objects[i])]
  BY DEF Normalize
<1> HIDE DEF objects
<1>4. \A s \in Suggestions : Max({0, Min({100, s.score})}) \in 0 .. 100
  <2> SUFFICES ASSUME NEW s \in Suggestions PROVE Max({0, Min({100, s.score})}) \in 0 .. 100
    OBVIOUS
  <2> DEFINE x == s.score
             y == Min({100, x})
  <2>1. x \in Int
    BY AdviceAssumption
  <2> HIDE DEF x
  <2>2. y = IF 100 <= x THEN 100 ELSE x
    BY <2>1, MinOfTwo
  <2>3. y \in Int /\ y <= 100
    BY <2>1, <2>2
  <2> HIDE DEF y
  <2>4. Max({0, y}) = IF 0 >= y THEN 0 ELSE y
    BY <2>3, MaxOfTwo
  <2>5. (IF 0 >= y THEN 0 ELSE y) \in 0 .. 100
    BY <2>3
  <2>6. Max({0, y}) \in 0 .. 100
    BY <2>4, <2>5, Zenon
  <2> QED BY <2>6 DEF y, x
<1>5. \A s \in Suggestions : of(s) \in RecsSaid
  <2> SUFFICES ASSUME NEW s \in Suggestions PROVE of(s) \in RecsSaid
    OBVIOUS
  <2> DEFINE x == Max({0, Min({100, s.score})})
  <2>1. x \in 0 .. 100
    BY <1>4
  <2> HIDE DEF x
  <2> QED BY <2>1 DEF Rec, RecsSaid, RecActions, AdviceTypes, x
<1>6. Len(objects) \in Nat /\ DOMAIN objects = 1 .. Len(objects)
      /\ \A i \in 1 .. Len(objects) : objects[i] \in Suggestions
  BY <1>2, LenProperties, ElementOfSeq
<1>7. Normalize(said) \in [1 .. Len(objects) -> RecsSaid]
  <2> HIDE DEF of
  <2> QED BY <1>3, <1>5, <1>6
<1> QED BY <1>6, <1>7, FunctionIsSeq

\* Of what is advised the types asked for are left, for both types something.
LEMMA AskedAreLeft ==
    ASSUME NEW X, \A x \in X : x.type \in AdviceTypes, NEW recs \in Seq(X), recs # <<>>,
           NEW asked \in AdviceRequests
    PROVE  LET left == AskedTypes(recs, asked)
           IN  /\ left \in Seq(X)
               /\ asked.kind = "policy" =>
                    \A i \in DOMAIN left : left[i].type \in asked.types
               /\ asked.types = AdviceTypes => left # <<>>
<1> DEFINE left == AskedTypes(recs, asked)
           I == {i \in DOMAIN recs : recs[i].type \in AdviceTypes => recs[i].type \in asked.types}
<1>1. /\ DOMAIN recs = 1 .. Len(recs) /\ Len(recs) \in Nat /\ Len(recs) # 0
      /\ \A i \in 1 .. Len(recs) : recs[i] \in X
  BY LenProperties, ElementOfSeq, EmptySeq
<1>2. asked.kind \in {"policy", "analysis"}
  BY DEF AdviceRequests
<1>3. CASE asked.kind = "analysis"
  <2>1. left = recs
    BY <1>3 DEF AskedTypes
  <2> QED BY <1>3, <2>1
<1>4. CASE asked.kind = "policy"
  <2>1. left = Picked(recs, I) /\ I \in SUBSET (1 .. Len(recs))
    BY <1>1, <1>4 DEF AskedTypes
  <2>2. \A i \in I : recs[i].type \in asked.types
    BY <1>1
  <2>3. asked.types = AdviceTypes => 1 \in I
    BY <1>1
  <2> HIDE DEF I, left
  <2>4. /\ left \in Seq(X)
        /\ \A i \in I : Rank(I, i) \in DOMAIN left
        /\ \A k \in DOMAIN left : Nth(I, k) \in I /\ left[k] = recs[Nth(I, k)]
    BY <2>1, PickedElements
  <2>5. \A k \in DOMAIN left : left[k].type \in asked.types
    BY <2>2, <2>4
  <2>6. asked.types = AdviceTypes => left # <<>>
    BY <2>3, <2>4
  <2> QED BY <2>4, <2>5, <2>6 DEF left
<1> QED BY <1>2, <1>3, <1>4

-----------------------------------------------------------------------------
(* What the two tools make of the summary.                                 *)

RulesAreSound(rules, events, types) ==
    /\ rules # {} /\ \A r \in rules : r.tools \subseteq Seen(events, "tool")
    /\ \A r \in rules :
        /\ r.action = "hash" => Times(events, "tool", r.target) >= 2
        /\ r.type \notin types => rules = {r} /\ r.target = "baseline"

\* The rules of the first tool.
LEMMA PolicyRulesAreSound ==
    ASSUME NEW events \in Seq(DeniedCalls), NEW focus, NEW types, NEW pattern \in BOOLEAN
    PROVE  RulesAreSound(PolicyRules(events, focus, types, pattern), events, types)
<1> DEFINE S == Seen(events, "tool")
           tools == DeniedTools(events)
           masks == MaskingRules(events, focus)
           finds == DiscoveryRules(events, focus, pattern)
           base == Advise("discovery", "baseline", "monitor", 51, Firsts(tools, 3))
           rules == (IF "masking" \in types THEN masks ELSE {})
                      \cup (IF "discovery" \in types THEN finds ELSE {})
<1>1. \A n : Firsts(tools, n) \subseteq S
  <2>1. DOMAIN tools = 1 .. Len(tools) /\ \A i \in 1 .. Len(tools) : tools[i] \in S
    <3>1. tools \in Seq(S)
      BY DeniedToolsAreRanked
    <3> HIDE DEF tools, S
    <3> QED BY <3>1, LenProperties, ElementOfSeq
  <2> QED BY <2>1 DEF Firsts
<1>2. \A r \in masks : /\ r.type = "masking" /\ r.tools \subseteq S
                       /\ r.action = "hash" => Times(events, "tool", r.target) >= 2
  <2> SUFFICES ASSUME NEW r \in masks
               PROVE  /\ r.type = "masking" /\ r.tools \subseteq S
                      /\ r.action = "hash" => Times(events, "tool", r.target) >= 2
    OBVIOUS
  <2> DEFINE top == Firsts(tools, 3)
             firsts == Firsts(tools, 2)
  <2>1. top \subseteq S /\ firsts \subseteq S
    BY <1>1
  <2> DEFINE ofTool(t) == Advise("masking", t, "hash", Min({86, 55 + 4 * Times(events, "tool", t)}), {t})
             c == IF Len(events) >= 10 THEN 72 ELSE 64
  <2>2. \/ r = Advise("masking", "client_ip", "redact", c, top)
        \/ \E t \in MaskedTools(events) : r = ofTool(t)
        \/ r = Advise("masking", "arguments", "tokenize", 61, top)
    BY DEF MaskingRules
  <2>3. \A t \in MaskedTools(events) : t \in firsts /\ Times(events, "tool", t) >= 2
    BY DEF MaskedTools
  <2>4. \A t : ofTool(t).type = "masking" /\ ofTool(t).tools = {t} /\ ofTool(t).target = t
    BY DEF Advise
  <2> HIDE DEF top, firsts, S, ofTool, c
  <2>5. CASE \E t \in MaskedTools(events) : r = ofTool(t)
    BY <2>1, <2>3, <2>4, <2>5
  <2>6. CASE \/ r = Advise("masking", "client_ip", "redact", c, top)
             \/ r = Advise("masking", "arguments", "tokenize", 61, top)
    <3>1. r.type = "masking" /\ r.tools = top /\ r.action # "hash"
      BY <2>6 DEF Advise
    <3> QED BY <2>1, <3>1
  <2> QED BY <2>2, <2>5, <2>6
<1>3. \A r \in finds : r.type = "discovery" /\ r.tools \subseteq S /\ r.action # "hash"
  <2> SUFFICES ASSUME NEW r \in finds
               PROVE  r.type = "discovery" /\ r.tools \subseteq S /\ r.action # "hash"
    OBVIOUS
  <2> DEFINE top == Firsts(tools, 3)
             first == Firsts(tools, 1)
  <2>1. top \subseteq S /\ first \subseteq S
    BY <1>1
  <2> DEFINE a1 == IF focus = "overblocking" THEN "monitor" ELSE "challenge"
             c1 == IF Len(events) >= 8 THEN 69 ELSE 58
             a2 == IF focus = "underblocking" THEN "challenge" ELSE "monitor"
  <2>2. \/ \E t \in first : r = Advise("discovery", "denials", a1, c1, {t})
        \/ r = Advise("discovery", "rate", "monitor", 63, top)
        \/ r = Advise("discovery", "pattern", a2, 66, top)
    BY DEF DiscoveryRules
  <2>3. a1 # "hash" /\ a2 # "hash"
    OBVIOUS
  <2> HIDE DEF top, first, S, a1, c1, a2
  <2>4. CASE \E t \in first : r = Advise("discovery", "denials", a1, c1, {t})
    BY <2>1, <2>3, <2>4 DEF Advise
  <2>5. CASE r = Advise("discovery", "rate", "monitor", 63, top)
    BY <2>1, <2>5 DEF Advise
  <2>6. CASE r = Advise("discovery", "pattern", a2, 66, top)
    BY <2>1, <2>3, <2>6 DEF Advise
  <2> QED BY <2>2, <2>4, <2>5, <2>6
<1>4. /\ base.type = "discovery" /\ base.tools \subseteq S /\ base.action # "hash"
      /\ base.target = "baseline"
  BY <1>1 DEF Advise
<1>5. PolicyRules(events, focus, types, pattern) = IF rules # {} THEN rules ELSE {base}
  BY DEF PolicyRules
<1> HIDE DEF S, masks, finds, base
<1>6. \A r \in rules : r.type \in types /\ r.tools \subseteq S
                       /\ (r.action = "hash" => Times(events, "tool", r.target) >= 2)
  BY <1>2, <1>3
<1> HIDE DEF rules
<1> QED BY <1>4, <1>5, <1>6 DEF RulesAreSound, S

\* The tools the second one considers, the most often denied first.
LEMMA ConsideredAreRanked ==
    ASSUME NEW events \in Seq(DeniedCalls), NEW filter
    PROVE  LET tools == Considered(events, filter)
           IN  /\ tools \in Seq(Seen(events, "tool"))
               /\ filter # {} => \A i \in 1 .. Len(tools) : tools[i] \in filter
               /\ \A i, j \in 1 .. Len(tools) : i < j =>
                    /\ tools[i] # tools[j]
                    /\ Times(events, "tool", tools[j]) <= Times(events, "tool", tools[i])
<1> DEFINE S == Seen(events, "tool")
           all == DeniedTools(events)
           I == {i \in DOMAIN all : filter = {} \/ all[i] \in filter}
           tools == Considered(events, filter)
<1>1. /\ all \in Seq(S)
      /\ \A i, j \in 1 .. Len(all) : i < j =>
           /\ all[i] # all[j] /\ Times(events, "tool", all[j]) <= Times(events, "tool", all[i])
  BY DeniedToolsAreRanked
<1>2. tools = Picked(all, I)
  BY DEF Considered
<1> HIDE DEF S, all, tools
<1>3. DOMAIN all = 1 .. Len(all) /\ Len(all) \in Nat
  BY <1>1, LenProperties
<1>4. I \in SUBSET (1 .. Len(all)) /\ (filter # {} => \A i \in I : all[i] \in filter)
  BY <1>3
<1> HIDE DEF I
<1>5. /\ tools \in Seq(S) /\ Len(tools) \in Nat /\ DOMAIN tools = 1 .. Len(tools)
      /\ \A k \in 1 .. Len(tools) :
           Nth(I, k) \in I /\ Rank(I, Nth(I, k)) = k /\ tools[k] = all[Nth(I, k)]
  <2>1. /\ tools \in Seq(S) /\ DOMAIN tools = 1 .. Len(tools)
        /\ \A k \in DOMAIN tools :
             Nth(I, k) \in I /\ Rank(I, Nth(I, k)) = k /\ tools[k] = all[Nth(I, k)]
    BY <1>1, <1>2, <1>4, PickedElements
  <2> QED BY <2>1, LenProperties
<1>6. \A i, j \in I : i < j <=> Rank(I, i) < Rank(I, j)
  BY <1>3, <1>4, RanksAreIndexes
<1>7. \A i, j \in 1 .. Len(tools) : i < j =>
         /\ tools[i] # tools[j]
         /\ Times(events, "tool", tools[j]) <= Times(events, "tool", tools[i])
  <2> SUFFICES ASSUME NEW i \in 1 .. Len(tools), NEW j \in 1 .. Len(tools), i < j
               PROVE  /\ tools[i] # tools[j]
                      /\ Times(events, "tool", tools[j]) <= Times(events, "tool", tools[i])
    OBVIOUS
  <2> DEFINE p == Nth(I, i)
             q == Nth(I, j)
  <2>1. p \in I /\ q \in I /\ Rank(I, p) = i /\ Rank(I, q) = j
        /\ tools[i] = all[p] /\ tools[j] = all[q]
    BY <1>5
  <2> HIDE DEF p, q
  <2>2. p < q /\ p \in 1 .. Len(all) /\ q \in 1 .. Len(all)
    BY <1>4, <1>6, <2>1
  <2> QED BY <1>1, <2>1, <2>2
<1>8. filter # {} => \A k \in 1 .. Len(tools) : tools[k] \in filter
  BY <1>4, <1>5
<1> QED BY <1>5, <1>7, <1>8 DEF S, tools

RulesAreGraded(rules, events, filter) ==
    LET of == {r \in rules : r.tools # {}}
    IN  /\ filter # {} => UNION {r.tools : r \in of} \subseteq filter
        /\ \A r, s \in of :
             /\ r.target = s.target => r = s
             /\ Times(events, "tool", r.target) > Times(events, "tool", s.target)
                  => /\ r.confidence >= s.confidence
                     /\ r.action = "redact" => s.action = "redact"

\* The rules of the second tool.
LEMMA AdaptiveRulesAreGraded ==
    ASSUME NEW events \in Seq(DeniedCalls), NEW mode, NEW filter
    PROVE  LET rules == AdaptiveRules(events, mode, filter)
           IN  /\ rules # {} /\ \A r \in rules : r.tools \subseteq Seen(events, "tool")
               /\ RulesAreGraded(rules, events, filter)
<1> DEFINE S == Seen(events, "tool")
           tools == Considered(events, filter)
           n(i) == Times(events, "tool", tools[i])
           conf(i) == Min({89, 52 + 5 * n(i)})
           rule(i) == Advise("masking", tools[i], AdaptiveMode(events, tools, i), conf(i), {tools[i]})
           c == IF Len(events) >= 10 THEN 66 ELSE 58
           client == Advise("masking", "client_ip", "redact", c, {})
           none == Advise("masking", "arguments", "redact", 50, {})
           rules == AdaptiveRules(events, mode, filter)
           of == {r \in rules : r.tools # {}}
<1>1. /\ tools \in Seq(S)
      /\ filter # {} => \A i \in 1 .. Len(tools) : tools[i] \in filter
      /\ \A i, j \in 1 .. Len(tools) : i < j => tools[i] # tools[j] /\ n(j) <= n(i)
  BY ConsideredAreRanked
<1>2. \A r \in rules : r = client \/ r = none \/ \E i \in DOMAIN tools : r = rule(i)
  <2>1. rules = LET found == (IF NamedClient(events) /\ mode = "monitor" THEN {client} ELSE {})
                               \cup {rule(i) : i \in DOMAIN tools}
                IN  IF found # {} THEN found ELSE {none}
    BY DEF AdaptiveRules
  <2> HIDE DEF client, none, rule, tools, rules
  <2> QED BY <2>1
<1>3. rules # {}
  BY DEF AdaptiveRules
<1>4. \A i \in DOMAIN tools :
         AdaptiveMode(events, tools, i) =
           IF "argument_validation" \in Seen(events, "reason") /\ i = 1 THEN "tokenize"
           ELSE IF n(i) <= 2 THEN "redact" ELSE "hash"
  BY DEF AdaptiveMode
<1>5. \A i : n(i) \in Nat
  <2> SUFFICES ASSUME NEW i PROVE n(i) \in Nat
    OBVIOUS
  <2> DEFINE t == tools[i]
  <2> HIDE DEF t
  <2>1. Times(events, "tool", t) \in 0 .. Len(events) /\ Len(events) \in Nat
    BY TimesInRange
  <2>2. Times(events, "tool", t) \in Nat
    BY <2>1
  <2> QED BY <2>2 DEF t
<1> HIDE DEF tools, S, rules
<1>6. DOMAIN tools = 1 .. Len(tools) /\ Len(tools) \in Nat /\ \A i \in 1 .. Len(tools) : tools[i] \in S
  BY <1>1, LenProperties, ElementOfSeq
<1> HIDE DEF n
<1>7. \A i : /\ rule(i).tools = {tools[i]} /\ rule(i).target = tools[i]
             /\ rule(i).confidence = conf(i)
             /\ rule(i).action = AdaptiveMode(events, tools, i)
  <2> HIDE DEF conf
  <2> QED BY DEF Advise
<1>8. client.tools = {} /\ none.tools = {}
  BY DEF Advise
<1> HIDE DEF rule, client, none
<1>9. \A r \in rules : r.tools \subseteq S
  BY <1>2, <1>6, <1>7, <1>8
<1>10. \A r \in of : \E i \in 1 .. Len(tools) : r = rule(i)
  BY <1>2, <1>6, <1>8
<1> HIDE DEF of
<1>11. filter # {} => UNION {r.tools : r \in of} \subseteq filter
  BY <1>1, <1>7, <1>10
<1>12. ASSUME NEW i \in 1 .. Len(tools), NEW j \in 1 .. Len(tools)
       PROVE  /\ tools[i] = tools[j] => i = j
              /\ n(i) > n(j) => i < j
  <2>1. i \in Int /\ j \in Int /\ n(i) \in Int /\ n(j) \in Int
    BY <1>5
  <2>2. /\ i < j => tools[i] # tools[j] /\ n(j) <= n(i)
        /\ j < i => tools[j] # tools[i] /\ n(i) <= n(j)
    BY <1>1
  <2>3. i < j \/ i = j \/ j < i
    BY <2>1
  <2>4. tools[i] = tools[j] => i = j
    BY <2>2, <2>3
  <2>5. ASSUME n(i) > n(j) PROVE i < j
    <3>1. i # j
      BY <2>1, <2>5
    <3>2. ~(j < i)
      BY <2>1, <2>2, <2>5
    <3> QED BY <2>3, <3>1, <3>2
  <2> QED BY <2>4, <2>5
<1>13. \A x, y \in Nat : x > y => Min({89, 52 + 5 * x}) >= Min({89, 52 + 5 * y})
  <2> SUFFICES ASSUME NEW x \in Nat, NEW y \in Nat, x > y
               PROVE  Min({89, 52 + 5 * x}) >= Min({89, 52 + 5 * y})
    OBVIOUS
  <2> DEFINE a == 52 + 5 * x
             b == 52 + 5 * y
  <2>1. a \in Int /\ b \in Int /\ a >= b
    OBVIOUS
  <2> HIDE DEF a, b
  <2>2. /\ Min({89, a}) = IF 89 <= a THEN 89 ELSE a
        /\ Min({89, b}) = IF 89 <= b THEN 89 ELSE b
    BY <2>1, MinOfTwo
  <2>3. (IF 89 <= a THEN 89 ELSE a) >= (IF 89 <= b THEN 89 ELSE b)
    BY <2>1
  <2>4. Min({89, a}) >= Min({89, b})
    BY <2>2, <2>3, Zenon
  <2> QED BY <2>4 DEF a, b
<1>14. ASSUME NEW r \in of, NEW s \in of
       PROVE  /\ r.target = s.target => r = s
              /\ Times(events, "tool", r.target) > Times(events, "tool", s.target)
                   => /\ r.confidence >= s.confidence
                      /\ r.action = "redact" => s.action = "redact"
  <2>1. PICK i \in 1 .. Len(tools) : r = rule(i)
    BY <1>10
  <2>2. PICK j \in 1 .. Len(tools) : s = rule(j)
    BY <1>10
  <2>3. r.target = s.target => r = s
    BY <1>7, <1>12, <2>1, <2>2
  <2>4. ASSUME Times(events, "tool", r.target) > Times(events, "tool", s.target)
        PROVE  r.confidence >= s.confidence /\ (r.action = "redact" => s.action = "redact")
    <3>1. n(i) > n(j)
      BY <1>7, <2>1, <2>2, <2>4 DEF n
    <3>2. i < j /\ n(i) \in Nat /\ n(j) \in Nat
      BY <1>5, <1>12, <3>1
    <3>3. r.confidence >= s.confidence
      <4>1. conf(i) >= conf(j)
        <5> DEFINE x == n(i)
                   y == n(j)
        <5>1. x \in Nat /\ y \in Nat /\ x > y
          BY <3>1, <3>2
        <5> HIDE DEF x, y
        <5>2. Min({89, 52 + 5 * x}) >= Min({89, 52 + 5 * y})
          BY <1>13, <5>1
        <5> QED BY <5>2 DEF x, y
      <4>2. r.confidence = conf(i) /\ s.confidence = conf(j)
        BY <1>7, <2>1, <2>2, Zenon
      <4> HIDE DEF conf
      <4> QED BY <4>1, <4>2
    <3>4. j # 1
      BY <3>2
    <3>5. s.action = IF n(j) <= 2 THEN "redact" ELSE "hash"
      BY <1>4, <1>6, <1>7, <2>2, <3>4
    <3>6. r.action = "redact" => n(i) <= 2
      BY <1>4, <1>6, <1>7, <2>1
    <3>7. n(i) <= 2 => n(j) <= 2
      BY <3>1, <3>2
    <3> QED BY <3>3, <3>5, <3>6, <3>7
  <2> QED BY <2>3, <2>4
<1>15. RulesAreGraded(rules, events, filter)
  BY <1>11, <1>14 DEF RulesAreGraded, of
<1> QED BY <1>3, <1>9, <1>15 DEF rules, S

-----------------------------------------------------------------------------
(* Advice on the policy: the inductive invariant.                          *)

AdviceFields == {"pc", "asked", "events", "total", "invoked", "engine", "fallback", "recs"}
LeftAsAsked(recs, asked) ==
    /\ asked.kind = "policy" => \A i \in DOMAIN recs : recs[i].type \in asked.types
    /\ asked.types = AdviceTypes => recs # <<>>
\* What is asked is of the denials of one copy, an answer is of the model or of
\* them, the rules of the tools are of them too
AdviceOK(a) ==
    /\ DOMAIN a = AdviceFields /\ a.pc \in {"idle", "client", "chat", "done", "tool"}
    /\ a.events \in Seq(DeniedCalls) /\ a.total \in Nat /\ Len(a.events) <= a.total
    /\ a.pc \in {"client", "chat", "done"} => a.asked \in AdviceRequests
    /\ a.pc = "done" =>
         /\ a.recs \in Seq(IF a.invoked /\ ~a.fallback THEN RecsSaid ELSE RecsOf(a.events))
         /\ LeftAsAsked(a.recs, a.asked)
    /\ a.pc = "tool" =>
         /\ a.asked.tool # {}
         /\ \A r \in a.asked.tool : r.tools \subseteq Seen(a.events, "tool")
         /\ a.asked.kind = "rules" => RulesAreSound(a.asked.tool, a.events, a.asked.types)
         /\ a.asked.kind = "adaptive" =>
              RulesAreGraded(a.asked.tool, a.events, a.asked.filter)

AdviceInv ==
    /\ recentDenied \in Seq(DeniedEntries) /\ Len(recentDenied) <= DeniedKept
    /\ AdviceOK(advice)

\* Of the fallback and of what the model said, what was asked for is left.
LEMMA AnswersAreLeft ==
    ASSUME NEW asked \in AdviceRequests, NEW events \in Seq(DeniedCalls)
    PROVE  /\ AskedTypes(Fallback(events), asked) \in Seq(RecsOf(events))
           /\ LeftAsAsked(AskedTypes(Fallback(events), asked), asked)
           /\ \A said \in Seq(Suggestions) : Normalize(said) # <<>> =>
                /\ AskedTypes(Normalize(said), asked) \in Seq(RecsSaid)
                /\ LeftAsAsked(AskedTypes(Normalize(said), asked), asked)
<1>1. \A x \in RecsOf(events) : x.type \in AdviceTypes
  BY DEF RecsOf
<1>2. \A x \in RecsSaid : x.type \in AdviceTypes
  BY DEF RecsSaid
<1>3. /\ AskedTypes(Fallback(events), asked) \in Seq(RecsOf(events))
      /\ LeftAsAsked(AskedTypes(Fallback(events), asked), asked)
  <2>1. Fallback(events) \in Seq(RecsOf(events)) /\ Fallback(events) # <<>>
    BY FallbackIsOfEvents
  <2> QED BY <1>1, <2>1, AskedAreLeft DEF LeftAsAsked
<1>4. ASSUME NEW said \in Seq(Suggestions), Normalize(said) # <<>>
      PROVE  /\ AskedTypes(Normalize(said), asked) \in Seq(RecsSaid)
             /\ LeftAsAsked(AskedTypes(Normalize(said), asked), asked)
  <2>1. Normalize(said) \in Seq(RecsSaid)
    BY NormalizeIsBounded
  <2> QED BY <1>2, <1>4, <2>1, AskedAreLeft DEF LeftAsAsked
<1> QED BY <1>3, <1>4

\* Without advice of the model the fallback answers.
LEMMA FallenIsOK ==
    ASSUME NEW a, AdviceOK(a), a.pc \in {"client", "chat"}, NEW invoked \in BOOLEAN
    PROVE  AdviceOK(Fallen(a, invoked))
<1> DEFINE b == Fallen(a, invoked)
           recs == AskedTypes(Fallback(a.events), a.asked)
<1>1. /\ DOMAIN a = AdviceFields /\ a.events \in Seq(DeniedCalls) /\ a.asked \in AdviceRequests
      /\ a.total \in Nat /\ Len(a.events) <= a.total
  BY DEF AdviceOK
<1>2. recs \in Seq(RecsOf(a.events)) /\ LeftAsAsked(recs, a.asked)
  BY <1>1, AnswersAreLeft
<1> HIDE DEF recs
<1>3. /\ DOMAIN b = AdviceFields /\ b.pc = "done" /\ b.fallback = TRUE /\ b.recs = recs
      /\ b.events = a.events /\ b.total = a.total /\ b.asked = a.asked
  BY <1>1 DEF Fallen, AdviceFields, recs
<1> HIDE DEF b
<1> QED BY <1>1, <1>2, <1>3 DEF AdviceOK, b

\* Advice of the model is what it said, normalised.
LEMMA SuggestedIsOK ==
    ASSUME NEW a, AdviceOK(a), a.pc \in {"client", "chat"}, NEW said \in SuggestionLists
    PROVE  AdviceOK(Suggested(a, said))
<1>1. said \in Seq(Suggestions)
  <2> DEFINE one == {<<s>> : s \in Suggestions}
             two == {<<s, t>> : s, t \in Suggestions}
  <2>1. one \subseteq Seq(Suggestions) /\ two \subseteq Seq(Suggestions)
    <3>1. \A s \in Suggestions : <<s>> \in Seq(Suggestions)
      OBVIOUS
    <3>2. \A s, t \in Suggestions : <<s, t>> \in Seq(Suggestions)
      OBVIOUS
    <3>3. one \subseteq Seq(Suggestions)
      BY <3>1
    <3>4. ASSUME NEW x \in two PROVE x \in Seq(Suggestions)
      <4>1. PICK s \in Suggestions, t \in Suggestions : x = <<s, t>>
        OBVIOUS
      <4> QED BY <3>2, <4>1
    <3> QED BY <3>3, <3>4
  <2>2. SuggestionLists = {<<>>} \cup one \cup two
    BY DEF SuggestionLists
  <2> HIDE DEF one, two
  <2>3. said = <<>> \/ said \in one \/ said \in two
    BY <2>2
  <2>4. <<>> \in Seq(Suggestions)
    OBVIOUS
  <2> QED BY <2>1, <2>3, <2>4
<1>2. CASE Normalize(said) = <<>>
  BY <1>2, FallenIsOK DEF Suggested
<1>3. CASE Normalize(said) # <<>>
  <2> DEFINE b == Advised(a, Normalize(said))
             recs == AskedTypes(Normalize(said), a.asked)
  <2>1. /\ DOMAIN a = AdviceFields /\ a.events \in Seq(DeniedCalls) /\ a.asked \in AdviceRequests
        /\ a.total \in Nat /\ Len(a.events) <= a.total
    BY DEF AdviceOK
  <2>2. recs \in Seq(RecsSaid) /\ LeftAsAsked(recs, a.asked)
    BY <1>1, <1>3, <2>1, AnswersAreLeft
  <2> HIDE DEF recs
  <2>3. /\ DOMAIN b = AdviceFields /\ b.pc = "done" /\ b.invoked = TRUE /\ b.fallback = FALSE
        /\ b.recs = recs /\ b.events = a.events /\ b.total = a.total /\ b.asked = a.asked
    BY <2>1 DEF Advised, AdviceFields, recs
  <2>4. Suggested(a, said) = b
    BY <1>3 DEF Suggested
  <2> HIDE DEF b
  <2> QED BY <2>1, <2>2, <2>3, <2>4 DEF AdviceOK
<1> QED BY <1>2, <1>3

\* A denied call is remembered before the others, the oldest fall out.
LEMMA CallDeniedKeeps == AdviceInv /\ CallDenied => AdviceInv'
<1> SUFFICES ASSUME AdviceInv, CallDenied PROVE AdviceInv'
  OBVIOUS
<1>1. PICK d \in DeniedCalls :
        LET kept == <<[call |-> d, old |-> FALSE]>> \o recentDenied
        IN  recentDenied' = SubSeq(kept, 1, Min({DeniedKept, Len(kept)}))
  BY DEF CallDenied
<1> DEFINE e == [call |-> d, old |-> FALSE]
           kept == <<e>> \o recentDenied
<1>2. e \in DeniedEntries /\ recentDenied \in Seq(DeniedEntries)
  BY DEF DeniedEntries, AdviceInv
<1>3. recentDenied' = FirstOf(kept, DeniedKept)
  BY <1>1 DEF FirstOf
<1> HIDE DEF e
<1>4. kept \in Seq(DeniedEntries)
  BY <1>2
<1> HIDE DEF kept
<1>5. DeniedKept \in Nat
  BY AdviceAssumption
<1>6. /\ FirstOf(kept, DeniedKept) \in Seq(DeniedEntries)
      /\ Len(FirstOf(kept, DeniedKept)) = IF DeniedKept <= Len(kept) THEN DeniedKept ELSE Len(kept)
  BY <1>4, <1>5, FirstOfSeq
<1>7. Len(recentDenied') <= DeniedKept
  <2>1. Len(kept) \in Nat
    BY <1>4, LenProperties
  <2> QED BY <1>3, <1>5, <1>6, <2>1
<1>8. advice' = advice
  BY DEF CallDenied
<1> QED BY <1>3, <1>6, <1>7, <1>8 DEF AdviceInv

\* Denials grow old where they are.
LEMMA DenialsAgeKeeps == AdviceInv /\ DenialsAge => AdviceInv'
<1> SUFFICES ASSUME AdviceInv, DenialsAge PROVE AdviceInv'
  OBVIOUS
<1>1. PICK k \in DOMAIN recentDenied :
        recentDenied' = [i \in DOMAIN recentDenied |->
                            [recentDenied[i] EXCEPT !.old = @ \/ i >= k]]
  BY DEF DenialsAge
<1> DEFINE n == Len(recentDenied)
<1>2. /\ n \in Nat /\ DOMAIN recentDenied = 1 .. n /\ n <= DeniedKept
      /\ \A i \in 1 .. n : recentDenied[i] \in DeniedEntries
  BY LenProperties, ElementOfSeq DEF AdviceInv
<1> HIDE DEF n
<1>3. \A i \in 1 .. n : recentDenied'[i] \in DeniedEntries
  <2> SUFFICES ASSUME NEW i \in 1 .. n PROVE recentDenied'[i] \in DeniedEntries
    OBVIOUS
  <2> DEFINE e == recentDenied[i]
             b == e.old \/ i >= k
  <2>1. e \in DeniedEntries
    BY <1>2
  <2>2. recentDenied'[i] = [e EXCEPT !.old = b]
    BY <1>1, <1>2
  <2>3. b \in BOOLEAN
    OBVIOUS
  <2> HIDE DEF b, e
  <2> QED BY <2>1, <2>2, <2>3 DEF DeniedEntries
<1>4. recentDenied' \in [1 .. n -> DeniedEntries]
  BY <1>1, <1>2, <1>3
<1>5. recentDenied' \in Seq(DeniedEntries) /\ Len(recentDenied') = n
  BY <1>2, <1>4, FunctionIsSeq
<1>6. advice' = advice
  BY DEF DenialsAge
<1> QED BY <1>2, <1>5, <1>6 DEF AdviceInv

\* An analysis begins with a copy of the denials; without a model the fallback
\* answers at once.
LEMMA AskAdviceKeeps == AdviceInv /\ AskAdvice => AdviceInv'
<1> SUFFICES ASSUME AdviceInv, AskAdvice PROVE AdviceInv'
  OBVIOUS
<1>1. PICK asked \in AdviceRequests :
        LET events == EventsFor(asked)
        IN  advice' = [NoAdvice EXCEPT
               !.pc = IF asked.llm THEN "client" ELSE "done",
               !.asked = asked, !.events = events, !.total = Len(InRange),
               !.engine = IF asked.kind = "policy" THEN "deterministic" ELSE "none",
               !.fallback = asked.kind # "policy",
               !.recs = AskedTypes(Fallback(events), asked)]
  BY DEF AskAdvice
<1> DEFINE events == EventsFor(asked)
           recs == AskedTypes(Fallback(events), asked)
           engine == IF asked.kind = "policy" THEN "deterministic" ELSE "none"
           pc == IF asked.llm THEN "client" ELSE "done"
           fallback == asked.kind # "policy"
           total == Len(InRange)
<1>2. events \in Seq(DeniedCalls) /\ total \in Nat /\ Len(events) <= total
  BY EventsAreDenied DEF AdviceInv
<1>3. advice' = [pc |-> pc, asked |-> asked, events |-> events, total |-> total, invoked |-> FALSE,
                 engine |-> engine, fallback |-> fallback, recs |-> recs]
  BY <1>1 DEF NoAdvice
<1>4. pc \in {"client", "done"}
  OBVIOUS
<1> HIDE DEF events
<1>5. recs \in Seq(RecsOf(events)) /\ LeftAsAsked(recs, asked)
  BY <1>2, AnswersAreLeft
<1> HIDE DEF recs, engine, pc, fallback, total
<1>6. /\ DOMAIN advice' = AdviceFields /\ advice'.pc = pc /\ advice'.asked = asked
      /\ advice'.events = events /\ advice'.total = total /\ advice'.invoked = FALSE
      /\ advice'.recs = recs
  BY <1>3 DEF AdviceFields
<1>7. AdviceOK(advice')
  BY <1>2, <1>4, <1>5, <1>6 DEF AdviceOK
<1>8. recentDenied' = recentDenied
  BY DEF AskAdvice
<1> QED BY <1>7, <1>8 DEF AdviceInv

\* The model is asked twice at most.
LEMMA ModelKeeps == AdviceInv /\ (AskClient \/ AskChat) => AdviceInv'
<1> SUFFICES ASSUME AdviceInv, AskClient \/ AskChat PROVE AdviceInv'
  OBVIOUS
<1>1. AdviceOK(advice) /\ advice.pc \in {"client", "chat"} /\ recentDenied' = recentDenied
  BY DEF AdviceInv, AskClient, AskChat
<1>2. \/ advice' = [advice EXCEPT !.pc = "chat"] \/ advice' = Fallen(advice, FALSE)
      \/ \E said \in SuggestionLists : advice' = Suggested(advice, said)
  BY DEF AskClient, AskChat
<1>3. CASE advice' = [advice EXCEPT !.pc = "chat"]
  <2>1. DOMAIN advice = AdviceFields
    BY <1>1 DEF AdviceOK
  <2>2. /\ DOMAIN advice' = AdviceFields /\ advice'.pc = "chat" /\ advice'.asked = advice.asked
        /\ advice'.events = advice.events /\ advice'.total = advice.total
    BY <1>3, <2>1 DEF AdviceFields
  <2>3. AdviceOK(advice')
    BY <1>1, <2>2 DEF AdviceOK
  <2> QED BY <1>1, <2>3 DEF AdviceInv
<1>4. CASE advice' = Fallen(advice, FALSE)
  BY <1>1, <1>4, FallenIsOK DEF AdviceInv
<1>5. CASE \E said \in SuggestionLists : advice' = Suggested(advice, said)
  BY <1>1, <1>5, SuggestedIsOK DEF AdviceInv
<1> QED BY <1>2, <1>3, <1>4, <1>5

\* The two tools read the summary and change nothing else.
LEMMA ToolsKeep == AdviceInv /\ (AskPolicyTool \/ AskMaskingTool) => AdviceInv'
<1> SUFFICES ASSUME AdviceInv, AskPolicyTool \/ AskMaskingTool PROVE AdviceInv'
  OBVIOUS
<1>1. /\ DOMAIN advice = AdviceFields /\ advice.events \in Seq(DeniedCalls)
      /\ advice.total \in Nat /\ Len(advice.events) <= advice.total
  BY DEF AdviceInv, AdviceOK
<1>2. recentDenied' = recentDenied
  BY DEF AskPolicyTool, AskMaskingTool, ToolAdvice
<1>3. ASSUME NEW asked, advice' = [advice EXCEPT !.pc = "tool", !.recs = <<>>, !.asked = asked]
      PROVE  /\ DOMAIN advice' = AdviceFields /\ advice'.pc = "tool" /\ advice'.asked = asked
             /\ advice'.events = advice.events /\ advice'.total = advice.total
  BY <1>1, <1>3 DEF AdviceFields
<1>4. CASE AskPolicyTool
  <2>1. PICK focus \in {"all", "overblocking", "underblocking"},
             types \in RequestTypes \ {{"unknown"}}, pattern \in BOOLEAN :
               ToolAdvice([kind |-> "rules", types |-> types,
                           tool |-> PolicyRules(advice.events, focus, types, pattern)])
    BY <1>4 DEF AskPolicyTool
  <2> DEFINE rules == PolicyRules(advice.events, focus, types, pattern)
             asked == [kind |-> "rules", types |-> types, tool |-> rules]
  <2>2. RulesAreSound(rules, advice.events, types)
    BY <1>1, PolicyRulesAreSound
  <2>3. advice' = [advice EXCEPT !.pc = "tool", !.recs = <<>>, !.asked = asked]
    BY <2>1 DEF ToolAdvice
  <2> HIDE DEF rules
  <2>4. asked.kind = "rules" /\ asked.types = types /\ asked.tool = rules
    OBVIOUS
  <2>5. rules # {} /\ \A r \in rules : r.tools \subseteq Seen(advice.events, "tool")
    BY <2>2 DEF RulesAreSound
  <2> HIDE DEF asked
  <2>6. AdviceOK(advice')
    BY <1>1, <1>3, <2>2, <2>3, <2>4, <2>5 DEF AdviceOK
  <2> QED BY <1>2, <2>6 DEF AdviceInv
<1>5. CASE AskMaskingTool
  <2>1. PICK mode \in {"monitor", "review"}, filter \in SUBSET {d.tool : d \in DeniedCalls} :
               ToolAdvice([kind |-> "adaptive", types |-> {"masking"}, filter |-> filter,
                           tool |-> AdaptiveRules(advice.events, mode, filter)])
    BY <1>5 DEF AskMaskingTool
  <2> DEFINE rules == AdaptiveRules(advice.events, mode, filter)
             asked == [kind |-> "adaptive", types |-> {"masking"}, filter |-> filter,
                       tool |-> rules]
  <2>2. /\ rules # {} /\ \A r \in rules : r.tools \subseteq Seen(advice.events, "tool")
        /\ RulesAreGraded(rules, advice.events, filter)
    BY <1>1, AdaptiveRulesAreGraded
  <2>3. advice' = [advice EXCEPT !.pc = "tool", !.recs = <<>>, !.asked = asked]
    BY <2>1 DEF ToolAdvice
  <2> HIDE DEF rules
  <2>4. asked.kind = "adaptive" /\ asked.filter = filter /\ asked.tool = rules
    OBVIOUS
  <2> HIDE DEF asked
  <2>5. AdviceOK(advice')
    BY <1>1, <1>3, <2>2, <2>3, <2>4 DEF AdviceOK
  <2> QED BY <1>2, <2>5 DEF AdviceInv
<1> QED BY <1>4, <1>5

\* The invariant says of advice what is promised of it.
LEMMA AdviceInvGivesHolds == AdviceInv => AdviceHolds
<1> SUFFICES ASSUME AdviceInv PROVE AdviceHolds
  OBVIOUS
<1>1. AdviceOK(advice)
  BY DEF AdviceInv
<1>2. AdviceTypeOK
  BY <1>1 DEF AdviceTypeOK, AdviceInv, AdviceOK
<1>3. ASSUME AdviceGiven, NEW i \in DOMAIN advice.recs
      PROVE  /\ ByModel => advice.recs[i] \in RecsSaid
             /\ ~ByModel => advice.recs[i] \in RecsOf(advice.events)
  <2> DEFINE recs == advice.recs
             X == IF ByModel THEN RecsSaid ELSE RecsOf(advice.events)
  <2>1. recs \in Seq(X) /\ i \in DOMAIN recs
    BY <1>1, <1>3 DEF AdviceOK, AdviceGiven, ByModel
  <2> HIDE DEF recs, X
  <2>2. recs[i] \in X
    BY <2>1, LenProperties, ElementOfSeq
  <2> QED BY <2>2 DEF recs, X
<1>4. AdviceIsOfItsEvents
  BY <1>3 DEF AdviceIsOfItsEvents, RecsOf
<1>5. AdviceIsAskedFor
  BY <1>1 DEF AdviceIsAskedFor, AdviceOK, AdviceGiven, LeftAsAsked
<1>6. AdviceTellsItsSource
  BY <1>3 DEF AdviceTellsItsSource, RecsOf, RecsSaid, RecKeys, RecActions, MaskingActions
<1>7. RulesAreOfDenials
  BY <1>1 DEF RulesAreOfDenials, AdviceOK, RulesAreSound
<1>8. MaskingIsGraded
  BY <1>1 DEF MaskingIsGraded, AdviceOK, RulesAreGraded
<1> QED BY <1>2, <1>4, <1>5, <1>6, <1>7, <1>8 DEF AdviceHolds

\* Advice on the policy is of the denials it counts, of the types asked for, says
\* who gave it, and the rules of the tools are of calls that were denied.
THEOREM AdviceIsHonest == AdviceSpec => []AdviceHolds
<1>1. AdviceInit => AdviceInv
  <2> SUFFICES ASSUME AdviceInit PROVE AdviceInv
    OBVIOUS
  <2>1. recentDenied = <<>> /\ advice = NoAdvice
    BY DEF AdviceInit
  <2>2. recentDenied \in Seq(DeniedEntries) /\ Len(recentDenied) <= DeniedKept
    BY <2>1, AdviceAssumption
  <2>3. /\ DOMAIN advice = AdviceFields /\ advice.pc = "idle" /\ advice.events = <<>>
        /\ advice.total = 0
    BY <2>1 DEF NoAdvice, AdviceFields
  <2>4. <<>> \in Seq(DeniedCalls) /\ Len(<<>>) = 0
    OBVIOUS
  <2>5. AdviceOK(advice)
    BY <2>3, <2>4 DEF AdviceOK
  <2> QED BY <2>2, <2>5 DEF AdviceInv
<1>2. AdviceInv /\ [AdviceNext]_adviceVars => AdviceInv'
  <2> SUFFICES ASSUME AdviceInv, [AdviceNext]_adviceVars PROVE AdviceInv'
    OBVIOUS
  <2>1. CASE AdviceNext
    BY <2>1, CallDeniedKeeps, DenialsAgeKeeps, AskAdviceKeeps, ModelKeeps, ToolsKeep
       DEF AdviceNext
  <2>2. CASE UNCHANGED adviceVars
    BY <2>2 DEF adviceVars, AdviceInv
  <2> QED BY <2>1, <2>2
<1> QED BY <1>1, <1>2, AdviceInvGivesHolds, PTL DEF AdviceSpec

\* What is made of the denied calls is of them, of the discovery alerts and of the
\* advice together: both are promised side by side.
THEOREM DenialsAreUsedWell == AdviceSpec /\ DiscoverySpec => []DenialsAreUsed
<1>1. AdviceHolds /\ DiscoveryHolds => DenialsAreUsed
  BY DEF DenialsAreUsed
<1> QED BY <1>1, AdviceIsHonest, DiscoveryAlertsHold, PTL
=============================================================================
