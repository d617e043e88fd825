---------------------- MODULE ResourceWorkspaceProofs ----------------------
(***************************************************************************)
(* Proofs about the working copy and the session around it.  Of the copy:  *)
(* typing, that undo is never refused, and that the stack of deltas        *)
(* implements the stack of contents of UndoStack, for every byte alphabet, *)
(* original, edit and size.  Of the session: typing, the optimistic        *)
(* concurrency control of the tools' drafts, that the journal replays to   *)
(* the applied edits, the finality of parser errors, and that the session  *)
(* drives its working copy only through that copy's own operations, so     *)
(* that every fact about WorkingCopy carries over.                         *)
(***************************************************************************)
EXTENDS ResourceWorkspace, FiniteSetTheorems, SequenceTheorems, TLAPS

-----------------------------------------------------------------------------
(* The working copy. *)

(***************************************************************************)
(* Splice replaces n bytes and keeps the others where they were.           *)
(***************************************************************************)
LEMMA SpliceElements ==
  ASSUME NEW S, NEW s \in Seq(S), NEW r \in Seq(S), NEW o \in Nat, NEW n \in Nat,
         o + n <= Len(s)
  PROVE  /\ Splice(s, o, n, r) \in Seq(S)
         /\ Len(Splice(s, o, n, r)) = Len(s) - n + Len(r)
         /\ \A i \in 1 .. Len(s) - n + Len(r) :
              Splice(s, o, n, r)[i] =
                IF i <= o THEN s[i]
                ELSE IF i <= o + Len(r) THEN r[i - o]
                ELSE s[i - Len(r) + n]
<1> DEFINE head == SubSeq(s, 1, o)
           tail == SubSeq(s, o + n + 1, Len(s))
<1>1. Len(s) \in Nat /\ Len(r) \in Nat
  BY LenProperties
<1>2. \A i \in 1 .. Len(s) : s[i] \in S
  BY ElementOfSeq
<1>3. head \in Seq(S) /\ Len(head) = o /\ \A i \in 1 .. o : head[i] = s[i]
  <2>1. \A i \in 1 .. o : s[i] \in S
    BY <1>1, <1>2
  <2>2. /\ head \in Seq(S)
        /\ Len(head) = IF 1 <= o THEN o - 1 + 1 ELSE 0
        /\ \A i \in 1 .. o - 1 + 1 : head[i] = s[1 + i - 1]
    BY <2>1, SubSeqProperties
  <2> HIDE DEF head
  <2> QED
    BY <2>2
<1>4. /\ tail \in Seq(S)
      /\ Len(tail) = Len(s) - o - n
      /\ \A i \in 1 .. Len(s) - o - n : tail[i] = s[o + n + i]
  <2>0. o + n + 1 \in Int /\ Len(s) \in Int
    BY <1>1
  <2>1. \A i \in o + n + 1 .. Len(s) : s[i] \in S
    BY <1>1, <1>2
  <2>2. /\ tail \in Seq(S)
        /\ Len(tail) = IF o + n + 1 <= Len(s) THEN Len(s) - (o + n + 1) + 1 ELSE 0
        /\ \A i \in 1 .. Len(s) - (o + n + 1) + 1 : tail[i] = s[(o + n + 1) + i - 1]
    BY <2>0, <2>1, SubSeqProperties
  <2> HIDE DEF tail
  <2> QED
    BY <2>2, <1>1
<1> DEFINE mid == head \o r
<1>5. /\ mid \in Seq(S)
      /\ Len(mid) = o + Len(r)
      /\ \A i \in 1 .. o + Len(r) : mid[i] = IF i <= o THEN head[i] ELSE r[i - o]
  <2> HIDE DEF head
  <2> QED
    BY <1>3, ConcatProperties
<1> DEFINE w == mid \o tail
<1>6. /\ w \in Seq(S)
      /\ Len(w) = Len(mid) + Len(tail)
      /\ \A i \in 1 .. Len(mid) + Len(tail) :
           w[i] = IF i <= Len(mid) THEN mid[i] ELSE tail[i - Len(mid)]
  <2>1. mid \in Seq(S) /\ tail \in Seq(S)
    BY <1>4, <1>5
  <2> HIDE DEF mid, tail
  <2> QED
    BY <2>1, ConcatProperties
<1>7. Splice(s, o, n, r) = w
  BY DEF Splice
<1> HIDE DEF head, tail, mid, w
<1>8. Len(w) = Len(s) - n + Len(r)
  BY <1>1, <1>4, <1>5, <1>6
<1>9. ASSUME NEW i \in 1 .. Len(s) - n + Len(r)
      PROVE  w[i] = IF i <= o THEN s[i]
                    ELSE IF i <= o + Len(r) THEN r[i - o]
                    ELSE s[i - Len(r) + n]
  <2>1. w[i] = IF i <= o + Len(r) THEN mid[i] ELSE tail[i - (o + Len(r))]
    <3>1. Len(mid) = o + Len(r) /\ Len(tail) = Len(s) - o - n
      BY <1>4, <1>5
    <3>2. i \in 1 .. Len(mid) + Len(tail)
      BY <1>1, <3>1
    <3>3. w[i] = IF i <= Len(mid) THEN mid[i] ELSE tail[i - Len(mid)]
      BY <1>6, <3>2
    <3> QED
      BY <3>1, <3>3
  <2>2. CASE i <= o
    BY <1>1, <1>3, <1>5, <2>1, <2>2
  <2>3. CASE o < i /\ i <= o + Len(r)
    BY <1>1, <1>5, <2>1, <2>3
  <2>4. CASE o + Len(r) < i
    <3>1. i - (o + Len(r)) \in 1 .. Len(s) - o - n
      BY <1>1, <2>4
    <3>2. tail[i - (o + Len(r))] = s[o + n + (i - (o + Len(r)))]
      BY <1>4, <3>1
    <3>3. /\ o + n + (i - (o + Len(r))) = i - Len(r) + n
          /\ ~(i <= o) /\ ~(i <= o + Len(r))
      BY <1>1, <2>4
    <3> QED
      BY <2>1, <3>2, <3>3
  <2> QED
    BY <1>1, <2>2, <2>3, <2>4
<1> QED
  BY <1>6, <1>7, <1>8, <1>9

(***************************************************************************)
(* The elements of a slice.                                                *)
(***************************************************************************)
LEMMA SliceElements ==
  ASSUME NEW S, NEW s \in Seq(S), NEW o \in Nat, NEW n \in Nat, o + n <= Len(s)
  PROVE  /\ Slice(s, o, n) \in Seq(S)
         /\ Len(Slice(s, o, n)) = n
         /\ \A i \in 1 .. n : Slice(s, o, n)[i] = s[o + i]
<1>1. Len(s) \in Nat
  BY LenProperties
<1>2. \A i \in o + 1 .. o + n : s[i] \in S
  BY <1>1, ElementOfSeq
<1>3. o + 1 \in Int /\ o + n \in Int
  OBVIOUS
<1> DEFINE sl == SubSeq(s, o + 1, o + n)
<1>4. /\ sl \in Seq(S)
      /\ Len(sl) = IF o + 1 <= o + n THEN (o + n) - (o + 1) + 1 ELSE 0
      /\ \A i \in 1 .. (o + n) - (o + 1) + 1 : sl[i] = s[(o + 1) + i - 1]
  BY <1>2, <1>3, SubSeqProperties
<1>5. Slice(s, o, n) = sl
  BY DEF Slice
<1> HIDE DEF sl
<1>6. (o + n) - (o + 1) + 1 = n /\ (o + 1 <= o + n <=> n # 0)
  OBVIOUS
<1>7. Len(sl) = n
  BY <1>4, <1>6
<1>8. ASSUME NEW i \in 1 .. n PROVE sl[i] = s[o + i]
  <2>1. (o + 1) + i - 1 = o + i
    OBVIOUS
  <2> QED
    BY <1>4, <1>6, <2>1
<1> QED
  BY <1>4, <1>5, <1>7, <1>8

(***************************************************************************)
(* Applying a delta backwards undoes it: the replacement is where it was   *)
(* written, and putting the expected bytes back gives the bytes of before. *)
(***************************************************************************)
LEMMA SpliceInverse ==
  ASSUME NEW S, NEW s \in Seq(S), NEW e \in Seq(S), NEW r \in Seq(S), NEW o \in Nat,
         Matches(s, o, e)
  PROVE  LET t == Splice(s, o, Len(e), r)
         IN  /\ t \in Seq(S)
             /\ Matches(t, o, r)
             /\ Splice(t, o, Len(r), e) = s
<1> DEFINE t == Splice(s, o, Len(e), r)
           u == Splice(t, o, Len(r), e)
<1>1. Len(s) \in Nat /\ Len(r) \in Nat /\ Len(e) \in Nat
  BY LenProperties
<1>2. o + Len(e) <= Len(s) /\ Slice(s, o, Len(e)) = e
  BY <1>1 DEF Matches
<1>3. \A i \in 1 .. Len(e) : e[i] = s[o + i]
  <2>1. ASSUME NEW n \in Nat, o + n <= Len(s)
        PROVE  \A i \in 1 .. n : Slice(s, o, n)[i] = s[o + i]
    BY <2>1, SliceElements
  <2>2. \A i \in 1 .. Len(e) : Slice(s, o, Len(e))[i] = s[o + i]
    BY <1>1, <1>2, <2>1
  <2> QED
    BY <1>2, <2>2
<1>4. /\ t \in Seq(S)
      /\ Len(t) = Len(s) - Len(e) + Len(r)
      /\ \A i \in 1 .. Len(s) - Len(e) + Len(r) :
           t[i] = IF i <= o THEN s[i]
                  ELSE IF i <= o + Len(r) THEN r[i - o]
                  ELSE s[i - Len(r) + Len(e)]
  BY <1>1, <1>2, SpliceElements
<1> HIDE DEF t
<1>5. o + Len(r) <= Len(t)
  BY <1>1, <1>2, <1>4
<1>6. /\ u \in Seq(S)
      /\ Len(u) = Len(t) - Len(r) + Len(e)
      /\ \A i \in 1 .. Len(t) - Len(r) + Len(e) :
           u[i] = IF i <= o THEN t[i]
                  ELSE IF i <= o + Len(e) THEN e[i - o]
                  ELSE t[i - Len(e) + Len(r)]
  <2> DEFINE m == Len(r)
  <2>1. t \in Seq(S) /\ m \in Nat /\ o + m <= Len(t)
    BY <1>1, <1>4, <1>5
  <2> HIDE DEF m
  <2>2. /\ Splice(t, o, m, e) \in Seq(S)
        /\ Len(Splice(t, o, m, e)) = Len(t) - m + Len(e)
        /\ \A i \in 1 .. Len(t) - m + Len(e) :
             Splice(t, o, m, e)[i] =
               IF i <= o THEN t[i]
               ELSE IF i <= o + Len(e) THEN e[i - o]
               ELSE t[i - Len(e) + m]
    BY <2>1, SpliceElements
  <2> QED
    BY <2>2 DEF m
<1>7. /\ Slice(t, o, Len(r)) \in Seq(S)
      /\ Len(Slice(t, o, Len(r))) = Len(r)
      /\ \A i \in 1 .. Len(r) : Slice(t, o, Len(r))[i] = t[o + i]
  <2>1. t \in Seq(S)
    BY <1>4
  <2> QED
    BY <1>1, <1>5, <2>1, SliceElements
<1>8. Matches(t, o, r)
  <2>1. ASSUME NEW i \in 1 .. Len(r) PROVE t[o + i] = r[i]
    <3>1. o + i \in 1 .. Len(s) - Len(e) + Len(r) /\ ~(o + i <= o) /\ o + i <= o + Len(r)
      BY <1>1, <1>2
    <3>2. t[o + i] = r[(o + i) - o]
      BY <1>4, <3>1
    <3>3. (o + i) - o = i
      OBVIOUS
    <3> QED
      BY <3>2, <3>3
  <2>2. Slice(t, o, Len(r)) = r
    BY <1>1, <1>7, <2>1, SeqEqual
  <2> QED
    BY <1>1, <1>4, <1>5, <2>2 DEF Matches
<1>9. u = s
  <2> HIDE DEF u
  <2>1. Len(u) = Len(s)
    BY <1>1, <1>4, <1>6
  <2>2. \A i \in 1 .. Len(u) : u[i] = s[i]
    <3> SUFFICES ASSUME NEW i \in 1 .. Len(u) PROVE u[i] = s[i]
      OBVIOUS
    <3>0. i \in 1 .. Len(s) /\ i \in Nat
      BY <1>1, <2>1
    <3>1. CASE i <= o
      <4>1. i \in 1 .. Len(s) - Len(e) + Len(r) /\ i \in 1 .. Len(t) - Len(r) + Len(e)
        BY <1>1, <1>2, <1>4, <3>0, <3>1
      <4>2. u[i] = t[i] /\ t[i] = s[i]
        BY <1>4, <1>6, <3>1, <4>1
      <4> QED
        BY <4>2
    <3>2. CASE o < i /\ i <= o + Len(e)
      <4>1. i \in 1 .. Len(t) - Len(r) + Len(e) /\ ~(i <= o)
        BY <1>1, <1>2, <1>4, <3>0, <3>2
      <4>2. u[i] = e[i - o]
        BY <1>6, <3>2, <4>1
      <4>3. i - o \in 1 .. Len(e) /\ o + (i - o) = i
        BY <1>1, <3>0, <3>2
      <4>4. e[i - o] = s[o + (i - o)]
        BY <1>3, <4>3
      <4> QED
        BY <4>2, <4>3, <4>4
    <3>3. CASE o + Len(e) < i
      <4> DEFINE j == i - Len(e) + Len(r)
      <4>1. i \in 1 .. Len(t) - Len(r) + Len(e) /\ ~(i <= o) /\ ~(i <= o + Len(e))
        BY <1>1, <1>2, <1>4, <3>0, <3>3
      <4>2. u[i] = t[j]
        BY <1>6, <4>1
      <4>3. /\ j \in 1 .. Len(s) - Len(e) + Len(r) /\ ~(j <= o) /\ ~(j <= o + Len(r))
            /\ j - Len(r) + Len(e) = i
        BY <1>1, <1>2, <3>0, <3>3
      <4> HIDE DEF j
      <4>4. t[j] = s[j - Len(r) + Len(e)]
        BY <1>4, <4>3
      <4> QED
        BY <4>2, <4>3, <4>4
    <3> QED
      BY <1>1, <3>0, <3>1, <3>2, <3>3
  <2> QED
    BY <1>6, <2>1, <2>2, SeqEqual
<1> QED
  BY <1>4, <1>8, <1>9 DEF t, u

-----------------------------------------------------------------------------
(***************************************************************************)
(* The inductive invariant.  HistoryLinked is what makes undo work: it     *)
(* ties every delta on the stack to the content it was applied to.         *)
(***************************************************************************)
CopyInv == TypeOKCopy /\ HistoryLinked

\* Shape of the operations on the stack.
LEMMA AppliedOperation ==
  ASSUME TypeOKCopy, NEW k \in 1 .. Len(applied)
  PROVE  /\ applied[k].offset \in Nat
         /\ applied[k].expected \in Content
         /\ applied[k].replacement \in Content
         /\ before[k] \in Content
<1>1. applied[k] \in EditOperation
  BY ElementOfSeq DEF TypeOKCopy
<1>2. before[k] \in Content
  BY ElementOfSeq DEF TypeOKCopy
<1> QED
  BY <1>1, <1>2 DEF EditOperation

\* The delta on top of the stack fits, and undoing it gives before's top.
LEMMA TopDelta ==
  ASSUME CopyInv, applied # <<>>
  PROVE  LET n == Len(applied)
             last == applied[n]
         IN  /\ n \in Nat \ {0}
             /\ last \in EditOperation
             /\ before[n] \in Content
             /\ UndoFits(last)
             /\ Splice(current, last.offset, Len(last.replacement), last.expected)
                  = before[n]
<1> DEFINE n == Len(applied)
           last == applied[n]
<1>1. n \in Nat \ {0}
  BY EmptySeq DEF CopyInv, TypeOKCopy
<1>2. n \in 1 .. Len(applied) /\ After(n) = current
  BY <1>1 DEF After
<1>3. last \in EditOperation
  BY <1>2, ElementOfSeq DEF CopyInv, TypeOKCopy
<1>4. /\ last.offset \in Nat /\ last.expected \in Content
      /\ last.replacement \in Content /\ before[n] \in Content
  BY <1>2, AppliedOperation DEF CopyInv
<1>5. /\ Matches(before[n], last.offset, last.expected)
      /\ current = Splice(before[n], last.offset, Len(last.expected), last.replacement)
  BY <1>2 DEF CopyInv, HistoryLinked
<1> HIDE DEF last, n
<1>6. /\ Matches(current, last.offset, last.replacement)
      /\ Splice(current, last.offset, Len(last.replacement), last.expected) = before[n]
  BY <1>4, <1>5, SpliceInverse DEF Content
<1> QED
  BY <1>1, <1>3, <1>4, <1>6 DEF UndoFits, n, last

LEMMA InitInv == InitCopy => CopyInv
  BY OriginalAssumption, EmptySeq DEF InitCopy, CopyInv, TypeOKCopy, HistoryLinked, Content

\* An accepted edit puts a delta on the stack that leads to the new content.
LEMMA ApplyInv ==
  ASSUME CopyInv, NEW op \in EditOperation, Apply(op)
  PROVE  CopyInv'
<1> DEFINE n == Len(applied)
<1>0. /\ current \in Content /\ revision \in Nat /\ applied \in Seq(EditOperation)
      /\ before \in Seq(Content) /\ Len(before) = n /\ n \in Nat
  BY LenProperties DEF CopyInv, TypeOKCopy
<1>1. op.offset \in Nat /\ op.expected \in Content /\ op.replacement \in Content
  BY DEF EditOperation
<1>2. /\ Matches(current, op.offset, op.expected)
      /\ current' = Splice(current, op.offset, Len(op.expected), op.replacement)
      /\ applied' = Append(applied, op)
      /\ before' = Append(before, current)
      /\ revision' = revision + 1
  BY DEF Apply, Accepts
<1>3. current' \in Content
  BY <1>0, <1>1, <1>2, SpliceInverse DEF Content
<1>4. /\ applied' \in Seq(EditOperation) /\ Len(applied') = n + 1
      /\ applied'[n + 1] = op
      /\ \A k \in 1 .. n : applied'[k] = applied[k]
  BY <1>0, <1>2, AppendProperties
<1>5. /\ before' \in Seq(Content) /\ Len(before') = n + 1
      /\ before'[n + 1] = current
      /\ \A k \in 1 .. n : before'[k] = before[k]
  BY <1>0, <1>2, AppendProperties
<1>6. TypeOKCopy'
  BY <1>0, <1>2, <1>3, <1>4, <1>5 DEF TypeOKCopy
<1> HIDE DEF n
<1>7. HistoryLinked'
  <2>1. Original = IF applied' = <<>> THEN current' ELSE before'[1]
    <3>1. applied' # <<>>
      BY <1>0, <1>4, EmptySeq
    <3>2. CASE n = 0
      <4>1. applied = <<>>
        BY <1>0, <3>2, EmptySeq DEF n
      <4>2. before'[1] = current
        BY <1>5, <3>2
      <4> QED
        BY <3>1, <4>1, <4>2 DEF CopyInv, HistoryLinked
    <3>3. CASE n # 0
      <4>1. applied # <<>>
        BY <3>3, EmptySeq DEF n
      <4>2. before'[1] = before[1]
        BY <1>0, <1>5, <3>3
      <4> QED
        BY <3>1, <4>1, <4>2 DEF CopyInv, HistoryLinked
    <3> QED
      BY <3>2, <3>3
  <2>2. ASSUME NEW k \in 1 .. n + 1
        PROVE  /\ Matches(before'[k], applied'[k].offset, applied'[k].expected)
               /\ After(k)' = Splice(before'[k], applied'[k].offset,
                                     Len(applied'[k].expected), applied'[k].replacement)
    <3>1. CASE k = n + 1
      <4>1. After(k)' = current'
        BY <1>4, <3>1 DEF After
      <4> QED
        BY <1>2, <1>4, <1>5, <3>1, <4>1
    <3>2. CASE k # n + 1
      <4>1. k \in 1 .. n /\ applied'[k] = applied[k] /\ before'[k] = before[k]
        BY <1>0, <1>4, <1>5, <3>2
      <4>2. After(k)' = before'[k + 1]
        BY <1>0, <1>4, <3>2 DEF After
      <4>3. before'[k + 1] = After(k)
        <5>1. CASE k = n
          BY <1>5, <5>1 DEF After, n
        <5>2. CASE k # n
          <6>1. k + 1 \in 1 .. n
            BY <1>0, <4>1, <5>2
          <6> QED
            BY <1>5, <5>2, <6>1 DEF After, n
        <5> QED
          BY <5>1, <5>2
      <4> QED
        BY <4>1, <4>2, <4>3 DEF CopyInv, HistoryLinked, n
    <3> QED
      BY <3>1, <3>2
  <2> QED
    BY <1>4, <2>1, <2>2 DEF HistoryLinked
<1> QED
  BY <1>6, <1>7 DEF CopyInv

\* The first n - 1 elements of a sequence of length n.
LEMMA FrontElements ==
  ASSUME NEW S, NEW s \in Seq(S), s # <<>>
  PROVE  LET f == SubSeq(s, 1, Len(s) - 1)
         IN  /\ f \in Seq(S)
             /\ Len(f) = Len(s) - 1
             /\ \A k \in 1 .. Len(s) - 1 : f[k] = s[k]
<1> DEFINE n == Len(s)
           f == SubSeq(s, 1, n - 1)
<1>1. n \in Nat /\ n >= 1
  BY EmptySeq
<1>2. \A i \in 1 .. n - 1 : s[i] \in S
  <2>1. \A i \in 1 .. Len(s) : s[i] \in S
    BY ElementOfSeq
  <2> QED
    BY <1>1, <2>1
<1> HIDE DEF n
<1>3. n - 1 \in Int /\ 1 \in Int
  BY <1>1
<1>4. /\ f \in Seq(S)
      /\ Len(f) = IF 1 <= n - 1 THEN (n - 1) - 1 + 1 ELSE 0
      /\ \A i \in 1 .. (n - 1) - 1 + 1 : f[i] = s[1 + i - 1]
  BY <1>2, <1>3, SubSeqProperties
<1> HIDE DEF f
<1>5. Len(f) = n - 1
  BY <1>1, <1>4
<1>6. \A k \in 1 .. n - 1 : f[k] = s[k]
  BY <1>1, <1>4
<1> QED
  BY <1>4, <1>5, <1>6 DEF f, n

\* Undo takes the top delta off the stack and restores what was before it.
LEMMA UndoInv ==
  ASSUME CopyInv, UndoLast
  PROVE  CopyInv' /\ current' = before[Len(before)] /\ before # <<>>
<1> DEFINE n == Len(applied)
<1>0. /\ current \in Content /\ revision \in Nat /\ applied \in Seq(EditOperation)
      /\ before \in Seq(Content) /\ Len(before) = n
  BY DEF CopyInv, TypeOKCopy
<1>1. applied # <<>>
  BY DEF UndoLast
<1>2. n \in Nat \ {0} /\ before # <<>>
  BY <1>0, <1>1, EmptySeq
<1>3. current' = before[n] /\ before[n] \in Content
  BY <1>1, TopDelta DEF UndoLast, Unapplied
<1>4. /\ applied' \in Seq(EditOperation) /\ Len(applied') = n - 1
      /\ \A k \in 1 .. n - 1 : applied'[k] = applied[k]
  BY <1>0, <1>1, FrontElements DEF UndoLast, Popped
<1>5. /\ before' \in Seq(Content) /\ Len(before') = n - 1
      /\ \A k \in 1 .. n - 1 : before'[k] = before[k]
  BY <1>0, <1>2, FrontElements DEF UndoLast
<1>6. revision' \in Nat
  BY <1>0 DEF UndoLast, RevisionAfterUndo
<1>7. TypeOKCopy'
  BY <1>3, <1>4, <1>5, <1>6 DEF TypeOKCopy
<1> HIDE DEF n
<1>8. HistoryLinked'
  <2>0. Original = before[1]
    BY <1>1 DEF CopyInv, HistoryLinked
  <2>1. Original = IF applied' = <<>> THEN current' ELSE before'[1]
    <3>1. CASE n = 1
      <4>1. applied' = <<>>
        BY <1>4, <3>1, EmptySeq
      <4> QED
        BY <1>3, <2>0, <3>1, <4>1
    <3>2. CASE n # 1
      <4>1. applied' # <<>>
        BY <1>2, <1>4, <3>2, EmptySeq
      <4>2. before'[1] = before[1]
        BY <1>2, <1>5, <3>2
      <4> QED
        BY <2>0, <4>1, <4>2
    <3> QED
      BY <3>1, <3>2
  <2>2. ASSUME NEW k \in 1 .. n - 1
        PROVE  /\ Matches(before'[k], applied'[k].offset, applied'[k].expected)
               /\ After(k)' = Splice(before'[k], applied'[k].offset,
                                     Len(applied'[k].expected), applied'[k].replacement)
    <3>1. k \in 1 .. n /\ k # n /\ applied'[k] = applied[k] /\ before'[k] = before[k]
      BY <1>2, <1>4, <1>5
    <3>2. After(k)' = After(k)
      <4>1. After(k) = before[k + 1]
        BY <3>1 DEF After, n
      <4>2. CASE k = n - 1
        <5>1. After(k)' = current' /\ k + 1 = n
          BY <1>2, <1>4, <4>2 DEF After
        <5> QED
          BY <1>3, <4>1, <5>1
      <4>3. CASE k # n - 1
        <5>1. After(k)' = before'[k + 1] /\ k + 1 \in 1 .. n - 1
          BY <1>2, <1>4, <4>3 DEF After
        <5> QED
          BY <1>5, <4>1, <5>1
      <4> QED
        BY <4>2, <4>3
    <3> QED
      BY <3>1, <3>2 DEF CopyInv, HistoryLinked, n
  <2> QED
    BY <1>4, <2>1, <2>2 DEF HistoryLinked
<1> QED
  BY <1>0, <1>2, <1>3, <1>7, <1>8 DEF CopyInv

LEMMA ResetInv == ASSUME Reset PROVE CopyInv'
  BY OriginalAssumption, EmptySeq DEF Reset, CopyInv, TypeOKCopy, HistoryLinked, Content

LEMMA StutterInv == ASSUME CopyInv, UNCHANGED copyVars PROVE CopyInv'
  BY DEF copyVars, CopyInv, TypeOKCopy, HistoryLinked, After

LEMMA NextInv == ASSUME CopyInv, [NextCopy]_copyVars PROVE CopyInv'
  BY ApplyInv, UndoInv, ResetInv, StutterInv DEF NextCopy

(***************************************************************************)
(* Every field of the working copy keeps its type, and the stack of deltas *)
(* stays linked to the contents it replaced.                               *)
(***************************************************************************)
THEOREM WorkingCopyInvariant == SpecCopy => []CopyInv
<1>1. InitCopy => CopyInv
  BY InitInv
<1>2. CopyInv /\ [NextCopy]_copyVars => CopyInv'
  BY NextInv
<1> QED
  BY <1>1, <1>2, PTL DEF SpecCopy

(***************************************************************************)
(* WorkingCopy::undo_last refuses only an empty history.                   *)
(***************************************************************************)
THEOREM UndoAlwaysFits == SpecCopy => []UndoNeverRefused
<1>1. CopyInv => UndoNeverRefused
  BY TopDelta DEF UndoNeverRefused
<1> QED
  BY <1>1, WorkingCopyInvariant, PTL

(***************************************************************************)
(* The delta stack of WorkingCopy implements the content stack UndoStack:  *)
(* undo restores, byte for byte, what the last active edit replaced.       *)
(***************************************************************************)
THEOREM ImplementsUndoStack == SpecCopy => RefinesUndoStack
<1>1. InitCopy => History!Init
  BY DEF InitCopy, History!Init
<1>2. CopyInv /\ CopyInv' /\ [NextCopy]_copyVars => [History!Next]_(History!vars)
  <2> SUFFICES ASSUME CopyInv, CopyInv', [NextCopy]_copyVars
               PROVE  [History!Next]_(History!vars)
    OBVIOUS
  <2>1. ASSUME NEW op \in EditOperation, Apply(op) PROVE History!Edit
    BY <2>1 DEF Apply, History!Edit, CopyInv, TypeOKCopy, Content
  <2>2. UndoLast => History!Undo
    BY UndoInv DEF UndoLast, History!Undo
  <2>3. Reset => History!Restore
    BY DEF Reset, History!Restore
  <2>4. CASE UNCHANGED copyVars
    BY <2>4 DEF copyVars, History!vars
  <2> QED
    BY <2>1, <2>2, <2>3, <2>4 DEF NextCopy, History!Next
<1> QED
  BY <1>1, <1>2, WorkingCopyInvariant, PTL DEF SpecCopy, RefinesUndoStack, History!Spec

-----------------------------------------------------------------------------
(* The session. *)


(***************************************************************************)
(* The inductive invariant.  Drafts of an earlier lifetime never become    *)
(* drafts of the current one, which is why the property speaks only about  *)
(* drafts composed since the last reset.  A stored validation of a session *)
(* that saw a parser error says so.                                        *)
(***************************************************************************)
DraftsOfPast == \A t \in Tool : draft[t] # None => draft[t].lifetime <= resets

ErrorsRemembered == parserErrors /\ validation # None => validation.errors

SessionTypes ==
  /\ format \in Format
  /\ validation \in Validation \union {None}
  /\ parserErrors \in BOOLEAN
  /\ enabled \in BOOLEAN
  /\ attached \subseteq Attachment
  /\ linked \subseteq Evidence
  /\ draft \in [Tool -> Draft \union {None}]
  /\ resets \in Nat

SessionInv ==
  /\ CopyInv
  /\ SessionTypes
  /\ DraftsOfPast
  /\ CurrentDraftSawCurrentBytes
  /\ ErrorsRemembered

LEMMA DraftFields ==
  ASSUME SessionTypes, NEW t \in Tool, draft[t] # None
  PROVE  /\ draft[t] \in Draft
         /\ draft[t].op \in EditOperation
         /\ draft[t].op.base_revision \in Nat
         /\ draft[t].lifetime \in Nat
  BY DEF SessionTypes, Draft, EditOperation

LEMMA SessionInit == Init => SessionInv
<1> SUFFICES ASSUME Init PROVE SessionInv
  OBVIOUS
<1>1. CopyInv
  BY InitInv DEF Init
<1>2. \A t \in Tool : draft[t] = None
  BY DEF Init
<1>3. SessionTypes
  BY DEF Init, SessionTypes
<1>4. DraftsOfPast /\ CurrentDraftSawCurrentBytes
  BY <1>2 DEF DraftsOfPast, CurrentDraftSawCurrentBytes
<1>5. ErrorsRemembered
  BY DEF Init, ErrorsRemembered
<1> QED
  BY <1>1, <1>3, <1>4, <1>5 DEF SessionInv

\* Actions of the session that leave the working copy and the drafts alone.
LEMMA SessionOnlyStep ==
  ASSUME SessionInv, UNCHANGED <<copyVars, draft, resets>>
  PROVE  CopyInv' /\ DraftsOfPast' /\ CurrentDraftSawCurrentBytes'
<1>1. CopyInv'
  BY StutterInv DEF SessionInv
<1>2. DraftsOfPast'
  BY DEF SessionInv, DraftsOfPast
<1>3. CurrentDraftSawCurrentBytes'
  BY DEF SessionInv, CurrentDraftSawCurrentBytes, copyVars
<1> QED
  BY <1>1, <1>2, <1>3

\* Actions that change the bytes and count the revision up.
LEMMA RevisionStep ==
  ASSUME SessionInv, revision' = revision + 1, UNCHANGED resets,
         \A t \in Tool : draft'[t] # None => draft'[t] = draft[t]
  PROVE  DraftsOfPast' /\ CurrentDraftSawCurrentBytes'
<1>1. revision \in Nat
  BY DEF SessionInv, CopyInv, TypeOKCopy
<1>2. \A t \in Tool : draft[t] # None => draft[t].op.base_revision \in Nat
  BY DraftFields DEF SessionInv
<1>3. DraftsOfPast'
  BY DEF SessionInv, DraftsOfPast
<1>4. CurrentDraftSawCurrentBytes'
  <2> SUFFICES ASSUME NEW t \in Tool, draft'[t] # None, draft'[t].lifetime = resets'
               PROVE  /\ draft'[t].op.base_revision <= revision'
                      /\ draft'[t].op.base_revision # revision'
    BY DEF CurrentDraftSawCurrentBytes
  <2>1. draft'[t] = draft[t] /\ draft[t] # None /\ draft[t].lifetime = resets
    OBVIOUS
  <2>2. draft[t].op.base_revision <= revision
    BY <2>1 DEF SessionInv, CurrentDraftSawCurrentBytes
  <2>3. draft[t].op.base_revision \in Nat
    BY <1>2, <2>1
  <2> QED
    BY <1>1, <2>1, <2>2, <2>3
<1> QED
  BY <1>3, <1>4

LEMMA SessionStep == SessionInv /\ [Next]_vars => SessionInv'
<1> SUFFICES ASSUME SessionInv, [Next]_vars PROVE SessionInv'
  OBVIOUS
<1>0. /\ SessionTypes /\ CopyInv /\ current \in Content /\ revision \in Nat
      /\ resets \in Nat
  BY DEF SessionInv, SessionTypes, CopyInv, TypeOKCopy
<1>1. ASSUME NEW s \in {"info", "error", "malformed"}, AddParserDiagnostics(s)
      PROVE  SessionInv'
  <2>1. UNCHANGED <<copyVars, draft, resets>>
    BY <1>1 DEF AddParserDiagnostics
  <2>2. SessionTypes'
    BY <1>0, <1>1 DEF AddParserDiagnostics, SessionTypes, Validation, foundVars
  <2>3. ErrorsRemembered'
    BY <1>0, <1>1 DEF AddParserDiagnostics, SessionInv, SessionTypes, ErrorsRemembered,
       Validation
  <2> QED
    BY <2>1, <2>2, <2>3, SessionOnlyStep DEF SessionInv
<1>2. ASSUME NEW p \in Parser, NEW recognized \in BOOLEAN,
             RecordParserCompleted(p, recognized)
      PROVE  SessionInv'
  <2>1. UNCHANGED <<copyVars, draft, resets>>
    BY <1>2 DEF RecordParserCompleted
  <2>2. SessionTypes'
    BY <1>0, <1>2 DEF RecordParserCompleted, SessionTypes, Validation, foundVars
  <2>3. ErrorsRemembered'
    BY <1>2 DEF RecordParserCompleted, ErrorsRemembered
  <2> QED
    BY <2>1, <2>2, <2>3, SessionOnlyStep DEF SessionInv
<1>3. CASE EnableWorkingCopy
  <2>1. UNCHANGED <<copyVars, draft, resets>>
    BY <1>3 DEF EnableWorkingCopy
  <2>2. SessionTypes' /\ ErrorsRemembered'
    BY <1>0, <1>3 DEF EnableWorkingCopy, SessionTypes, SessionInv, ErrorsRemembered, foundVars
  <2> QED
    BY <2>1, <2>2, SessionOnlyStep DEF SessionInv
<1>4. ASSUME NEW t \in Tool, NEW id \in EditId, NEW o \in 0 .. Len(current),
             NEW n \in 0 .. Len(current), NEW r \in Replacement, Compose(t, id, o, n, r)
      PROVE  SessionInv'
  <2>0. o \in Nat /\ n \in Nat /\ o + n <= Len(current)
    BY <1>0, <1>4, LenProperties DEF Compose
  <2> DEFINE op == [id |-> id, base_revision |-> revision, offset |-> o,
                    expected |-> Slice(current, o, n), replacement |-> r]
             d == [op |-> op, seen |-> current, lifetime |-> resets]
  <2>1. Slice(current, o, n) \in Content
    BY <1>0, <2>0, SliceElements DEF Content
  <2>2. d \in Draft
    BY <1>0, <2>0, <2>1, ReplacementAssumption DEF Draft, EditOperation, Content
  <2>3. draft' = [draft EXCEPT ![t] = d] /\ UNCHANGED <<copyVars, sessionVars, resets>>
    BY <1>4 DEF Compose
  <2>4. /\ d.lifetime = resets /\ d.op.base_revision = revision /\ d.seen = current
    OBVIOUS
  <2> HIDE DEF op, d
  <2>5. SessionTypes'
    BY <1>0, <2>2, <2>3 DEF SessionTypes, sessionVars, foundVars
  <2>6. CopyInv'
    BY <1>0, <2>3, StutterInv
  <2>7. \A u \in Tool : draft'[u] = IF u = t THEN d ELSE draft[u]
    BY <1>0, <2>3 DEF SessionTypes
  <2>8. DraftsOfPast'
    BY <1>0, <2>3, <2>4, <2>7 DEF SessionInv, DraftsOfPast
  <2>9. CurrentDraftSawCurrentBytes'
    BY <1>0, <2>3, <2>4, <2>7 DEF SessionInv, CurrentDraftSawCurrentBytes, copyVars
  <2>10. ErrorsRemembered'
    BY <2>3 DEF SessionInv, ErrorsRemembered, sessionVars
  <2> QED
    BY <2>5, <2>6, <2>8, <2>9, <2>10 DEF SessionInv
<1>5. ASSUME NEW t \in Tool, ApplyEdit(t)
      PROVE  SessionInv'
  <2>1. draft[t].op \in EditOperation /\ Apply(draft[t].op)
    BY <1>0, <1>5, DraftFields DEF ApplyEdit
  <2>2. CopyInv'
    BY <1>0, <2>1, ApplyInv
  <2>3. /\ revision' = revision + 1 /\ UNCHANGED <<resets, format, validation, parserErrors, enabled, foundVars>>
        /\ draft' = [draft EXCEPT ![t] = None]
    BY <1>5, <2>1 DEF ApplyEdit, Apply, Submitted
  <2>4. SessionTypes' /\ ErrorsRemembered'
    BY <1>0, <2>3 DEF SessionTypes, SessionInv, ErrorsRemembered, foundVars
  <2>5. \A u \in Tool : draft'[u] # None => draft'[u] = draft[u]
    BY <1>0, <2>3 DEF SessionTypes
  <2> QED
    BY <2>2, <2>3, <2>4, <2>5, RevisionStep DEF SessionInv
<1>6. ASSUME NEW t \in Tool, EditRefused(t)
      PROVE  SessionInv'
  <2>1. /\ UNCHANGED <<copyVars, sessionVars, resets>>
        /\ draft' = [draft EXCEPT ![t] = None]
    BY <1>6 DEF EditRefused, Submitted
  <2>2. SessionTypes' /\ ErrorsRemembered'
    BY <1>0, <2>1 DEF SessionTypes, SessionInv, ErrorsRemembered, sessionVars, foundVars
  <2>3. \A u \in Tool : draft'[u] # None => draft'[u] = draft[u]
    BY <1>0, <2>1 DEF SessionTypes
  <2>4. CopyInv'
    BY <1>0, <2>1, StutterInv
  <2>5. DraftsOfPast' /\ CurrentDraftSawCurrentBytes'
    BY <2>1, <2>3 DEF SessionInv, DraftsOfPast, CurrentDraftSawCurrentBytes, copyVars
  <2> QED
    BY <2>2, <2>4, <2>5 DEF SessionInv
<1>7. ASSUME NEW t \in Tool, UndoLastEdit(t)
      PROVE  SessionInv'
  <2>1. CopyInv'
    BY <1>0, <1>7, UndoInv DEF UndoLastEdit
  <2>2. /\ revision' = revision + 1
        /\ UNCHANGED <<format, validation, parserErrors, enabled, foundVars, draft, resets>>
    BY <1>7 DEF UndoLastEdit, UndoLast, RevisionAfterUndo
  <2>3. SessionTypes' /\ ErrorsRemembered'
    BY <1>0, <2>2 DEF SessionTypes, SessionInv, ErrorsRemembered, foundVars
  <2> QED
    BY <2>1, <2>2, <2>3, RevisionStep DEF SessionInv
<1>8. ASSUME NEW t \in Tool, ResetWorkingCopy(t)
      PROVE  SessionInv'
  <2>1. CopyInv'
    BY <1>8, ResetInv DEF ResetWorkingCopy
  <2>2. /\ resets' = resets + 1
        /\ UNCHANGED <<format, validation, parserErrors, enabled, foundVars, draft>>
    BY <1>8 DEF ResetWorkingCopy
  <2>3. SessionTypes' /\ ErrorsRemembered'
    BY <1>0, <2>2 DEF SessionTypes, SessionInv, ErrorsRemembered, foundVars
  <2>4. \A u \in Tool : draft[u] # None =>
          draft[u].lifetime \in Nat /\ draft[u].lifetime <= resets
    BY <1>0, DraftFields DEF SessionInv, DraftsOfPast
  <2>5. DraftsOfPast'
    BY <1>0, <2>2, <2>4 DEF DraftsOfPast
  <2>6. CurrentDraftSawCurrentBytes'
    BY <1>0, <2>2, <2>4 DEF CurrentDraftSawCurrentBytes
  <2> QED
    BY <2>1, <2>3, <2>5, <2>6 DEF SessionInv
<1>9. CASE UNCHANGED vars
  <2>1. UNCHANGED <<copyVars, draft, resets>> /\ UNCHANGED sessionVars
    BY <1>9 DEF vars
  <2>2. SessionTypes' /\ ErrorsRemembered'
    BY <1>0, <2>1 DEF SessionTypes, SessionInv, ErrorsRemembered, sessionVars, foundVars
  <2> QED
    BY <2>1, <2>2, SessionOnlyStep DEF SessionInv
<1>10. ASSUME NEW type, NEW subject, Note(type, subject), attached' \subseteq Attachment,
              linked' \subseteq Evidence
       PROVE  SessionInv'
  <2>1. UNCHANGED <<copyVars, draft, resets>>
    BY <1>10 DEF Note
  <2>2. SessionTypes' /\ ErrorsRemembered'
    BY <1>0, <1>10 DEF Note, SessionTypes, SessionInv, ErrorsRemembered
  <2> QED
    BY <2>1, <2>2, SessionOnlyStep DEF SessionInv
<1>11. /\ AttachBinaryDocument => SessionInv'
       /\ AttachStageBundle => SessionInv'
       /\ AttachExecutableContext => SessionInv'
  BY <1>0, <1>10 DEF AttachBinaryDocument, AttachStageBundle, AttachExecutableContext,
     Attachment, SessionTypes
<1>12. ASSUME NEW record \in Evidence, LinkEvidenceRecord(record)
       PROVE  SessionInv'
  BY <1>0, <1>10, <1>12 DEF LinkEvidenceRecord, SessionTypes
<1>13. ASSUME NEW type \in Work, RecordWork(type)
       PROVE  SessionInv'
  BY <1>0, <1>10, <1>13 DEF RecordWork, SessionTypes, foundVars
<1> QED
  BY <1>1, <1>2, <1>3, <1>4, <1>5, <1>6, <1>7, <1>8, <1>9, <1>11, <1>12, <1>13 DEF Next

THEOREM SessionInvariant == Spec => []SessionInv
<1>1. Init => SessionInv
  BY SessionInit
<1>2. SessionInv /\ [Next]_vars => SessionInv'
  BY SessionStep
<1> QED
  BY <1>1, <1>2, PTL DEF Spec

(***************************************************************************)
(* Typing of the whole session, the journal included.                      *)
(***************************************************************************)
LEMMA RecordTyped ==
  ASSUME events \in Seq(Event), NEW rev \in Nat,
         NEW type \in EventType, NEW subject \in Subject,
         Record(type, rev, subject)
  PROVE  events' \in Seq(Event)
<1> DEFINE e == [type |-> type, revision |-> rev, subject |-> subject]
<1>1. e \in Event
  BY DEF Event
<1>2. events' = Append(events, e)
  BY DEF Record
<1> HIDE DEF e
<1> QED
  BY <1>1, <1>2, AppendProperties

THEOREM TypeCorrect == Spec => []TypeOK
<1> DEFINE Typed == events \in Seq(Event)
<1>1. Init => Typed
  BY DEF Init
<1>2. SessionInv /\ Typed /\ [Next]_vars => Typed'
  <2> SUFFICES ASSUME SessionInv, events \in Seq(Event), [Next]_vars PROVE events' \in Seq(Event)
    OBVIOUS
  <2>0. revision \in Nat /\ 0 \in Nat /\ revision + 1 \in Nat /\ SessionTypes
    BY DEF SessionInv, CopyInv, TypeOKCopy
  <2>1. ASSUME NEW rev \in Nat, NEW type \in EventType, NEW subject \in Subject,
               Record(type, rev, subject)
        PROVE  events' \in Seq(Event)
    BY <2>1, RecordTyped
  <2>2. /\ None \in Subject /\ Parser \subseteq Subject /\ EditId \subseteq Subject
        /\ Evidence \subseteq Subject /\ CanonicalParser \in Subject
    BY ParserAssumption DEF Subject
  <2>3. ASSUME NEW s \in {"info", "error", "malformed"}, AddParserDiagnostics(s)
        PROVE  events' \in Seq(Event)
    BY <2>0, <2>1, <2>2, <2>3 DEF AddParserDiagnostics, EventType
  <2>4. ASSUME NEW p \in Parser, NEW recognized \in BOOLEAN,
               RecordParserCompleted(p, recognized)
        PROVE  events' \in Seq(Event)
    BY <2>0, <2>1, <2>2, <2>4 DEF RecordParserCompleted, EventType
  <2>5. CASE EnableWorkingCopy
    BY <2>0, <2>1, <2>2, <2>5 DEF EnableWorkingCopy, EventType
  <2>6. ASSUME NEW t \in Tool, ApplyEdit(t) PROVE events' \in Seq(Event)
    <3>1. draft[t].op.id \in EditId
      BY <2>0, <2>6, DraftFields DEF ApplyEdit, EditOperation
    <3> QED
      BY <2>0, <2>1, <2>2, <2>6, <3>1 DEF ApplyEdit, EventType
  <2>7. ASSUME NEW t \in Tool, UndoLastEdit(t) PROVE events' \in Seq(Event)
    BY <2>0, <2>1, <2>2, <2>7 DEF UndoLastEdit, EventType
  <2>8. ASSUME NEW t \in Tool, ResetWorkingCopy(t) PROVE events' \in Seq(Event)
    BY <2>0, <2>1, <2>2, <2>8 DEF ResetWorkingCopy, EventType
  <2>9. ASSUME NEW type \in EventType, NEW subject \in Subject, Note(type, subject)
        PROVE  events' \in Seq(Event)
    BY <2>0, <2>1, <2>9 DEF Note
  <2>10. /\ AttachBinaryDocument => events' \in Seq(Event)
         /\ AttachStageBundle => events' \in Seq(Event)
         /\ AttachExecutableContext => events' \in Seq(Event)
    BY <2>2, <2>9 DEF AttachBinaryDocument, AttachStageBundle, AttachExecutableContext,
       EventType, Attachment
  <2>11. ASSUME NEW record \in Evidence, LinkEvidenceRecord(record)
         PROVE  events' \in Seq(Event)
    BY <2>2, <2>9, <2>11 DEF LinkEvidenceRecord, EventType
  <2>12. ASSUME NEW type \in Work, RecordWork(type) PROVE events' \in Seq(Event)
    BY <2>2, <2>9, <2>12, WorkAssumption DEF RecordWork, EventType
  <2>13. UNCHANGED events => events' \in Seq(Event)
    OBVIOUS
  <2> QED
    BY <2>3, <2>4, <2>5, <2>6, <2>7, <2>8, <2>10, <2>11, <2>12, <2>13
       DEF Next, vars, sessionVars, Compose, EditRefused
<1>3. SessionInv /\ Typed => TypeOK
  BY DEF SessionInv, CopyInv, SessionTypes, TypeOK
<1> QED
  BY <1>1, <1>2, <1>3, SessionInvariant, PTL DEF Spec

(***************************************************************************)
(* What the journal tells beside the edits.  Both facts are inductive      *)
(* together with the types: an entry is appended and never changed, and    *)
(* every operation records at the revision it leaves.                      *)
(***************************************************************************)
LEMMA JournalGrows ==
  ASSUME events \in Seq(Event), NEW e \in Event, events' = Append(events, e)
  PROVE  /\ Len(events) \in Nat
         /\ Len(events') = Len(events) + 1
         /\ \A k \in 1 .. Len(events) : events'[k] = events[k]
         /\ events'[Len(events) + 1] = e
  BY AppendProperties, LenProperties

LEMMA RevisionEntry ==
  ASSUME events \in Seq(Event), RevisionsConnect, NEW e \in Event,
         events' = Append(events, e), revision' = e.revision,
         e.revision = CASE e.type \in {"edit_applied", "edit_undone"} -> revision + 1
                        [] e.type = "working_copy_reset" -> 0
                        [] OTHER -> revision
  PROVE  RevisionsConnect'
<1>0. /\ Len(events) \in Nat /\ Len(events') = Len(events) + 1
      /\ \A k \in 1 .. Len(events) : events'[k] = events[k]
      /\ events'[Len(events) + 1] = e
  BY JournalGrows
<1>1. \A k \in 0 .. Len(events) : RevisionAfter(k)' = RevisionAfter(k)
  BY <1>0 DEF RevisionAfter
<1>2. revision' = RevisionAfter(Len(events))'
  BY <1>0 DEF RevisionAfter
<1>3. ASSUME NEW k \in 1 .. Len(events')
      PROVE  events'[k].revision =
               CASE events'[k].type \in {"edit_applied", "edit_undone"} -> RevisionAfter(k - 1)' + 1
                 [] events'[k].type = "working_copy_reset" -> 0
                 [] OTHER -> RevisionAfter(k - 1)'
  <2>1. CASE k = Len(events) + 1
    <3>1. RevisionAfter(k - 1)' = revision
      BY <1>0, <1>1, <2>1 DEF RevisionsConnect
    <3>2. events'[k] = e
      BY <1>0, <2>1
    <3> QED
      BY <3>1, <3>2
  <2>2. CASE k \in 1 .. Len(events)
    <3>1. RevisionAfter(k - 1)' = RevisionAfter(k - 1) /\ events'[k] = events[k]
      BY <1>0, <1>1, <2>2
    <3> QED
      BY <2>2, <3>1 DEF RevisionsConnect
  <2> QED
    BY <1>0, <2>1, <2>2
<1> QED
  BY <1>2, <1>3 DEF RevisionsConnect

LEMMA FindingEntry ==
  ASSUME events \in Seq(Event), FindingsTold, NEW e \in Event,
         events' = Append(events, e),
         attached' = attached \union (Attachment \intersect {e.type}),
         linked' = linked \union (IF e.type = "evidence_record_linked" THEN {e.subject} ELSE {}),
         e.type = "evidence_record_linked" => e.subject \notin linked,
         e.type = "executable_context_attached" => e.type \notin attached
  PROVE  FindingsTold'
<1>0. /\ Len(events) \in Nat /\ Len(events') = Len(events) + 1
      /\ \A k \in 1 .. Len(events) : events'[k] = events[k]
      /\ events'[Len(events) + 1] = e
  BY JournalGrows
<1> DEFINE new == Len(events) + 1
<1>1. \A type : Told(type)' = Told(type) \union (IF e.type = type THEN {new} ELSE {})
  BY <1>0 DEF Told
<1>2. \A type : Told(type) \subseteq 1 .. Len(events)
  BY DEF Told
<1>3. attached' = {a \in Attachment : Told(a)' # {}}
  BY <1>1 DEF FindingsTold
<1>4. linked' = {events'[k].subject : k \in Told("evidence_record_linked")'}
  <2>1. \A k \in Told("evidence_record_linked") : events'[k] = events[k]
    BY <1>0, <1>2
  <2>2. {events'[k].subject : k \in Told("evidence_record_linked")} = linked
    BY <2>1 DEF FindingsTold
  <2>3. CASE e.type = "evidence_record_linked"
    <3>1. Told("evidence_record_linked")' = Told("evidence_record_linked") \union {new}
      BY <1>1, <2>3
    <3>2. {events'[k].subject : k \in Told("evidence_record_linked") \union {new}} =
            {events'[k].subject : k \in Told("evidence_record_linked")} \union {events'[new].subject}
      OBVIOUS
    <3>3. linked' = linked \union {events'[new].subject}
      BY <1>0, <2>3
    <3> QED
      BY <2>2, <3>1, <3>2, <3>3
  <2>4. CASE e.type # "evidence_record_linked"
    BY <1>1, <2>2, <2>4
  <2> QED
    BY <2>3, <2>4
<1> DEFINE Once(type) == type \in {"evidence_record_linked", "executable_context_attached"}
<1>5. \A k \in 1 .. Len(events) :
        events[k].type = e.type /\ events[k].subject = e.subject => ~Once(e.type)
  <2> SUFFICES ASSUME NEW k \in 1 .. Len(events), events[k].type = e.type,
                      events[k].subject = e.subject, Once(e.type)
               PROVE  FALSE
    OBVIOUS
  <2>1. k \in Told(e.type)
    BY DEF Told
  <2>2. CASE e.type = "evidence_record_linked"
    BY <2>1, <2>2 DEF FindingsTold
  <2>3. CASE e.type = "executable_context_attached"
    BY <2>1, <2>3 DEF FindingsTold, Attachment
  <2> QED
    BY <2>2, <2>3
<1>6. ASSUME NEW j \in 1 .. Len(events'), NEW k \in 1 .. Len(events'),
             events'[j].type = events'[k].type, events'[j].subject = events'[k].subject,
             Once(events'[j].type)
      PROVE  j = k
  <2>1. CASE j \in 1 .. Len(events) /\ k \in 1 .. Len(events)
    BY <1>0, <1>6, <2>1 DEF FindingsTold
  <2>2. CASE j = new /\ k \in 1 .. Len(events)
    BY <1>0, <1>5, <1>6, <2>2
  <2>3. CASE k = new /\ j \in 1 .. Len(events)
    BY <1>0, <1>5, <1>6, <2>3
  <2> QED
    BY <1>0, <2>1, <2>2, <2>3
<1> QED
  BY <1>3, <1>4, <1>6 DEF FindingsTold

LEMMA Entry ==
  ASSUME events \in Seq(Event), RevisionsConnect, FindingsTold,
         NEW type \in EventType, NEW rev \in Nat, NEW subject \in Subject,
         Record(type, rev, subject), revision' = rev,
         rev = CASE type \in {"edit_applied", "edit_undone"} -> revision + 1
                 [] type = "working_copy_reset" -> 0
                 [] OTHER -> revision,
         attached' = attached \union (Attachment \intersect {type}),
         linked' = linked \union (IF type = "evidence_record_linked" THEN {subject} ELSE {}),
         type = "evidence_record_linked" => subject \notin linked,
         type = "executable_context_attached" => type \notin attached
  PROVE  RevisionsConnect' /\ FindingsTold'
<1> DEFINE e == [type |-> type, revision |-> rev, subject |-> subject]
<1>1. e \in Event /\ e.type = type /\ e.revision = rev /\ e.subject = subject
  BY DEF Event
<1>2. events' = Append(events, e)
  BY DEF Record
<1> HIDE DEF e
<1>3. RevisionsConnect'
  BY <1>1, <1>2, RevisionEntry
<1>4. FindingsTold'
  BY <1>1, <1>2, FindingEntry
<1> QED
  BY <1>3, <1>4

\* An entry of the working copy's life, which finds nothing.
LEMMA CopyEntry ==
  ASSUME events \in Seq(Event), RevisionsConnect, FindingsTold, UNCHANGED foundVars,
         NEW type \in EventType \ (Attachment \union {"evidence_record_linked"}),
         NEW rev \in Nat, NEW subject \in Subject,
         Record(type, rev, subject), revision' = rev,
         rev = CASE type \in {"edit_applied", "edit_undone"} -> revision + 1
                 [] type = "working_copy_reset" -> 0
                 [] OTHER -> revision
  PROVE  RevisionsConnect' /\ FindingsTold'
<1>1. /\ attached' = attached \union (Attachment \intersect {type})
      /\ linked' = linked \union (IF type = "evidence_record_linked" THEN {subject} ELSE {})
  BY DEF foundVars
<1>2. type \in EventType /\ type # "evidence_record_linked"
      /\ type # "executable_context_attached"
  BY DEF Attachment
<1> QED
  BY <1>1, <1>2, Entry

\* Nothing is composed, and so nothing applied, before the copy is enabled.
Unopened == ~enabled => revision = 0 /\ \A t \in Tool : draft[t] = None

(***************************************************************************)
(* The revisions of the journal connect from the first entry to the        *)
(* working copy's revision, and the journal tells all that was attached    *)
(* and linked, for every set of tools, records and kinds of work.          *)
(***************************************************************************)
THEOREM JournalConnects == Spec => [](RevisionsConnect /\ FindingsTold)
<1> DEFINE JInv == Unopened /\ RevisionsConnect /\ FindingsTold
<1>1. Init => JInv
  <2> SUFFICES ASSUME Init PROVE JInv
    OBVIOUS
  <2>1. Unopened
    BY DEF Init, InitCopy, Unopened
  <2>2. events = <<>> /\ Len(events) = 0 /\ revision = 0 /\ attached = {} /\ linked = {}
    BY DEF Init, InitCopy
  <2>3. \A type : Told(type) = {}
    BY <2>2 DEF Told
  <2>4. RevisionsConnect
    BY <2>2 DEF RevisionsConnect, RevisionAfter
  <2>5. FindingsTold
    BY <2>2, <2>3 DEF FindingsTold
  <2> QED
    BY <2>1, <2>4, <2>5
<1>2. TypeOK /\ SessionInv /\ JInv /\ [Next]_vars => JInv'
  <2> SUFFICES ASSUME TypeOK, SessionInv, JInv, [Next]_vars PROVE JInv'
    OBVIOUS
  <2>0. /\ events \in Seq(Event) /\ revision \in Nat /\ 0 \in Nat /\ revision + 1 \in Nat
        /\ RevisionsConnect /\ FindingsTold /\ Unopened /\ SessionTypes
        /\ None \in Subject /\ Parser \subseteq Subject /\ EditId \subseteq Subject
        /\ Evidence \subseteq Subject /\ CanonicalParser \in Subject
    BY ParserAssumption DEF TypeOK, TypeOKCopy, Subject, SessionInv
  <2> HIDE DEF JInv
  <2>1. ASSUME NEW s \in {"info", "error", "malformed"}, AddParserDiagnostics(s)
        PROVE  JInv'
    <3>1. UNCHANGED <<revision, foundVars, enabled, draft>>
      BY <2>1 DEF AddParserDiagnostics, copyVars
    <3>2. Unopened'
      BY <2>0, <3>1 DEF Unopened
    <3>3. CASE s = "malformed"
      <4>1. UNCHANGED <<events, revision, attached, linked>>
        BY <2>1, <3>3 DEF AddParserDiagnostics, copyVars, foundVars
      <4>2. RevisionsConnect'
        BY <2>0, <4>1 DEF RevisionsConnect, RevisionAfter
      <4>3. FindingsTold'
        BY <2>0, <4>1 DEF FindingsTold, Told
      <4> QED
        BY <3>2, <4>2, <4>3 DEF JInv
    <3>4. CASE s # "malformed"
      <4>1. Record("parser_diagnostics_added", revision, CanonicalParser)
        BY <2>1, <3>4 DEF AddParserDiagnostics
      <4>2. RevisionsConnect' /\ FindingsTold'
        BY <2>0, <3>1, <4>1, CopyEntry DEF EventType, Attachment
      <4> QED
        BY <3>2, <4>2 DEF JInv
    <3> QED
      BY <3>3, <3>4
  <2>2. ASSUME NEW p \in Parser, NEW recognized \in BOOLEAN,
               RecordParserCompleted(p, recognized)
        PROVE  JInv'
    <3>1. /\ UNCHANGED <<revision, foundVars, enabled, draft>>
          /\ Record("parser_completed", revision, p)
      BY <2>2 DEF RecordParserCompleted, copyVars
    <3>2. RevisionsConnect' /\ FindingsTold'
      BY <2>0, <3>1, CopyEntry DEF EventType, Attachment
    <3> QED
      BY <2>0, <3>1, <3>2 DEF JInv, Unopened
  <2>3. CASE EnableWorkingCopy
    <3>1. /\ UNCHANGED <<revision, foundVars>> /\ enabled' /\ revision = 0
          /\ Record("working_copy_enabled", 0, None)
      BY <2>0, <2>3 DEF EnableWorkingCopy, copyVars, Unopened
    <3>2. RevisionsConnect' /\ FindingsTold'
      BY <2>0, <3>1, CopyEntry DEF EventType, Attachment
    <3> QED
      BY <3>1, <3>2 DEF JInv, Unopened
  <2>4. ASSUME NEW t \in Tool, ApplyEdit(t) PROVE JInv'
    <3>1. draft[t].op.id \in EditId
      BY <2>0, <2>4, DraftFields DEF ApplyEdit, EditOperation
    <3>2. /\ UNCHANGED foundVars /\ revision' = revision + 1 /\ enabled' = enabled /\ enabled
          /\ Record("edit_applied", revision + 1, draft[t].op.id)
      BY <2>0, <2>4 DEF ApplyEdit, Apply, Unopened
    <3>3. RevisionsConnect' /\ FindingsTold'
      BY <2>0, <3>1, <3>2, CopyEntry DEF EventType, Attachment
    <3> QED
      BY <3>2, <3>3 DEF JInv, Unopened
  <2>5. ASSUME NEW t \in Tool, UndoLastEdit(t) PROVE JInv'
    <3>1. /\ UNCHANGED foundVars /\ revision' = revision + 1 /\ enabled'
          /\ Record("edit_undone", revision + 1, None)
      BY <2>5 DEF UndoLastEdit, UndoLast, RevisionAfterUndo
    <3>2. RevisionsConnect' /\ FindingsTold'
      BY <2>0, <3>1, CopyEntry DEF EventType, Attachment
    <3> QED
      BY <3>1, <3>2 DEF JInv, Unopened
  <2>6. ASSUME NEW t \in Tool, ResetWorkingCopy(t) PROVE JInv'
    <3>1. /\ UNCHANGED foundVars /\ revision' = 0 /\ enabled'
          /\ Record("working_copy_reset", 0, None)
      BY <2>6 DEF ResetWorkingCopy, Reset
    <3>2. RevisionsConnect' /\ FindingsTold'
      BY <2>0, <3>1, CopyEntry DEF EventType, Attachment
    <3> QED
      BY <3>1, <3>2 DEF JInv, Unopened
  <2>7. ASSUME NEW type, NEW subject, Note(type, subject)
        PROVE  /\ UNCHANGED <<revision, enabled, draft>> /\ Unopened'
               /\ Record(type, revision, subject)
    BY <2>0, <2>7 DEF Note, copyVars, Unopened
  <2>8. ASSUME NEW type \in Attachment, NEW subject \in Subject, Note(type, subject),
               type = "executable_context_attached" => type \notin attached,
               attached' = attached \union {type}, UNCHANGED linked
        PROVE  JInv'
    <3>1. /\ type \in EventType /\ type # "evidence_record_linked"
          /\ type \notin {"edit_applied", "edit_undone", "working_copy_reset"}
      BY DEF EventType, Attachment
    <3>2. RevisionsConnect' /\ FindingsTold'
      BY <2>0, <2>7, <2>8, <3>1, Entry
    <3> QED
      BY <2>7, <2>8, <3>2 DEF JInv
  <2>9. /\ AttachBinaryDocument => JInv'
        /\ AttachStageBundle => JInv'
        /\ AttachExecutableContext => JInv'
    BY <2>0, <2>8 DEF AttachBinaryDocument, AttachStageBundle, AttachExecutableContext, Attachment
  <2>10. ASSUME NEW record \in Evidence, LinkEvidenceRecord(record) PROVE JInv'
    <3>1. /\ Note("evidence_record_linked", record) /\ record \notin linked
          /\ linked' = linked \union {record} /\ UNCHANGED attached
      BY <2>10 DEF LinkEvidenceRecord
    <3>2. "evidence_record_linked" \in EventType \ Attachment
      BY DEF EventType, Attachment
    <3>3. RevisionsConnect' /\ FindingsTold'
      BY <2>0, <2>7, <3>1, <3>2, Entry
    <3> QED
      BY <2>7, <3>1, <3>3 DEF JInv
  <2>11. ASSUME NEW type \in Work, RecordWork(type) PROVE JInv'
    <3>1. /\ type \in EventType \ (Attachment \union {"evidence_record_linked"})
          /\ type \notin {"edit_applied", "edit_undone", "working_copy_reset"}
      BY WorkAssumption DEF WorkType, EventType, Attachment
    <3>2. Note(type, None) /\ UNCHANGED foundVars
      BY <2>11 DEF RecordWork
    <3>3. RevisionsConnect' /\ FindingsTold'
      BY <2>0, <2>7, <3>1, <3>2, CopyEntry
    <3> QED
      BY <2>7, <3>2, <3>3 DEF JInv
  <2>12. ASSUME UNCHANGED <<copyVars, sessionVars>>, enabled \/ UNCHANGED draft PROVE JInv'
    <3>1. UNCHANGED <<events, revision, attached, linked, enabled>>
      BY <2>12 DEF copyVars, sessionVars, foundVars
    <3>2. RevisionsConnect'
      BY <2>0, <3>1 DEF RevisionsConnect, RevisionAfter
    <3>3. FindingsTold'
      BY <2>0, <3>1 DEF FindingsTold, Told
    <3>4. Unopened'
      BY <2>0, <2>12, <3>1 DEF Unopened
    <3> QED
      BY <3>2, <3>3, <3>4 DEF JInv
  <2>13. ASSUME NEW t \in Tool, EditRefused(t) PROVE JInv'
    BY <2>0, <2>12, <2>13 DEF EditRefused, Unopened
  <2>14. ASSUME NEW t \in Tool, NEW id \in EditId, NEW o \in 0 .. Len(current),
                NEW n \in 0 .. Len(current), NEW r \in Replacement, Compose(t, id, o, n, r)
         PROVE  JInv'
    BY <2>12, <2>14 DEF Compose
  <2>15. CASE UNCHANGED vars
    BY <2>12, <2>15 DEF vars
  <2> QED
    BY <2>1, <2>2, <2>3, <2>4, <2>5, <2>6, <2>9, <2>10, <2>11, <2>13, <2>14, <2>15 DEF Next
<1>3. JInv => RevisionsConnect /\ FindingsTold
  OBVIOUS
<1> QED
  BY <1>1, <1>2, <1>3, TypeCorrect, SessionInvariant, PTL DEF Spec

-----------------------------------------------------------------------------
(* The journal, replayed. *)

(***************************************************************************)
(* Every nonempty set of numbers has a least element: sets of numbers      *)
(* below a number are finite, and strict inclusion of finite sets is well  *)
(* founded.  It is what induction over the entries of a journal needs.     *)
(***************************************************************************)
LEMMA LeastElement ==
  ASSUME NEW S, S \subseteq Nat, S # {}
  PROVE  \E m \in S : \A n \in S : m <= n
<1> DEFINE Below(n) == 0 .. n - 1
           T == {Below(n) : n \in S}
<1>1. IsWellFoundedOn(StrictSubsetOrdering(Nat), FiniteSubsetsOf(Nat))
  BY FS_StrictSubsetOrderingWellFounded
<1>2. T \subseteq FiniteSubsetsOf(Nat) /\ T # {}
  <2>1. ASSUME NEW n \in Nat PROVE IsFiniteSet(Below(n)) /\ Below(n) \subseteq Nat
    BY FS_Interval
  <2> QED
    BY <2>1 DEF FiniteSubsetsOf
<1>3. PICK x \in T : \A y \in T : <<y, x>> \notin StrictSubsetOrdering(Nat)
  <2> HIDE DEF T
  <2> QED
    BY <1>1, <1>2, WFMin
<1>4. PICK m \in S : x = Below(m)
  OBVIOUS
<1>5. ASSUME NEW n \in S, n < m PROVE FALSE
  <2>1. Below(n) \subseteq Below(m) /\ Below(n) # Below(m) /\ Below(m) \subseteq Nat
    BY <1>5
  <2>2. <<Below(n), Below(m)>> \in StrictSubsetOrdering(Nat)
    BY <2>1 DEF StrictSubsetOrdering
  <2> QED
    BY <1>3, <1>4, <2>2
<1> QED
  BY <1>5

\* What one entry does to the identifiers read so far.
Read(ids, e) ==
  CASE e.type = "edit_applied" -> Append(ids, e.subject)
    [] e.type = "edit_undone" -> SubSeq(ids, 1, Len(ids) - 1)
    [] e.type = "working_copy_reset" -> <<>>
    [] OTHER -> ids

\* h is a way to read the journal from its start.
Reading(h) ==
  h = [k \in 0 .. Len(events) |-> IF k = 0 THEN <<>> ELSE Read(h[k - 1], events[k])]

\* There is only one, so Replay is any of them.
LEMMA ReadingIsReplay ==
  ASSUME events \in Seq(Event), NEW h, Reading(h)
  PROVE  Replay[Len(events)] = h[Len(events)]
<1>0. Len(events) \in Nat
  BY LenProperties
<1>1. Reading(Replay)
  BY <1>0 DEF Replay, Reading, Read
<1>2. SUFFICES ASSUME Replay[Len(events)] # h[Len(events)]
               PROVE  FALSE
  OBVIOUS
<1> DEFINE Differ == {k \in 0 .. Len(events) : Replay[k] # h[k]}
<1>3. PICK m \in Differ : \A n \in Differ : m <= n
  <2>1. Differ \subseteq Nat /\ Differ # {}
    BY <1>0, <1>2
  <2> HIDE DEF Differ
  <2> QED
    BY <2>1, LeastElement
<1>4. m # 0
  BY <1>0, <1>1 DEF Reading
<1>5. m - 1 \in 0 .. Len(events) /\ Replay[m - 1] = h[m - 1]
  BY <1>0, <1>3, <1>4
<1>6. Replay[m] = Read(Replay[m - 1], events[m])
  BY <1>0, <1>1, <1>3, <1>4 DEF Reading
<1>7. h[m] = Read(h[m - 1], events[m])
  BY <1>0, <1>3, <1>4 DEF Reading
<1> QED
  BY <1>3, <1>5, <1>6, <1>7

\* The identifiers of a stack of edits.
Ids(ops) == [k \in 1 .. Len(ops) |-> ops[k].id]

JournalRead == \E h : Reading(h) /\ h[Len(events)] = Ids(applied)

\* An entry that does to the identifiers what its step did to the stack.
LEMMA ReadEntry ==
  ASSUME events \in Seq(Event), JournalRead, NEW e \in Event,
         events' = Append(events, e), Ids(applied') = Read(Ids(applied), e)
  PROVE  JournalRead'
<1>0. /\ Len(events) \in Nat /\ Len(events') = Len(events) + 1
      /\ \A k \in 1 .. Len(events) : events'[k] = events[k]
      /\ events'[Len(events) + 1] = e
  BY JournalGrows
<1>1. PICK h : Reading(h) /\ h[Len(events)] = Ids(applied)
  BY DEF JournalRead
<1> DEFINE new == Len(events) + 1
<1>2. PICK g : g = [k \in 0 .. new |-> IF k = new THEN Ids(applied') ELSE h[k]]
  OBVIOUS
<1>3. /\ \A k \in 0 .. Len(events) : g[k] = h[k]
      /\ g[new] = Ids(applied')
  BY <1>0, <1>2
<1> DEFINE Expected(k) == IF k = 0 THEN <<>> ELSE Read(g[k - 1], events'[k])
<1>4. ASSUME NEW k \in 0 .. new PROVE g[k] = Expected(k)
  <2>1. CASE k = new
    BY <1>0, <1>1, <1>3, <2>1
  <2>2. CASE k # new
    <3>1. k \in 0 .. Len(events) /\ (k # 0 => k - 1 \in 0 .. Len(events))
      BY <1>0, <2>2
    <3>2. h[k] = IF k = 0 THEN <<>> ELSE Read(h[k - 1], events[k])
      BY <1>1, <3>1 DEF Reading
    <3> QED
      BY <1>0, <1>3, <3>1, <3>2
  <2> QED
    BY <2>1, <2>2
<1>5. g = [k \in 0 .. new |-> Expected(k)]
  <2>1. g = [k \in 0 .. new |-> g[k]]
    BY <1>2
  <2> HIDE DEF Expected
  <2> QED
    BY <1>4, <2>1
<1>6. Reading(g)'
  BY <1>0, <1>5 DEF Reading, Read
<1> QED
  BY <1>0, <1>3, <1>6 DEF JournalRead

\* Pushing an edit pushes its identifier, popping one pops it.
LEMMA IdsOfStack ==
  ASSUME NEW ops \in Seq(EditOperation)
  PROVE  /\ \A op \in EditOperation : Ids(Append(ops, op)) = Append(Ids(ops), op.id)
         /\ ops # <<>> =>
              Ids(SubSeq(ops, 1, Len(ops) - 1)) = SubSeq(Ids(ops), 1, Len(Ids(ops)) - 1)
         /\ Ids(<<>>) = <<>>
<1>0. /\ Len(ops) \in Nat
      /\ \A k \in 1 .. Len(ops) : ops[k] \in EditOperation /\ ops[k].id \in EditId
  <2>1. Len(ops) \in Nat
    BY LenProperties
  <2>2. \A k \in 1 .. Len(ops) : ops[k] \in EditOperation
    BY ElementOfSeq
  <2>3. \A op \in EditOperation : op.id \in EditId
    BY DEF EditOperation
  <2> QED
    BY <2>1, <2>2, <2>3
<1>1. Ids(ops) \in Seq(EditId) /\ Len(Ids(ops)) = Len(ops)
      /\ \A k \in 1 .. Len(ops) : Ids(ops)[k] = ops[k].id
  <2>1. Ids(ops) \in [1 .. Len(ops) -> EditId]
    BY <1>0 DEF Ids
  <2>2. \A k \in 1 .. Len(ops) : Ids(ops)[k] = ops[k].id
    BY DEF Ids
  <2>3. ASSUME NEW S, NEW n \in Nat, NEW f \in [1 .. n -> S]
        PROVE  f \in Seq(S) /\ Len(f) = n
    OBVIOUS
  <2> QED
    BY <1>0, <2>1, <2>2, <2>3
<1>2. ASSUME NEW op \in EditOperation
      PROVE  Ids(Append(ops, op)) = Append(Ids(ops), op.id)
  <2>1. op.id \in EditId
    BY DEF EditOperation
  <2>2. /\ Append(ops, op) \in Seq(EditOperation)
        /\ Len(Append(ops, op)) = Len(ops) + 1
        /\ \A k \in 1 .. Len(ops) : Append(ops, op)[k] = ops[k]
        /\ Append(ops, op)[Len(ops) + 1] = op
    BY AppendProperties
  <2>3. /\ Append(Ids(ops), op.id) \in Seq(EditId)
        /\ Len(Append(Ids(ops), op.id)) = Len(ops) + 1
        /\ \A k \in 1 .. Len(ops) : Append(Ids(ops), op.id)[k] = ops[k].id
        /\ Append(Ids(ops), op.id)[Len(ops) + 1] = op.id
    BY <1>1, <2>1, AppendProperties
  <2>4. Append(Ids(ops), op.id) =
          [k \in 1 .. Len(ops) + 1 |-> Append(Ids(ops), op.id)[k]]
    BY <2>3, LenProperties
  <2>5. ASSUME NEW k \in 1 .. Len(ops) + 1
        PROVE  Append(ops, op)[k].id = Append(Ids(ops), op.id)[k]
    BY <1>0, <2>2, <2>3
  <2>6. Ids(Append(ops, op)) = [k \in 1 .. Len(ops) + 1 |-> Append(ops, op)[k].id]
    BY <2>2 DEF Ids
  <2> DEFINE left(k) == Append(ops, op)[k].id
             right(k) == Append(Ids(ops), op.id)[k]
  <2>7. [k \in 1 .. Len(ops) + 1 |-> left(k)] = [k \in 1 .. Len(ops) + 1 |-> right(k)]
    <3>1. \A k \in 1 .. Len(ops) + 1 : left(k) = right(k)
      BY <2>5
    <3> HIDE DEF left, right
    <3> QED
      BY <3>1
  <2> QED
    BY <2>4, <2>6, <2>7
<1>3. ASSUME ops # <<>>
      PROVE  Ids(SubSeq(ops, 1, Len(ops) - 1)) = SubSeq(Ids(ops), 1, Len(Ids(ops)) - 1)
  <2> DEFINE n == Len(ops) - 1
  <2>1. n \in Nat
    BY <1>0, <1>3, EmptySeq
  <2>2. /\ Len(SubSeq(ops, 1, n)) = n
        /\ \A k \in 1 .. n : SubSeq(ops, 1, n)[k] = ops[k]
    <3>1. \A k \in 1 .. n : ops[k] \in EditOperation
      BY <1>0
    <3>2. /\ Len(SubSeq(ops, 1, n)) = IF 1 <= n THEN n - 1 + 1 ELSE 0
          /\ \A k \in 1 .. n - 1 + 1 : SubSeq(ops, 1, n)[k] = ops[1 + k - 1]
      BY <2>1, <3>1, SubSeqProperties
    <3> HIDE DEF n
    <3>3. n - 1 + 1 = n /\ \A k \in 1 .. n : 1 + k - 1 = k
      BY <2>1
    <3> QED
      BY <2>1, <3>2, <3>3
  <2>3. /\ SubSeq(Ids(ops), 1, n) \in Seq(EditId)
        /\ Len(SubSeq(Ids(ops), 1, n)) = n
        /\ \A k \in 1 .. n : SubSeq(Ids(ops), 1, n)[k] = ops[k].id
    <3>1. \A k \in 1 .. n : Ids(ops)[k] \in EditId
      BY <1>0, <1>1
    <3> QED
      BY <1>0, <1>1, <2>1, <3>1, SubSeqProperties
  <2> DEFINE left(k) == SubSeq(ops, 1, n)[k].id
             right(k) == SubSeq(Ids(ops), 1, n)[k]
  <2>4. [k \in 1 .. n |-> left(k)] = [k \in 1 .. n |-> right(k)]
    <3>1. \A k \in 1 .. n : left(k) = right(k)
      BY <2>2, <2>3
    <3> HIDE DEF left, right
    <3> QED
      BY <3>1
  <2>5. SubSeq(Ids(ops), 1, n) = [k \in 1 .. n |-> right(k)]
    BY <2>3, LenProperties
  <2> QED
    BY <1>1, <2>2, <2>4, <2>5 DEF Ids
<1>4. Ids(<<>>) = <<>>
  BY DEF Ids
<1> QED
  BY <1>2, <1>3, <1>4

LEMMA JournalReadInit == Init => JournalRead
<1> SUFFICES ASSUME Init PROVE JournalRead
  OBVIOUS
<1>1. events = <<>> /\ Len(events) = 0 /\ applied = <<>>
  BY DEF Init, InitCopy
<1>2. PICK h : h = [k \in 0 .. 0 |-> <<>>]
  OBVIOUS
<1>3. Reading(h)
  BY <1>1, <1>2 DEF Reading
<1>4. h[0] = Ids(applied)
  BY <1>1, <1>2, IdsOfStack
<1> QED
  BY <1>1, <1>3, <1>4 DEF JournalRead

\* An entry of another kind, whose step leaves the applied edits alone.
LEMMA OtherEntry ==
  ASSUME events \in Seq(Event), JournalRead, UNCHANGED applied,
         NEW type \in EventType \ {"edit_applied", "edit_undone", "working_copy_reset"},
         NEW rev \in Nat, NEW subject \in Subject, Record(type, rev, subject)
  PROVE  JournalRead'
<1> DEFINE e == [type |-> type, revision |-> rev, subject |-> subject]
<1>1. e \in Event /\ e.type = type
  BY DEF Event
<1>2. events' = Append(events, e)
  BY DEF Record
<1> HIDE DEF e
<1>3. Ids(applied') = Read(Ids(applied), e)
  BY <1>1 DEF Read
<1> QED
  BY <1>1, <1>2, <1>3, ReadEntry

\* An entry that tells what becomes of the applied edits.
LEMMA EditEntry ==
  ASSUME TypeOK, JournalRead,
         NEW type \in {"edit_applied", "edit_undone", "working_copy_reset"},
         NEW rev \in Nat, NEW subject \in Subject, Record(type, rev, subject),
         \/ /\ type = "edit_applied"
            /\ \E op \in EditOperation : op.id = subject /\ applied' = Append(applied, op)
         \/ type = "edit_undone" /\ applied # <<>> /\ applied' = Popped(applied)
         \/ type = "working_copy_reset" /\ applied' = <<>>
  PROVE  JournalRead'
<1> DEFINE e == [type |-> type, revision |-> rev, subject |-> subject]
<1>1. e \in Event /\ e.type = type /\ e.subject = subject
  BY DEF Event, EventType
<1>2. events' = Append(events, e) /\ events \in Seq(Event) /\ applied \in Seq(EditOperation)
  BY DEF Record, TypeOK, TypeOKCopy
<1> HIDE DEF e
<1>3. CASE type = "edit_applied"
  <2>1. PICK op \in EditOperation : op.id = subject /\ applied' = Append(applied, op)
    BY <1>3
  <2>2. Ids(applied') = Append(Ids(applied), subject)
    BY <1>2, <2>1, IdsOfStack
  <2>3. Ids(applied') = Read(Ids(applied), e)
    BY <1>1, <1>3, <2>2 DEF Read
  <2> QED
    BY <1>1, <1>2, <2>3, ReadEntry
<1>4. CASE type = "edit_undone"
  <2>1. Ids(applied') = SubSeq(Ids(applied), 1, Len(Ids(applied)) - 1)
    BY <1>2, <1>4, IdsOfStack DEF Popped
  <2>2. Ids(applied') = Read(Ids(applied), e)
    BY <1>1, <1>4, <2>1 DEF Read
  <2> QED
    BY <1>1, <1>2, <2>2, ReadEntry
<1>5. CASE type = "working_copy_reset"
  <2>1. Ids(applied') = <<>>
    BY <1>2, <1>5, IdsOfStack
  <2>2. Ids(applied') = Read(Ids(applied), e)
    BY <1>1, <1>5, <2>1 DEF Read
  <2> QED
    BY <1>1, <1>2, <2>2, ReadEntry
<1> QED
  BY <1>3, <1>4, <1>5

LEMMA JournalReadNext ==
  TypeOK /\ SessionTypes /\ JournalRead /\ [Next]_vars => JournalRead'
<1> SUFFICES ASSUME TypeOK, SessionTypes, JournalRead, [Next]_vars
             PROVE  JournalRead'
  OBVIOUS
<1>0. /\ events \in Seq(Event) /\ revision \in Nat /\ 0 \in Nat /\ revision + 1 \in Nat
      /\ None \in Subject /\ Parser \subseteq Subject /\ EditId \subseteq Subject
      /\ Evidence \subseteq Subject /\ CanonicalParser \in Subject
  BY ParserAssumption DEF TypeOK, TypeOKCopy, Subject
<1>1. CASE UNCHANGED <<events, applied>>
  BY <1>1 DEF JournalRead, Reading
<1>2. ASSUME NEW type \in EventType \ {"edit_applied", "edit_undone", "working_copy_reset"},
             NEW subject \in Subject, Note(type, subject)
      PROVE  JournalRead'
  BY <1>0, <1>2, OtherEntry DEF Note, copyVars
<1>3. AttachBinaryDocument \/ AttachStageBundle \/ AttachExecutableContext => JournalRead'
  BY <1>0, <1>2 DEF AttachBinaryDocument, AttachStageBundle, AttachExecutableContext,
                    EventType, Attachment
<1>4. ASSUME NEW record \in Evidence, LinkEvidenceRecord(record) PROVE JournalRead'
  BY <1>0, <1>2, <1>4 DEF LinkEvidenceRecord, EventType
<1>5. ASSUME NEW type \in Work, RecordWork(type) PROVE JournalRead'
  <2>1. type \in EventType \ {"edit_applied", "edit_undone", "working_copy_reset"}
    BY WorkAssumption DEF EventType, WorkType
  <2> QED
    BY <1>0, <1>2, <1>5, <2>1 DEF RecordWork
<1>6. ASSUME NEW s \in {"info", "error", "malformed"}, AddParserDiagnostics(s)
      PROVE  JournalRead'
  <2>1. CASE s = "malformed"
    BY <1>1, <1>6, <2>1 DEF AddParserDiagnostics, copyVars
  <2>2. CASE s # "malformed"
    BY <1>0, <1>6, <2>2, OtherEntry DEF AddParserDiagnostics, copyVars, EventType
  <2> QED
    BY <2>1, <2>2
<1>7. ASSUME NEW p \in Parser, NEW recognized \in BOOLEAN,
             RecordParserCompleted(p, recognized)
      PROVE  JournalRead'
  BY <1>0, <1>7, OtherEntry DEF RecordParserCompleted, copyVars, EventType
<1>8. CASE EnableWorkingCopy
  BY <1>0, <1>8, OtherEntry DEF EnableWorkingCopy, copyVars, EventType
<1>9. ASSUME NEW t \in Tool, ApplyEdit(t) PROVE JournalRead'
  <2>1. draft[t].op \in EditOperation /\ draft[t].op.id \in EditId
    BY <1>9, DraftFields DEF ApplyEdit, EditOperation
  <2>2. applied' = Append(applied, draft[t].op)
    BY <1>9 DEF ApplyEdit, Apply
  <2>3. Record("edit_applied", revision + 1, draft[t].op.id) /\ draft[t].op.id \in Subject
    BY <1>0, <1>9, <2>1 DEF ApplyEdit
  <2> QED
    BY <1>0, <2>1, <2>2, <2>3, EditEntry
<1>10. ASSUME NEW t \in Tool, UndoLastEdit(t) PROVE JournalRead'
  BY <1>0, <1>10, EditEntry DEF UndoLastEdit, UndoLast
<1>11. ASSUME NEW t \in Tool, ResetWorkingCopy(t) PROVE JournalRead'
  BY <1>0, <1>11, EditEntry DEF ResetWorkingCopy, Reset
<1> QED
  BY <1>1, <1>3, <1>4, <1>5, <1>6, <1>7, <1>8, <1>9, <1>10, <1>11
     DEF Next, vars, copyVars, sessionVars, Compose, EditRefused

(***************************************************************************)
(* The journal replays to the identifiers of exactly the applied edits, in *)
(* order, its revisions connect, and it tells all that was attached and    *)
(* linked: over any length of session and for every set of tools, edits    *)
(* and records (resource_workspace.cpp, every record_event).               *)
(***************************************************************************)
THEOREM JournalReplays == Spec => []JournalReplaysHistory
<1>1. TypeOK /\ SessionInv /\ JournalRead /\ [Next]_vars => JournalRead'
  BY JournalReadNext DEF SessionInv
<1>2. TypeOK /\ JournalRead /\ RevisionsConnect /\ FindingsTold => JournalReplaysHistory
  <2> SUFFICES ASSUME TypeOK, JournalRead, RevisionsConnect, FindingsTold
               PROVE  Replay[Len(events)] = Ids(applied)
    BY DEF JournalReplaysHistory, Ids
  <2> QED
    BY ReadingIsReplay DEF TypeOK, JournalRead
<1> QED
  BY <1>1, <1>2, JournalReadInit, TypeCorrect, SessionInvariant, JournalConnects, PTL DEF Spec

(***************************************************************************)
(* A draft of the current revision, composed since the last reset, was     *)
(* composed from the current bytes: ResourceWorkspaceSession::apply_edit   *)
(* detects every intervening edit and undo by comparing revisions.         *)
(***************************************************************************)
THEOREM FreshDraftsAreCurrent == Spec => []CurrentDraftSawCurrentBytes
<1>1. SessionInv => CurrentDraftSawCurrentBytes
  BY DEF SessionInv
<1> QED
  BY <1>1, SessionInvariant, PTL

(***************************************************************************)
(* No gated session becomes editable after a parser error, whatever        *)
(* completions record_parser_completed stores afterwards.                  *)
(***************************************************************************)
THEOREM ParserErrorsAreFinal == Spec => ParserErrorIsFinal
<1>1. SessionInv /\ [Next]_vars =>
        [format.gated /\ parserErrors /\ ~enabled => ~enabled']_vars
  <2> SUFFICES ASSUME SessionInv, [Next]_vars, format.gated, parserErrors, ~enabled, enabled'
               PROVE  FALSE
    OBVIOUS
  <2>1. SessionTypes
    BY DEF SessionInv
  <2>2. ~EnableWorkingCopy
    BY DEF EnableWorkingCopy, GateOpen, SessionInv, ErrorsRemembered
  <2> QED
    BY <2>1, <2>2 DEF Next, vars, sessionVars, SessionTypes, AddParserDiagnostics, RecordParserCompleted,
       Compose, ApplyEdit, EditRefused, UndoLastEdit, ResetWorkingCopy, AttachBinaryDocument, AttachStageBundle,
       AttachExecutableContext, LinkEvidenceRecord, RecordWork, Note
<1> QED
  BY <1>1, SessionInvariant, PTL DEF Spec, ParserErrorIsFinal

(***************************************************************************)
(* Every step of the session is a step of its working copy or leaves it    *)
(* alone, so what is proved of SpecCopy holds in every session.            *)
(***************************************************************************)
THEOREM SessionImplementsWorkingCopy == Spec => SpecCopy
<1>1. Init => InitCopy
  BY DEF Init
<1>2. SessionInv /\ [Next]_vars => [NextCopy]_copyVars
  <2> SUFFICES ASSUME SessionInv, [Next]_vars PROVE [NextCopy]_copyVars
    OBVIOUS
  <2>1. ASSUME NEW t \in Tool, ApplyEdit(t) PROVE NextCopy
    <3>1. draft[t].op \in EditOperation
      BY <2>1, DraftFields DEF SessionInv, ApplyEdit
    <3> QED
      BY <2>1, <3>1 DEF ApplyEdit, NextCopy
  <2>2. ASSUME NEW t \in Tool, UndoLastEdit(t) PROVE NextCopy
    BY <2>2 DEF UndoLastEdit, NextCopy
  <2>3. ASSUME NEW t \in Tool, ResetWorkingCopy(t) PROVE NextCopy
    BY <2>3 DEF ResetWorkingCopy, NextCopy
  <2> QED
    BY <2>1, <2>2, <2>3 DEF Next, vars, AddParserDiagnostics, RecordParserCompleted,
       EnableWorkingCopy, Compose, EditRefused, AttachBinaryDocument, AttachStageBundle,
       AttachExecutableContext, LinkEvidenceRecord, RecordWork, Note
<1> QED
  BY <1>1, <1>2, SessionInvariant, PTL DEF Spec, SpecCopy

(***************************************************************************)
(* In a session too, undo is refused only when nothing is applied, whoever *)
(* edits, undoes and resets in between (WorkingCopy::undo_last).           *)
(***************************************************************************)
THEOREM UndoFitsInSessions == Spec => []UndoNeverRefused
BY SessionImplementsWorkingCopy, UndoAlwaysFits, PTL

(***************************************************************************)
(* In a session too, undo restores byte for byte what the last active edit *)
(* replaced (WorkingCopy::apply, WorkingCopy::undo_last).                  *)
(***************************************************************************)
THEOREM SessionImplementsUndoStack == Spec => RefinesUndoStack
BY SessionImplementsWorkingCopy, ImplementsUndoStack, PTL
=============================================================================
