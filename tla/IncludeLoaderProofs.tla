------------------------ MODULE IncludeLoaderProofs ------------------------
(***************************************************************************)
(* The stack of nested loaders is the chain of '!include' directives being *)
(* loaded: for any files, keys, directives and depth of the Python stack, *)
(* every nested loader reads the file its caller's current directive      *)
(* names relative to the caller's file.  When the include graph is        *)
(* acyclic, the files on the stack descend in any ranking of that graph,  *)
(* so no file is loaded inside its own load, and no include reaches       *)
(* Python's recursion limit if it admits as many loaders as there are     *)
(* files.  What a load returns is only model-checked                      *)
(* (LoadMatchesReference): it is stated with a recursive function and     *)
(* folds, which the provers cannot unfold.                                 *)
(***************************************************************************)
EXTENDS IncludeLoader, SequenceTheorems, FiniteSetTheorems, TLAPS

FrameFields == {"file", "root", "doc", "next", "key", "path"}

\* Each loader reads an existing file, resolves against that file's
\* directory (lines 84, 87) and has constructed a prefix of KeyOrder.
FrameOK(fr) ==
    /\ DOMAIN fr = FrameFields
    /\ fr.file \in Files
    /\ fr.root = DirOf(fr.file)
    /\ fr.next \in 1..(Len(KeyOrder) + 1)

\* Two loaders for the same include: only the mapping built so far and
\* the position in KeyOrder may differ.
SameLoad(fr, gr) ==
    fr.file = gr.file /\ fr.root = gr.root /\ fr.key = gr.key /\ fr.path = gr.path

\* The strengthening: the stack is a sequence of well-formed loaders.
FrameInv ==
    /\ stack \in Seq(Range(stack))
    /\ \A i \in 1..Len(stack) : FrameOK(stack[i])
    /\ IncludesFollowCallers

\* A ranking of the files that decreases along every include of the
\* contents being loaded.
Ranking(rank) == \A f, g \in Files : IncludesFile(f, g) => rank[g] < rank[f]

\* The loaders' files descend in that ranking from the outermost load up,
\* by at least one per level of nesting.
Descending(rank) ==
    \A i, j \in 1..Len(stack) :
        i < j => rank[stack[j].file] + (j - i) <= rank[stack[i].file]

\* The strengthening of AcyclicIncludesLoadedOnce: the stack descends in
\* every integer ranking of the include graph.
AcyclicInv == \A rank \in [Files -> Int] : Ranking(rank) => Descending(rank)

\* What Front keeps of a non-empty sequence.
LEMMA FrontProperties ==
  ASSUME NEW S, NEW s \in Seq(S), s # <<>>
  PROVE  /\ Front(s) \in Seq(S)
         /\ Len(Front(s)) = Len(s) - 1
         /\ \A i \in 1..(Len(s) - 1) : Front(s)[i] = s[i]
  <1>1. Len(s) >= 1 /\ \A i \in 1..(Len(s) - 1) : s[i] \in S
    OBVIOUS
  <1> DEFINE n == Len(s) - 1
  <1>2. /\ SubSeq(s, 1, n) \in Seq(S)
        /\ Len(SubSeq(s, 1, n)) = IF 1 <= n THEN n - 1 + 1 ELSE 0
        /\ \A i \in 1..(n - 1 + 1) : SubSeq(s, 1, n)[i] = s[1 + i - 1]
    BY <1>1, SubSeqProperties
  <1>3. Len(SubSeq(s, 1, n)) = n
    <2>1. CASE Len(s) = 1
      BY <1>2, <2>1
    <2>2. CASE Len(s) > 1
      BY <1>2, <2>2
    <2>3. Len(s) = 1 \/ Len(s) > 1
      <3>1. \A k \in Nat : k >= 1 => k = 1 \/ k > 1
        OBVIOUS
      <3>2. Len(s) \in Nat
        BY LenProperties
      <3>3. QED
        BY <1>1, <3>1, <3>2
    <2>4. QED
      BY <2>1, <2>2, <2>3
  <1>4. \A i \in 1..n : SubSeq(s, 1, n)[i] = s[i]
    BY <1>2
  <1>5. QED
    BY <1>2, <1>3, <1>4 DEF Front

\* Appending a loader to the stack.
LEMMA AppendFrame ==
  ASSUME NEW s, NEW e, s \in Seq(Range(s))
  PROVE  /\ Append(s, e) \in Seq(Range(Append(s, e)))
         /\ Len(Append(s, e)) = Len(s) + 1
         /\ \A i \in 1..Len(s) : Append(s, e)[i] = s[i]
         /\ Append(s, e)[Len(s) + 1] = e
  <1> DEFINE R == Range(s) \cup {e}
  <1>1. s \in Seq(R)
    BY SeqMonotonic
  <1>2. /\ Append(s, e) \in Seq(R)
        /\ Len(Append(s, e)) = Len(s) + 1
        /\ \A i \in 1..Len(s) : Append(s, e)[i] = s[i]
        /\ Append(s, e)[Len(s) + 1] = e
    BY <1>1, AppendProperties
  <1>3. QED
    BY <1>2, SeqOfRange

LEMMA InitFrames == Init => FrameInv
  <1> SUFFICES ASSUME Init PROVE FrameInv
    OBVIOUS
  <1>1. stack \in Seq(Range(stack))
    BY DEF Init, Range
  <1>2. Len(stack) = 1
    BY DEF Init
  <1>3. FrameOK(stack[1])
    BY IncludeAssumption DEF Init, FrameOK, FrameFields
  <1>4. QED
    BY <1>1, <1>2, <1>3 DEF FrameInv, IncludesFollowCallers
\* A step that keeps the loaders below the top of the new stack, whose top
\* loads what the old loader at that height loaded, keeps every nested
\* load tied to its caller's directive.
LEMMA KeptFollow ==
  ASSUME IncludesFollowCallers, UNCHANGED content,
         NEW m \in Nat, Len(stack') = m, m <= Len(stack),
         \A i \in 1..(m - 1) : stack'[i] = stack[i],
         m >= 1 => SameLoad(stack'[m], stack[m])
  PROVE  IncludesFollowCallers'
  <1> SUFFICES ASSUME NEW i \in 2..m
               PROVE  LET caller == stack'[i - 1]
                          d == content'[caller.file][KeyOrder[caller.next]]
                      IN  /\ caller.next \in 1..Len(KeyOrder)
                          /\ d \in Directives
                          /\ stack'[i].key = KeyOrder[caller.next]
                          /\ stack'[i].file = Resolve(DirOf(caller.file), d.ref)
                          /\ stack'[i].path = KeyPath(d.frag)
    BY DEF IncludesFollowCallers
  <1>1. stack'[i - 1] = stack[i - 1]
    OBVIOUS
  <1>2. SameLoad(stack'[i], stack[i])
    <2>1. CASE i < m
      BY <2>1 DEF SameLoad
    <2>2. CASE i = m
      BY <2>2
    <2>3. QED
      BY <2>1, <2>2
  <1>3. i \in 2..Len(stack)
    OBVIOUS
  <1>4. QED
    BY <1>1, <1>2, <1>3 DEF IncludesFollowCallers, SameLoad
\* construct_pairs on a scalar: the top loader moves to its next key.
LEMMA ScalarFrames ==
  ASSUME FrameInv, ConstructScalar
  PROVE  FrameInv'
  <1> DEFINE n == Len(stack)
             t == stack[n]
             t2 == [t EXCEPT !.doc = (KeyOrder[t.next] :> Leaf(t.file, KeyOrder[t.next])) @@ t.doc,
                             !.next = t.next + 1]
             R == Range(stack) \cup {t2}
  <1>1. stack \in Seq(Range(stack)) /\ n \in Nat /\ n >= 1
    BY DEF FrameInv, ConstructScalar
  <1>2. stack' = [stack EXCEPT ![n] = t2]
    BY DEF ConstructScalar, Top, NextKey, Last
  <1>3. FrameOK(t) /\ t.next <= Len(KeyOrder)
    BY <1>1 DEF FrameInv, ConstructScalar, Top, Last
  <1>4. SameLoad(t2, t) /\ FrameOK(t2)
    BY <1>3 DEF SameLoad, FrameOK, FrameFields
  <1>5. /\ stack' \in Seq(R)
        /\ Len(stack') = n
        /\ \A j \in 1..n : stack'[j] = IF j = n THEN t2 ELSE stack[j]
    <2>1. stack \in Seq(R)
      BY <1>1, SeqMonotonic
    <2>2. QED
      BY <1>1, <1>2, <2>1, ExceptSeq
  <1>6. stack' \in Seq(Range(stack'))
    BY <1>5, SeqOfRange
  <1>7. \A j \in 1..Len(stack') : FrameOK(stack'[j])
    BY <1>4, <1>5 DEF FrameInv
  <1>8. IncludesFollowCallers'
    <2>1. \A j \in 1..(n - 1) : stack'[j] = stack[j]
      BY <1>5
    <2>2. SameLoad(stack'[n], stack[n])
      BY <1>1, <1>4, <1>5
    <2>3. QED
      BY <1>1, <1>5, <2>1, <2>2, KeptFollow DEF FrameInv, ConstructScalar
  <1>9. QED
    BY <1>6, <1>7, <1>8 DEF FrameInv
\* _include_constructor: the new loader is the include of the top loader's
\* current directive, or an exception empties the stack.
LEMMA IncludeFrames ==
  ASSUME FrameInv, Include
  PROVE  FrameInv'
  <1> DEFINE n == Len(stack)
             t == stack[n]
             k == KeyOrder[t.next]
             d == content[t.file][k]
             fn == Resolve(t.root, d.ref)
             nl == NewLoader(fn, t, k, KeyPath(d.frag))
             R == Range(stack) \cup {nl}
  <1>1. /\ stack \in Seq(Range(stack)) /\ n \in Nat /\ n >= 1
        /\ FrameOK(t) /\ t.next <= Len(KeyOrder) /\ d \in Directives
    BY DEF FrameInv, Include, Top, NextKey, Last
  <1>2. UNCHANGED content
    BY DEF Include
  <1>3. stack' = <<>> \/ (fn \in Files /\ stack' = Append(stack, nl))
    BY DEF Include, Raise, Top, NextKey, Last
  <1>4. CASE stack' = <<>>
    BY <1>4, EmptySeq DEF FrameInv, IncludesFollowCallers
  <1>5. CASE fn \in Files /\ stack' = Append(stack, nl)
    <2>1. FrameOK(nl) /\ nl.key = k /\ nl.path = KeyPath(d.frag) /\ nl.file = fn
      <3>1. Len(KeyOrder) \in Nat
        BY IncludeAssumption
      <3>2. 1 \in 1..(Len(KeyOrder) + 1)
        BY <3>1
      <3>3. QED
        BY <1>5, <3>2 DEF NewLoader, FrameOK, FrameFields
    <2>2. /\ stack' \in Seq(Range(stack'))
          /\ Len(stack') = n + 1
          /\ \A i \in 1..n : stack'[i] = stack[i]
          /\ stack'[n + 1] = nl
      <3>1. /\ Append(stack, nl) \in Seq(Range(Append(stack, nl)))
            /\ Len(Append(stack, nl)) = Len(stack) + 1
            /\ \A i \in 1..Len(stack) : Append(stack, nl)[i] = stack[i]
            /\ Append(stack, nl)[Len(stack) + 1] = nl
        BY <1>1, AppendFrame, Zenon
      <3>2. QED
        BY <1>5, <3>1, Zenon
    <2>3. stack' \in Seq(Range(stack'))
      BY <2>2
    <2>4. \A i \in 1..Len(stack') : FrameOK(stack'[i])
      <3>1. \A i \in 1..n : FrameOK(stack'[i])
        BY <2>2 DEF FrameInv
      <3>2. FrameOK(stack'[n + 1])
        BY <2>1, <2>2
      <3>3. \A i \in 1..(n + 1) : FrameOK(stack'[i])
        BY <1>1, <3>1, <3>2
      <3>4. QED
        BY <2>2, <3>3
    <2>5. IncludesFollowCallers'
      <3> SUFFICES ASSUME NEW i \in 2..(n + 1)
                   PROVE  LET caller == stack'[i - 1]
                              dd == content'[caller.file][KeyOrder[caller.next]]
                          IN  /\ caller.next \in 1..Len(KeyOrder)
                              /\ dd \in Directives
                              /\ stack'[i].key = KeyOrder[caller.next]
                              /\ stack'[i].file = Resolve(DirOf(caller.file), dd.ref)
                              /\ stack'[i].path = KeyPath(dd.frag)
        BY <2>2 DEF IncludesFollowCallers
      <3>1. CASE i <= n
        <4>1. stack'[i - 1] = stack[i - 1] /\ stack'[i] = stack[i] /\ i \in 2..Len(stack)
          BY <1>1, <2>2, <3>1
        <4>2. QED
          BY <1>2, <4>1, Zenon DEF FrameInv, IncludesFollowCallers
      <3>2. CASE i = n + 1
        <4>1. stack'[i - 1] = t /\ stack'[i] = nl
          <5>1. i - 1 = n /\ n \in 1..n
            BY <1>1, <3>2
          <5>2. QED
            BY <2>2, <3>2, <5>1
        <4>2. t.next \in 1..Len(KeyOrder) /\ t.root = DirOf(t.file)
          BY <1>1 DEF FrameOK
        <4>3. QED
          BY <1>1, <1>2, <2>1, <4>1, <4>2
      <3>3. i <= n \/ i = n + 1
        BY <1>1
      <3>4. QED
        BY <3>1, <3>2, <3>3
    <2>6. QED
      BY <2>3, <2>4, <2>5 DEF FrameInv
  <1>6. QED
    BY <1>3, <1>4, <1>5
\* The loader that receives a nested result: it has stored it at its key
\* and moved to the next one.
Resumed(c2, caller) ==
    /\ DOMAIN c2 = FrameFields
    /\ SameLoad(c2, caller)
    /\ c2.next = caller.next + 1

\* A finished nested load pops its loader and resumes the caller, or an
\* exception (or the outermost result) empties the stack.
LEMMA FinishShape ==
  ASSUME FrameInv, Finish
  PROVE  \/ stack' = <<>>
         \/ /\ Len(stack) >= 2
            /\ \E c2 : /\ Resumed(c2, stack[Len(stack) - 1])
                       /\ stack' = Append(Front(Front(stack)), c2)
  <1> DEFINE n == Len(stack)
  <1>1. n \in Nat /\ n >= 1
    BY DEF FrameInv, Finish
  <1>2. n = 1 \/ n >= 2
    <2>1. \A x \in Nat : x >= 1 => x = 1 \/ x >= 2
      OBVIOUS
    <2>2. QED
      BY <1>1, <2>1
  <1>3. CASE n = 1
    BY <1>3 DEF Finish, Raise
  <1>4. CASE n >= 2
    <2> DEFINE caller == stack[n - 1]
               obj == Navigate(Top.doc, Top.path)
               c2 == [caller EXCEPT !.doc = (Top.key :> obj) @@ caller.doc,
                                    !.next = caller.next + 1]
    <2>1. FrameOK(caller)
      <3>1. n - 1 \in 1..n
        BY <1>4
      <3>2. QED
        BY <3>1 DEF FrameInv
    <2>2. ~(n = 1)
      <3>1. \A x \in Nat : x >= 2 => x # 1
        OBVIOUS
      <3>2. QED
        BY <1>1, <1>4, <3>1
    <2>3. stack' = <<>> \/ stack' = Append(Front(Front(stack)), c2)
      BY <2>2 DEF Finish, Raise
    <2>4. Resumed(c2, caller)
      BY <2>1 DEF FrameOK, FrameFields, Resumed, SameLoad
    <2>5. QED
      BY <1>4, <2>3, <2>4
  <1>5. QED
    BY <1>2, <1>3, <1>4
LEMMA FinishFrames ==
  ASSUME FrameInv, Finish
  PROVE  FrameInv'
  <1> DEFINE n == Len(stack)
  <1>1. UNCHANGED content /\ stack \in Seq(Range(stack)) /\ n \in Nat
    BY DEF Finish, FrameInv
  <1>2. CASE stack' = <<>>
    BY <1>2, EmptySeq DEF FrameInv, IncludesFollowCallers
  <1>3. CASE /\ n >= 2
             /\ \E c2 : Resumed(c2, stack[n - 1]) /\ stack' = Append(Front(Front(stack)), c2)
    <2>1. PICK c2 : Resumed(c2, stack[n - 1]) /\ stack' = Append(Front(Front(stack)), c2)
      BY <1>3
    <2> DEFINE f1 == Front(stack)
               f2 == Front(f1)
    <2>2. /\ f1 \in Seq(Range(stack)) /\ Len(f1) = n - 1
          /\ \A i \in 1..(n - 1) : f1[i] = stack[i]
      <3>1. stack # <<>>
        BY <1>3
      <3>2. QED
        BY <1>1, <3>1, FrontProperties
    <2>3. /\ f2 \in Seq(Range(stack)) /\ Len(f2) = n - 2
          /\ \A i \in 1..(n - 2) : f2[i] = stack[i]
      <3>1. f1 # <<>>
        BY <1>3, <2>2
      <3>2. QED
        BY <2>2, <3>1, FrontProperties
    <2>4. f2 \in Seq(Range(f2))
      BY <2>3, SeqOfRange
    <2>5. /\ stack' \in Seq(Range(stack'))
          /\ Len(stack') = n - 1
          /\ \A i \in 1..(n - 2) : stack'[i] = stack[i]
          /\ stack'[n - 1] = c2
      <3>1. /\ Append(f2, c2) \in Seq(Range(Append(f2, c2)))
            /\ Len(Append(f2, c2)) = Len(f2) + 1
            /\ \A i \in 1..Len(f2) : Append(f2, c2)[i] = f2[i]
            /\ Append(f2, c2)[Len(f2) + 1] = c2
        BY <2>4, AppendFrame, Zenon
      <3>2. QED
        BY <1>3, <2>1, <2>3, <3>1
    <2>6. stack[n - 1].next \in 1..Len(KeyOrder)
      <3>1. n \in 2..Len(stack)
        BY <1>1, <1>3
      <3>2. QED
        BY <3>1 DEF FrameInv, IncludesFollowCallers
    <2>7. FrameOK(c2)
      <3>1. FrameOK(stack[n - 1])
        BY <1>1, <1>3 DEF FrameInv
      <3>2. QED
        BY <2>1, <2>6, <3>1 DEF Resumed, SameLoad, FrameOK
    <2>8. \A i \in 1..Len(stack') : FrameOK(stack'[i])
      <3>1. \A i \in 1..(n - 2) : FrameOK(stack'[i])
        BY <1>1, <1>3, <2>5 DEF FrameInv
      <3>2. \A i \in 1..(n - 1) : FrameOK(stack'[i])
        BY <1>3, <2>5, <2>7, <3>1
      <3>3. QED
        BY <2>5, <3>2
    <2>9. IncludesFollowCallers'
      <3>1. SameLoad(stack'[n - 1], stack[n - 1])
        BY <2>1, <2>5 DEF Resumed
      <3>2. /\ n - 1 \in Nat /\ Len(stack') = n - 1 /\ n - 1 <= Len(stack)
            /\ n - 1 >= 1
        BY <1>1, <1>3, <2>5
      <3>3. \A i \in 1..((n - 1) - 1) : stack'[i] = stack[i]
        BY <2>5
      <3>4. IncludesFollowCallers /\ UNCHANGED content
        BY <1>1, <1>3 DEF FrameInv
      <3>5. QED
        BY <3>1, <3>2, <3>3, <3>4, KeptFollow
    <2>10. QED
      BY <2>5, <2>8, <2>9 DEF FrameInv
  <1>4. QED
    BY <1>2, <1>3, FinishShape

\* A step that keeps the loaders below the top of the new stack, and the
\* file of its top, keeps the stack descending in a ranking.
LEMMA KeptDescending ==
  ASSUME NEW rank, Descending(rank),
         NEW m \in Nat, Len(stack') = m, m <= Len(stack),
         \A i \in 1..(m - 1) : stack'[i] = stack[i],
         m >= 1 => stack'[m].file = stack[m].file
  PROVE  Descending(rank)'
  <1> SUFFICES ASSUME NEW i \in 1..m, NEW j \in 1..m, i < j
               PROVE  rank[stack'[j].file] + (j - i) <= rank[stack'[i].file]
    BY DEF Descending
  <1>1. stack'[i] = stack[i] /\ stack'[j].file = stack[j].file
    OBVIOUS
  <1>2. i \in 1..Len(stack) /\ j \in 1..Len(stack)
    OBVIOUS
  <1>3. rank[stack[j].file] + (j - i) <= rank[stack[i].file]
    BY <1>2 DEF Descending
  <1>4. QED
    BY <1>1, <1>3, Zenon

\* A step that pushes a loader for a file ranked below the old top keeps
\* the stack descending.
LEMMA PushDescending ==
  ASSUME NEW rank \in [Files -> Int], Descending(rank),
         NEW n \in Nat, n >= 1, Len(stack) = n, Len(stack') = n + 1,
         \A i \in 1..n : stack'[i] = stack[i] /\ stack[i].file \in Files,
         stack'[n + 1].file \in Files,
         rank[stack'[n + 1].file] < rank[stack[n].file]
  PROVE  Descending(rank)'
  <1> SUFFICES ASSUME NEW i \in 1..(n + 1), NEW j \in 1..(n + 1), i < j
               PROVE  rank[stack'[j].file] + (j - i) <= rank[stack'[i].file]
    BY DEF Descending
  <1>1. CASE j <= n
    <2>1. i \in 1..n /\ j \in 1..n
      BY <1>1
    <2>2. stack'[i] = stack[i] /\ stack'[j] = stack[j]
      BY <2>1
    <2>3. rank[stack[j].file] + (j - i) <= rank[stack[i].file]
      BY <2>1 DEF Descending
    <2>4. QED
      BY <2>2, <2>3
  <1>2. CASE j = n + 1 /\ i = n
    <2>1. rank[stack'[n + 1].file] \in Int /\ rank[stack[n].file] \in Int
      OBVIOUS
    <2>2. QED
      BY <1>2, <2>1
  <1>3. CASE j = n + 1 /\ i < n
    <2>1. rank[stack[n].file] + (n - i) <= rank[stack[i].file]
      BY <1>3 DEF Descending
    <2>2. rank[stack[n].file] \in Int /\ rank[stack[i].file] \in Int
          /\ rank[stack'[n + 1].file] \in Int
      BY <1>3
    <2>3. QED
      BY <1>3, <2>1, <2>2
  <1>4. QED
    BY <1>1, <1>2, <1>3

\* construct_pairs on a scalar changes only the top loader's mapping and
\* position.
LEMMA ScalarShape ==
  ASSUME FrameInv, ConstructScalar
  PROVE  /\ Len(stack) \in Nat /\ Len(stack') = Len(stack)
         /\ \A j \in 1..(Len(stack) - 1) : stack'[j] = stack[j]
         /\ Len(stack) >= 1 => SameLoad(stack'[Len(stack)], stack[Len(stack)])
  <1> DEFINE n == Len(stack)
             t == stack[n]
             t2 == [t EXCEPT !.doc = (KeyOrder[t.next] :> Leaf(t.file, KeyOrder[t.next])) @@ t.doc,
                             !.next = t.next + 1]
  <1>1. stack \in Seq(Range(stack)) /\ n \in Nat /\ n >= 1
    BY DEF FrameInv, ConstructScalar
  <1>2. stack' = [stack EXCEPT ![n] = t2]
    BY DEF ConstructScalar, Top, NextKey, Last
  <1>3. FrameOK(t)
    BY <1>1 DEF FrameInv
  <1>4. SameLoad(t2, t)
    BY <1>3 DEF SameLoad, FrameOK, FrameFields
  <1>5. /\ Len(stack') = n
        /\ \A j \in 1..n : stack'[j] = IF j = n THEN t2 ELSE stack[j]
    BY <1>1, <1>2, ExceptSeq
  <1>6. QED
    BY <1>1, <1>4, <1>5

\* _include_constructor raises, emptying the stack, or pushes one loader.
LEMMA IncludeShape ==
  ASSUME FrameInv, Include
  PROVE  \/ stack' = <<>>
         \/ /\ Len(stack) \in Nat /\ Len(stack) >= 1
            /\ Len(stack') = Len(stack) + 1
            /\ \A i \in 1..Len(stack) : stack'[i] = stack[i]
  <1> DEFINE n == Len(stack)
             t == stack[n]
             k == KeyOrder[t.next]
             d == content[t.file][k]
             nl == NewLoader(Resolve(t.root, d.ref), t, k, KeyPath(d.frag))
  <1>1. stack \in Seq(Range(stack)) /\ n \in Nat /\ n >= 1
    BY DEF FrameInv, Include
  <1>2. stack' = <<>> \/ stack' = Append(stack, nl)
    BY DEF Include, Raise, Top, NextKey, Last
  <1>3. /\ Len(Append(stack, nl)) = n + 1
        /\ \A i \in 1..n : Append(stack, nl)[i] = stack[i]
    BY <1>1, AppendFrame, Zenon
  <1>4. QED
    BY <1>1, <1>2, <1>3

\* A finished nested load that returns to its caller pops one loader and
\* keeps what the caller loads.
LEMMA FinishPop ==
  ASSUME FrameInv, Finish, stack' # <<>>
  PROVE  /\ Len(stack) \in Nat /\ Len(stack) >= 2
         /\ Len(stack') = Len(stack) - 1
         /\ \A i \in 1..(Len(stack) - 2) : stack'[i] = stack[i]
         /\ SameLoad(stack'[Len(stack) - 1], stack[Len(stack) - 1])
  <1> DEFINE n == Len(stack)
             f2 == Front(Front(stack))
  <1>1. stack \in Seq(Range(stack)) /\ n \in Nat /\ n >= 2
    BY FinishShape DEF FrameInv
  <1>2. PICK c2 : Resumed(c2, stack[n - 1]) /\ stack' = Append(f2, c2)
    BY FinishShape
  <1>3. /\ f2 \in Seq(Range(stack)) /\ Len(f2) = n - 2
        /\ \A i \in 1..(n - 2) : f2[i] = stack[i]
    <2>1. /\ Front(stack) \in Seq(Range(stack)) /\ Len(Front(stack)) = n - 1
          /\ \A i \in 1..(n - 1) : Front(stack)[i] = stack[i]
      BY <1>1, FrontProperties
    <2>2. Front(stack) # <<>>
      BY <1>1, <2>1
    <2>3. QED
      BY <2>1, <2>2, FrontProperties
  <1>4. /\ Len(Append(f2, c2)) = Len(f2) + 1
        /\ \A i \in 1..Len(f2) : Append(f2, c2)[i] = f2[i]
        /\ Append(f2, c2)[Len(f2) + 1] = c2
    BY <1>3, SeqOfRange, AppendFrame, Zenon
  <1>5. QED
    BY <1>1, <1>2, <1>3, <1>4 DEF Resumed

\* Every step keeps the stack a chain of well-formed loaders.
LEMMA NextFrames == FrameInv /\ [Next]_vars => FrameInv'
  <1> SUFFICES ASSUME FrameInv, [Next]_vars PROVE FrameInv'
    OBVIOUS
  <1>1. CASE ConstructScalar
    BY <1>1, ScalarFrames
  <1>2. CASE Include
    BY <1>2, IncludeFrames
  <1>3. CASE Finish
    BY <1>3, FinishFrames
  <1>4. CASE UNCHANGED vars
    BY <1>4 DEF vars, FrameInv, IncludesFollowCallers, FrameOK
  <1>5. QED
    BY <1>1, <1>2, <1>3, <1>4 DEF Next

\* Every nested load reads the file its caller's directive names relative
\* to the caller's own file, whatever the files hold and however deep the
\* Python stack is.
THEOREM IncludesFollowCallersHolds == Spec => []IncludesFollowCallers
  <1>1. Init => FrameInv
    BY InitFrames
  <1>2. FrameInv /\ [Next]_vars => FrameInv'
    BY NextFrames
  <1>3. FrameInv => IncludesFollowCallers
    BY DEF FrameInv
  <1>4. QED
    BY <1>1, <1>2, <1>3, PTL DEF Spec

\* A load is in progress while a loader is on the stack: every step either
\* raises, emptying the stack, or leaves the outcome alone.
LEMMA NextLoading ==
  ASSUME [Next]_vars, stack # <<>> => outcome = Loading
  PROVE  stack' # <<>> => outcome' = Loading
  BY DEF Next, vars, ConstructScalar, Include, Finish, Raise

\* Each step keeps the stack descending in every ranking of the include
\* graph: the files never change, and a pushed loader reads a file the old
\* top includes.
LEMMA NextAcyclic ==
  ASSUME FrameInv, AcyclicInv, [Next]_vars
  PROVE  AcyclicInv'
  <1> SUFFICES ASSUME NEW rank \in [Files -> Int], Ranking(rank)'
               PROVE  Descending(rank)'
    BY DEF AcyclicInv
  <1>1. UNCHANGED content
    BY DEF Next, vars, ConstructScalar, Include, Finish
  <1>2. Ranking(rank)
    BY <1>1 DEF Ranking, IncludesFile
  <1>3. Descending(rank)
    BY <1>2 DEF AcyclicInv
  <1>4. CASE ConstructScalar
    <2>1. /\ Len(stack) \in Nat /\ Len(stack') = Len(stack)
          /\ \A j \in 1..(Len(stack) - 1) : stack'[j] = stack[j]
          /\ Len(stack) >= 1 => stack'[Len(stack)].file = stack[Len(stack)].file
      BY <1>4, ScalarShape DEF SameLoad
    <2>2. QED
      BY <1>3, <2>1, KeptDescending
  <1>5. CASE Include
    <2>1. CASE stack' = <<>>
      <3>1. Len(stack') = 0 /\ Len(stack) \in Nat
        BY <2>1 DEF FrameInv
      <3>2. QED
        BY <1>3, <3>1, KeptDescending
    <2>2. CASE stack' # <<>>
      <3> DEFINE n == Len(stack)
      <3>1. /\ n \in Nat /\ n >= 1 /\ Len(stack') = n + 1
            /\ \A i \in 1..n : stack'[i] = stack[i]
        BY <1>5, <2>2, IncludeShape
      <3>2. FrameInv'
        BY <1>5, IncludeFrames
      <3>3. \A i \in 1..n : stack[i].file \in Files
        BY DEF FrameInv, FrameOK
      <3>4. stack'[n + 1].file \in Files
        BY <3>1, <3>2 DEF FrameInv, FrameOK
      <3>5. IncludesFile(stack[n].file, stack'[n + 1].file)
        <4>1. n + 1 \in 2..Len(stack') /\ stack'[n] = stack[n]
          BY <3>1
        <4>2. LET caller == stack'[n]
                  d == content'[caller.file][KeyOrder[caller.next]]
              IN  /\ caller.next \in 1..Len(KeyOrder)
                  /\ d \in Directives
                  /\ stack'[n + 1].file = Resolve(DirOf(caller.file), d.ref)
          <5>1. IncludesFollowCallers'
            BY <3>2 DEF FrameInv
          <5>2. (n + 1) - 1 = n
            BY <1>1
          <5>3. QED
            BY <4>1, <5>1, <5>2 DEF IncludesFollowCallers
        <4>3. KeyOrder[stack[n].next] \in Keys
          BY <4>1, <4>2, IncludeAssumption
        <4>4. QED
          BY <1>1, <4>1, <4>2, <4>3 DEF IncludesFile
      <3>6. rank[stack'[n + 1].file] < rank[stack[n].file]
        BY <1>2, <3>1, <3>3, <3>4, <3>5 DEF Ranking
      <3>7. QED
        BY <1>3, <3>1, <3>3, <3>4, <3>6, PushDescending
    <2>3. QED
      BY <2>1, <2>2
  <1>6. CASE Finish
    <2>1. CASE stack' = <<>>
      <3>1. Len(stack') = 0 /\ Len(stack) \in Nat
        BY <2>1 DEF FrameInv
      <3>2. QED
        BY <1>3, <3>1, KeptDescending
    <2>2. CASE stack' # <<>>
      <3>1. /\ Len(stack) \in Nat /\ Len(stack) >= 2
            /\ Len(stack') = Len(stack) - 1
            /\ \A i \in 1..(Len(stack) - 2) : stack'[i] = stack[i]
            /\ stack'[Len(stack) - 1].file = stack[Len(stack) - 1].file
        BY <1>6, <2>2, FinishPop DEF SameLoad
      <3>2. Len(stack) - 1 \in Nat /\ Len(stack) - 1 <= Len(stack)
            /\ (Len(stack) - 1) - 1 = Len(stack) - 2
        BY <3>1
      <3>3. QED
        BY <1>3, <3>1, <3>2, KeptDescending
    <2>3. QED
      BY <2>1, <2>2
  <1>7. CASE UNCHANGED vars
    BY <1>3, <1>7 DEF vars, Descending
  <1>8. QED
    BY <1>4, <1>5, <1>6, <1>7 DEF Next

\* The loader keeps no record of the files it is loading, yet when the
\* include graph of the files is acyclic no file is ever loaded inside its
\* own load, whatever the files hold and however deep the Python stack is.
THEOREM AcyclicIncludesLoadedOnceHolds == Spec => []AcyclicIncludesLoadedOnce
  <1> DEFINE Inv == FrameInv /\ AcyclicInv
  <1>1. Init => Inv
    <2> SUFFICES ASSUME Init PROVE Inv
      OBVIOUS
    <2>1. Len(stack) = 1
      BY DEF Init
    <2>2. AcyclicInv
      BY <2>1 DEF AcyclicInv, Descending
    <2>3. QED
      BY <2>2, InitFrames
  <1>2. Inv /\ [Next]_vars => Inv'
    <2> SUFFICES ASSUME Inv, [Next]_vars PROVE Inv'
      OBVIOUS
    <2>1. FrameInv'
      BY NextFrames
    <2>2. AcyclicInv'
      BY NextAcyclic
    <2>3. QED
      BY <2>1, <2>2
  <1>3. Inv => AcyclicIncludesLoadedOnce
    <2> SUFFICES ASSUME Inv, IncludesAcyclic,
                        NEW i \in 1..Len(stack), NEW j \in 1..Len(stack), i < j
                 PROVE  stack[i].file # stack[j].file
      BY DEF AcyclicIncludesLoadedOnce, NoFileLoadedWithinItself
    <2>1. PICK rank \in [Files -> 0..(Cardinality(Files) - 1)] : Ranking(rank)
      BY DEF IncludesAcyclic, Ranking
    <2>2. rank \in [Files -> Int]
      BY <2>1
    <2>3. rank[stack[j].file] + (j - i) <= rank[stack[i].file]
      BY <2>1, <2>2 DEF AcyclicInv, Descending
    <2>4. stack[i].file \in Files /\ stack[j].file \in Files
      BY DEF FrameInv, FrameOK
    <2>5. QED
      BY <2>2, <2>3, <2>4
  <1>4. QED
    BY <1>1, <1>2, <1>3, PTL DEF Spec


\* '!include' has no cycle detection and relies on Python's recursion limit
\* (lines 91-96). When the include graph is acyclic and the Python stack
\* holds as many nested loaders as there are files, no include raises
\* RecursionError: that error from a load always means an include cycle.
THEOREM RecursionErrorOnlyOnCycles ==
  Spec => [][IncludesAcyclic /\ MaxDepth >= Cardinality(Files)
               => ~(Include /\ outcome' = Error("RecursionError"))]_vars
  <1> DEFINE Inv == FrameInv /\ AcyclicInv /\ (stack # <<>> => outcome = Loading)
  <1>1. Init => Inv
    <2> SUFFICES ASSUME Init PROVE Inv
      OBVIOUS
    <2>1. Len(stack) = 1 /\ outcome = Loading
      BY DEF Init
    <2>2. AcyclicInv
      BY <2>1 DEF AcyclicInv, Descending
    <2>3. QED
      BY <2>1, <2>2, InitFrames
  <1>2. Inv /\ [Next]_vars => Inv'
    BY NextFrames, NextAcyclic, NextLoading
  <1>3. Inv /\ [Next]_vars
          => [IncludesAcyclic /\ MaxDepth >= Cardinality(Files)
                => ~(Include /\ outcome' = Error("RecursionError"))]_vars
    <2> SUFFICES ASSUME Inv, IncludesAcyclic, MaxDepth >= Cardinality(Files),
                        Include, outcome' = Error("RecursionError")
                 PROVE  FALSE
      OBVIOUS
    <2> DEFINE n == Len(stack)
               t == stack[n]
               k == KeyOrder[t.next]
               d == content[t.file][k]
               fn == Resolve(t.root, d.ref)
               C == Cardinality(Files)
    <2>1. /\ n \in Nat /\ n >= 1 /\ FrameOK(t) /\ t.next <= Len(KeyOrder)
          /\ d \in Directives /\ outcome = Loading
      <3>1. stack # <<>> /\ FrameInv /\ outcome = Loading
        BY DEF Include
      <3>2. n \in Nat /\ n >= 1
        BY <3>1 DEF FrameInv
      <3>3. FrameOK(t)
        BY <3>1, <3>2 DEF FrameInv
      <3>4. t.next <= Len(KeyOrder) /\ d \in Directives
        BY DEF Include, Top, NextKey, Last
      <3>5. QED
        BY <3>1, <3>2, <3>3, <3>4
    <2>2. fn \in Files /\ n = MaxDepth
      <3>1. Error("FileNotFoundError") # Error("RecursionError")
            /\ Loading # Error("RecursionError")
        BY DEF Error, Loading
      <3>2. Top = t /\ NextKey = k
        BY DEF Top, NextKey, Last
      <3>3. fn \in Files
        <4>1. SUFFICES ASSUME fn \notin Files PROVE FALSE
          OBVIOUS
        <4>2. outcome' = Error("FileNotFoundError")
          BY <3>2, <4>1 DEF Include, Raise
        <4>3. QED
          BY <3>1, <4>2
      <3>4. n = MaxDepth
        <4>1. SUFFICES ASSUME n # MaxDepth PROVE FALSE
          OBVIOUS
        <4>2. outcome' = outcome
          BY <3>2, <3>3, <4>1 DEF Include
        <4>3. QED
          BY <2>1, <3>1, <4>2
      <3>5. QED
        BY <3>3, <3>4
    <2>3. PICK rank \in [Files -> 0..(C - 1)] : Ranking(rank)
      BY DEF IncludesAcyclic, Ranking
    <2>4. IncludesFile(t.file, fn)
      <3>1. k \in Keys /\ t.root = DirOf(t.file)
        BY <2>1, IncludeAssumption DEF FrameOK
      <3>2. QED
        BY <2>1, <2>2, <3>1 DEF IncludesFile
    <2>5. t.file \in Files /\ stack[1].file \in Files
      <3>1. 1 \in 1..n
        BY <2>1
      <3>2. QED
        BY <2>1, <3>1 DEF FrameInv, FrameOK
    <2>6. C \in Nat
      BY IncludeAssumption, FS_CardinalityType
    <2>7. rank[fn] < rank[t.file] /\ rank[fn] >= 0 /\ rank[stack[1].file] <= C - 1
      <3>1. rank[fn] < rank[t.file]
        BY <2>2, <2>3, <2>4, <2>5, Zenon DEF Ranking
      <3>2. rank[fn] \in 0..(C - 1) /\ rank[stack[1].file] \in 0..(C - 1)
        BY <2>2, <2>3, <2>5
      <3>3. \A x, c : c \in Nat /\ x \in 0..(c - 1) => x >= 0 /\ x <= c - 1
        OBVIOUS
      <3>4. QED
        BY <2>6, <3>1, <3>2, <3>3
    <2>8. rank[t.file] + (n - 1) <= rank[stack[1].file]
      <3>1. CASE n = 1
        BY <3>1, <2>5, <2>6, <2>3
      <3>2. CASE n > 1
        <4>1. rank \in [Files -> Int]
          BY <2>3, <2>6
        <4>2. 1 \in 1..n /\ n \in 1..n /\ 1 < n
          BY <2>1, <3>2
        <4>3. QED
          BY <4>1, <4>2, <2>3 DEF AcyclicInv, Descending
      <3>3. QED
        <4>1. \A x \in Nat : x >= 1 => x = 1 \/ x > 1
          OBVIOUS
        <4>2. QED
          BY <2>1, <3>1, <3>2, <4>1
    <2>9. rank[t.file] \in Int /\ rank[fn] \in Int /\ rank[stack[1].file] \in Int
      BY <2>2, <2>3, <2>5, <2>6
    <2>10. n \in Int /\ C \in Int /\ n >= C
      BY <2>1, <2>2, <2>6
    <2>11. \A a, b, r, m, c \in Int :
              b < a /\ b >= 0 /\ r <= c - 1 /\ a + (m - 1) <= r /\ m >= c => FALSE
      OBVIOUS
    <2>12. QED
      BY <2>7, <2>8, <2>9, <2>10, <2>11
  <1>4. QED
    BY <1>1, <1>2, <1>3, PTL DEF Spec

====
