----------------------- MODULE RocketSubmitRefsProofs -----------------------
(***************************************************************************)
(* Proofs about RocketSubmit's references: every count is the number of    *)
(* those that hold one, so nothing is freed that is in use, and nothing is *)
(* left when the file is closed.                                           *)
(***************************************************************************)
EXTENDS RocketSubmitProofs, FiniteSetTheorems

Making  == {"handle", "pages", "insert", "map", "map_nowhere"}
Late    == Making \ {"handle"}
Using   == {"wait", "ready", "late", "fini"}
Holding == Using \cup {"handle"}

----------------------------------------------------------------------------
(* Counting, for any value of the variables.                               *)

\* The jobs that have b on their list f[j].
CountOf(f, b) == Cardinality({j \in Jobs : b \in f[j]})

\* The threads that hold a reference to b while they are at p[t].
HeldCount(p, m, b) == Cardinality({t \in Threads : m[t] = b /\ p[t] \in Holding})

RefSum(h, i, o, p, m, b) == Ref(h[b]) + CountOf(i, b) + CountOf(o, b) + HeldCount(p, m, b)

\* The buffers that are there.
There(s) == {b \in BOs : s[b] # "none"}

\* The jobs that have their domain: all but those whose submitter has not come
\* that far.
WithDomain(s, p, m) ==
    {j \in Jobs : s[j] # "free" /\ ~\E t \in Threads : m[t] = j /\ p[t] \in {"in", "out"}}

LEMMA CountType ==
    ASSUME NEW f, NEW b
    PROVE  /\ IsFiniteSet({j \in Jobs : b \in f[j]}) /\ CountOf(f, b) \in Nat
           /\ CountOf(f, b) = 0 <=> {j \in Jobs : b \in f[j]} = {}
<1>1. {j \in Jobs : b \in f[j]} \in SUBSET Jobs
  OBVIOUS
<1>2. IsFiniteSet({j \in Jobs : b \in f[j]})
  BY <1>1, SetsAssumption, FS_Subset
<1> QED BY <1>2, FS_CardinalityType, FS_EmptySet DEF CountOf

LEMMA HeldType ==
    ASSUME NEW p, NEW m, NEW b
    PROVE  /\ IsFiniteSet({t \in Threads : m[t] = b /\ p[t] \in Holding})
           /\ HeldCount(p, m, b) \in Nat
           /\ HeldCount(p, m, b) = 0 <=> {t \in Threads : m[t] = b /\ p[t] \in Holding} = {}
<1>1. {t \in Threads : m[t] = b /\ p[t] \in Holding} \in SUBSET Threads
  OBVIOUS
<1>2. IsFiniteSet({t \in Threads : m[t] = b /\ p[t] \in Holding})
  BY <1>1, SetsAssumption, FS_Subset
<1> QED BY <1>2, FS_CardinalityType, FS_EmptySet DEF HeldCount

LEMMA ThereType == ASSUME NEW s PROVE IsFiniteSet(There(s)) /\ Cardinality(There(s)) \in Nat
<1>1. There(s) \in SUBSET BOs
  BY DEF There
<1>2. IsFiniteSet(There(s))
  BY <1>1, SetsAssumption, FS_Subset
<1> QED BY <1>2, FS_CardinalityType

LEMMA WithType ==
    ASSUME NEW s, NEW p, NEW m
    PROVE  IsFiniteSet(WithDomain(s, p, m)) /\ Cardinality(WithDomain(s, p, m)) \in Nat
<1>1. WithDomain(s, p, m) \in SUBSET Jobs
  BY DEF WithDomain
<1>2. IsFiniteSet(WithDomain(s, p, m))
  BY <1>1, SetsAssumption, FS_Subset
<1> QED BY <1>2, FS_CardinalityType

\* One element more, one less.
LEMMA OneMore ==
    ASSUME NEW S, NEW x, NEW T, IsFiniteSet(S), x \notin S, T = S \cup {x}
    PROVE  Cardinality(T) = Cardinality(S) + 1
  BY FS_AddElement

LEMMA OneLess ==
    ASSUME NEW S, NEW x, NEW T, IsFiniteSet(S), x \in S, T = S \ {x}
    PROVE  Cardinality(T) = Cardinality(S) - 1
  BY FS_RemoveElement

\* One job's list changes.
LEMMA CountChange ==
    ASSUME NEW f \in [Jobs -> SUBSET BOs], NEW j \in Jobs, NEW S \in SUBSET BOs, NEW b
    PROVE  CountOf([f EXCEPT ![j] = S], b) = CountOf(f, b) - Ref(b \in f[j]) + Ref(b \in S)
<1> DEFINE g == [f EXCEPT ![j] = S]
           A == {k \in Jobs : b \in f[k]}
           B == {k \in Jobs : b \in g[k]}
<1>1. \A k \in Jobs : g[k] = IF k = j THEN S ELSE f[k]
  OBVIOUS
<1>2. IsFiniteSet(A) /\ IsFiniteSet(B) /\ Cardinality(A) \in Nat /\ Cardinality(B) \in Nat
  BY CountType DEF CountOf
<1>3. CountOf(f, b) = Cardinality(A) /\ CountOf(g, b) = Cardinality(B)
  BY DEF CountOf
<1>4. CASE b \in f[j] <=> b \in S
  <2>1. A = B
    BY <1>1, <1>4
  <2>2. CountOf(g, b) = CountOf(f, b) /\ CountOf(f, b) \in Nat
    BY <1>2, <1>3, <2>1
  <2>3. Ref(b \in f[j]) = Ref(b \in S) /\ Ref(b \in S) \in Nat
    BY <1>4 DEF Ref
  <2> QED BY <2>2, <2>3
<1>5. CASE b \in f[j] /\ b \notin S
  <2>1. B = A \ {j} /\ j \in A
    BY <1>1, <1>5
  <2>2. Cardinality(B) = Cardinality(A) - 1
    BY <1>2, <2>1, OneLess
  <2> QED BY <1>2, <1>3, <1>5, <2>2 DEF Ref
<1>6. CASE b \notin f[j] /\ b \in S
  <2>1. B = A \cup {j} /\ j \notin A
    BY <1>1, <1>6
  <2>2. Cardinality(B) = Cardinality(A) + 1
    BY <1>2, <2>1, OneMore
  <2> QED BY <1>2, <1>3, <1>6, <2>2 DEF Ref
<1> QED BY <1>4, <1>5, <1>6

\* What thread t contributes to that.
HeldBy(p, m, t, b) == Ref(m[t] = b /\ p[t] \in Holding)

\* One thread moves.
LEMMA HeldChange ==
    ASSUME NEW p, NEW m, NEW q, NEW n, NEW t \in Threads, NEW b,
           \A u \in Threads \ {t} : q[u] = p[u] /\ n[u] = m[u]
    PROVE  HeldCount(q, n, b) = HeldCount(p, m, b) - HeldBy(p, m, t, b) + HeldBy(q, n, t, b)
<1> DEFINE A == {u \in Threads : m[u] = b /\ p[u] \in Holding}
           B == {u \in Threads : n[u] = b /\ q[u] \in Holding}
<1>1. IsFiniteSet(A) /\ IsFiniteSet(B) /\ Cardinality(A) \in Nat /\ Cardinality(B) \in Nat
  <2>1. IsFiniteSet(A) /\ HeldCount(p, m, b) \in Nat
    BY HeldType
  <2>2. IsFiniteSet(B) /\ HeldCount(q, n, b) \in Nat
    BY HeldType
  <2> QED BY <2>1, <2>2 DEF HeldCount
<1>2. HeldCount(p, m, b) = Cardinality(A) /\ HeldCount(q, n, b) = Cardinality(B)
  BY DEF HeldCount
<1>3. CASE t \in A <=> t \in B
  <2>1. A = B
    BY <1>3
  <2>2. HeldCount(q, n, b) = HeldCount(p, m, b) /\ HeldCount(p, m, b) \in Nat
    BY <1>1, <1>2, <2>1
  <2>3. HeldBy(p, m, t, b) = HeldBy(q, n, t, b) /\ HeldBy(p, m, t, b) \in Nat
    BY <1>3 DEF Ref, HeldBy
  <2> QED BY <2>2, <2>3
<1>4. CASE t \in A /\ t \notin B
  <2>1. B = A \ {t}
    BY <1>4
  <2>2. Cardinality(B) = Cardinality(A) - 1
    BY <1>1, <1>4, <2>1, OneLess
  <2> QED BY <1>1, <1>2, <1>4, <2>2 DEF Ref, HeldBy
<1>5. CASE t \notin A /\ t \in B
  <2>1. B = A \cup {t}
    BY <1>5
  <2>2. Cardinality(B) = Cardinality(A) + 1
    BY <1>1, <1>5, <2>1, OneMore
  <2> QED BY <1>1, <1>2, <1>5, <2>2 DEF Ref, HeldBy
<1> QED BY <1>3, <1>4, <1>5

\* Who is referenced has a count.
LEMMA RefSumType ==
    ASSUME NEW h, NEW i, NEW o, NEW p, NEW m, NEW b
    PROVE  /\ RefSum(h, i, o, p, m, b) \in Nat
           /\ h[b] => RefSum(h, i, o, p, m, b) > 0
           /\ (\E j \in Jobs : b \in i[j] \cup o[j]) => RefSum(h, i, o, p, m, b) > 0
           /\ (\E t \in Threads : m[t] = b /\ p[t] \in Holding)
                 => RefSum(h, i, o, p, m, b) > 0
<1>1. /\ CountOf(i, b) \in Nat /\ CountOf(o, b) \in Nat /\ HeldCount(p, m, b) \in Nat
      /\ Ref(h[b]) \in Nat /\ (h[b] => Ref(h[b]) = 1)
  BY CountType, HeldType DEF Ref
<1>2. (\E j \in Jobs : b \in i[j] \cup o[j]) => CountOf(i, b) # 0 \/ CountOf(o, b) # 0
  BY CountType
<1>3. (\E t \in Threads : m[t] = b /\ p[t] \in Holding) => HeldCount(p, m, b) # 0
  BY HeldType
<1>4. RefSum(h, i, o, p, m, b) = Ref(h[b]) + CountOf(i, b) + CountOf(o, b) + HeldCount(p, m, b)
  BY DEF RefSum
<1>5. RefSum(h, i, o, p, m, b) \in Nat
  BY <1>1, <1>4
<1>6. Ref(h[b]) # 0 \/ CountOf(i, b) # 0 \/ CountOf(o, b) # 0 \/ HeldCount(p, m, b) # 0
        => RefSum(h, i, o, p, m, b) > 0
  BY <1>1, <1>4
<1>7. h[b] => Ref(h[b]) # 0
  BY DEF Ref
<1> QED BY <1>2, <1>3, <1>5, <1>6, <1>7

\* A count says whether somebody has a reference.
LEMMA RefSumHeld ==
    ASSUME NEW h, NEW i, NEW o, NEW p, NEW m, NEW b
    PROVE  RefSum(h, i, o, p, m, b) # 0 <=>
             \/ h[b] \/ \E j \in Jobs : b \in i[j] \cup o[j]
             \/ \E t \in Threads : m[t] = b /\ p[t] \in Holding
<1>1. CountOf(i, b) \in Nat /\ CountOf(o, b) \in Nat
  BY CountType
<1>2. HeldCount(p, m, b) \in Nat /\ Ref(h[b]) \in Nat
  BY HeldType DEF Ref
<1>3. RefSum(h, i, o, p, m, b) # 0 <=>
        \/ Ref(h[b]) # 0 \/ CountOf(i, b) # 0 \/ CountOf(o, b) # 0
        \/ HeldCount(p, m, b) # 0
  BY <1>1, <1>2 DEF RefSum
<1>4. CountOf(i, b) # 0 \/ CountOf(o, b) # 0 <=> \E j \in Jobs : b \in i[j] \cup o[j]
  BY CountType
<1>5. HeldCount(p, m, b) # 0 <=> \E t \in Threads : m[t] = b /\ p[t] \in Holding
  BY HeldType
<1>6. Ref(h[b]) # 0 <=> h[b]
  BY DEF Ref
<1> QED BY <1>3, <1>4, <1>5, <1>6

----------------------------------------------------------------------------
(* The invariant.                                                          *)

Broken == {"no", "not_mapped", "late_free", "no_node", "stale_handle",
           "freed_in_use", "no_pages", "no_domain"}

MoreTypes ==
    /\ file \in {"open", "released", "closed"} /\ domRefs \in Nat
    /\ bst \in [BOs -> {"none", "new", "handled", "paged", "mapped", "adrift", "stale"}]
    /\ brefs \in [BOs -> Nat] /\ handle \in [BOs -> BOOLEAN]
    /\ ins \in [Jobs -> SUBSET BOs]
    /\ pc \in [Threads -> {"idle", "handle", "pages", "insert", "map", "map_nowhere",
                           "wait", "ready", "late", "fini",
                           "in", "out", "push", "attach", "put"}]
    /\ broken \in Broken

\* What the threads and jobs point to.
LinkInv ==
    /\ \A j \in Jobs : jst[j] = "free" => ins[j] = {} /\ outs[j] = {}
    /\ \A t \in Threads : /\ pc[t] = "in" => ins[myJob[t]] = {}
                          /\ pc[t] \in {"in", "out"} => outs[myJob[t]] = {}
    /\ \A t \in Threads : IF pc[t] \in Making \cup Using
                          THEN myBo[t] \in BOs ELSE myBo[t] = None
    /\ \A t, u \in Threads :
         pc[t] \in Making /\ pc[u] \in Making /\ myBo[t] = myBo[u] => t = u
    /\ file # "open" => (\A t \in Threads : pc[t] = "idle") /\ (\A b \in BOs : ~handle[b])

\* A buffer somebody can have found under its handle.
Known(b) == Usable(b) \/ (HalfMade(b) /\ "early_use" \in Events)

\* How far a buffer is set up, by who is about to use it.  A creator has no
\* reference once the handle is there: its buffer stays only if nothing breaks.
ThreadBuf(t) ==
    /\ pc[t] = "handle" => bst[myBo[t]] = "new"
    /\ pc[t] \in Late => HalfMade(myBo[t]) \/ broken # "no"
    /\ pc[t] \in Using => Known(myBo[t])
BufInv ==
    /\ \A t \in Threads : ThreadBuf(t)
    /\ \A b \in BOs : HalfMade(b) => \E t \in Threads : pc[t] \in Late /\ myBo[t] = b
    /\ \A b \in BOs : handle[b] => bst[b] \notin {"none", "new"}
    /\ \A j \in Jobs : \A b \in BosOf(j) : Known(b)

\* The counts are the references there are.
RefInv  == \A b \in BOs : brefs[b] = RefSum(handle, ins, outs, pc, myBo, b)
LiveInv == \A b \in BOs : brefs[b] = 0 <=> bst[b] = "none"
DomInv  == domRefs = Ref(file # "closed") + Cardinality(There(bst))
                                          + Cardinality(WithDomain(jst, pc, myJob))

Strong == LinkInv /\ BufInv /\ RefInv /\ LiveInv /\ DomInv

LEMMA RefdBuffer ==
    ASSUME RefInv, NEW b \in BOs
    PROVE  /\ handle[b] => brefs[b] > 0
           /\ (\E j \in Jobs : b \in BosOf(j)) => brefs[b] > 0
           /\ (\E t \in Threads : myBo[t] = b /\ pc[t] \in Holding) => brefs[b] > 0
  BY RefSumType DEF RefInv, BosOf

\* What Drop does, if nobody puts what he does not have.
LEMMA DropStep ==
    ASSUME MoreTypes, LiveInv, NEW n \in [BOs -> Nat], NEW d \in Nat,
           \A b \in BOs : n[b] <= brefs[b], Drop(n, d)
    PROVE  /\ brefs' \in [BOs -> Nat] /\ \A b \in BOs : brefs'[b] = brefs[b] - n[b]
           /\ bst' \in [BOs -> {"none", "new", "handled", "paged", "mapped", "adrift", "stale"}]
           /\ \A b \in BOs : /\ bst'[b] \in {bst[b], "none"}
                             /\ brefs'[b] > 0 => bst'[b] = bst[b]
           /\ \A b \in BOs : HalfMade(b) /\ bst'[b] # bst[b] => broken' # "no"
           /\ LiveInv' /\ broken' \in Broken
           /\ domRefs' = domRefs - d - (Cardinality(There(bst)) - Cardinality(There(bst')))
<1> USE DEF MoreTypes
<1> DEFINE gone == {b \in BOs : n[b] > 0 /\ brefs[b] = n[b]}
           faults == {FreeFault(b) : b \in gone} \ {"no"}
<1>1. /\ brefs' = [b \in BOs |-> brefs[b] - n[b]]
      /\ bst' = [b \in BOs |-> IF b \in gone THEN "none" ELSE bst[b]]
      /\ domRefs' = domRefs - (Cardinality(gone) + d)
      /\ broken' \in IF faults = {} THEN {"no"} ELSE faults
  BY DEF Drop, DomainPut
<1>2. brefs' \in [BOs -> Nat] /\ \A b \in BOs : brefs'[b] = brefs[b] - n[b]
  BY <1>1
<1>3. /\ bst' \in [BOs -> {"none", "new", "handled", "paged", "mapped", "adrift", "stale"}]
      /\ \A b \in BOs : /\ bst'[b] \in {bst[b], "none"}
                        /\ brefs'[b] > 0 => bst'[b] = bst[b]
  BY <1>1
<1>4. LiveInv'
  <2>1. ASSUME NEW b \in BOs PROVE brefs'[b] = 0 <=> bst'[b] = "none"
    <3>1. brefs[b] \in Nat /\ n[b] \in Nat /\ n[b] <= brefs[b] /\ brefs'[b] = brefs[b] - n[b]
      BY <1>2
    <3>2. bst'[b] = IF n[b] > 0 /\ brefs[b] = n[b] THEN "none" ELSE bst[b]
      BY <1>1
    <3>3. brefs[b] = 0 <=> bst[b] = "none"
      BY DEF LiveInv
    <3> QED BY <3>1, <3>2, <3>3
  <2> QED BY <2>1 DEF LiveInv
<1>5. broken' \in Broken
  BY <1>1 DEF FreeFault, Broken
<1>6. Cardinality(There(bst')) = Cardinality(There(bst)) - Cardinality(gone)
      /\ Cardinality(gone) \in Nat
  <2>1. gone \subseteq There(bst)
    BY DEF LiveInv, There
  <2>2. There(bst') = There(bst) \ gone
    BY <1>1 DEF There
  <2>3. IsFiniteSet(gone) /\ IsFiniteSet(There(bst)) /\ There(bst) \cap gone = gone
    BY <2>1, ThereType, FS_Subset
  <2>4. Cardinality(There(bst) \ gone) = Cardinality(There(bst)) - Cardinality(There(bst) \cap gone)
    BY <2>3, FS_Difference
  <2> QED BY <2>2, <2>3, <2>4, FS_CardinalityType
<1>7. domRefs' = domRefs - d - (Cardinality(There(bst)) - Cardinality(There(bst')))
  BY <1>1, <1>6, ThereType
<1>8. ASSUME NEW b \in BOs, HalfMade(b), bst'[b] # bst[b] PROVE broken' # "no"
  <2>1. b \in gone /\ FreeFault(b) = "not_mapped"
    BY <1>1, <1>8 DEF FreeFault, HalfMade, Usable
  <2>2. "not_mapped" \in faults /\ "no" \notin faults
    BY <2>1
  <2> QED BY <1>1, <2>2
<1> QED BY <1>2, <1>3, <1>4, <1>5, <1>7, <1>8

\* Where references only went away, whoever still has one has what he had.
LEMMA DropBuf ==
    ASSUME MoreTypes, LinkInv, BufInv, RefInv', LinkInv', broken = "no",
           \A b \in BOs : /\ bst'[b] \in {bst[b], "none"}
                          /\ brefs'[b] > 0 => bst'[b] = bst[b]
                          /\ HalfMade(b) /\ bst'[b] # bst[b] => broken' # "no",
           \A u \in Threads : /\ pc'[u] \in Making \cup Using
                                   => pc'[u] = pc[u] /\ myBo'[u] = myBo[u]
                              /\ pc[u] \in Late => pc'[u] = pc[u] /\ myBo'[u] = myBo[u],
           \A b \in BOs : handle'[b] => handle[b],
           \A j \in Jobs : ins'[j] \subseteq ins[j] /\ outs'[j] \subseteq outs[j],
           ins \in [Jobs -> SUBSET BOs], outs \in [Jobs -> SUBSET BOs]
    PROVE  BufInv'
<1>1. ASSUME NEW b \in BOs,
             handle'[b] \/ (\E j \in Jobs : b \in ins'[j] \cup outs'[j])
                        \/ (\E t \in Threads : myBo'[t] = b /\ pc'[t] \in Holding)
      PROVE  bst'[b] = bst[b]
  <2>1. brefs'[b] > 0
    BY <1>1, RefSumType DEF RefInv
  <2> QED BY <2>1
<1>2. ASSUME NEW t \in Threads PROVE ThreadBuf(t)'
  <2>1. CASE pc'[t] \in Holding
    <3>1. pc'[t] = pc[t] /\ myBo'[t] = myBo[t] /\ myBo[t] \in BOs
      BY <2>1 DEF Holding, Making, LinkInv
    <3>2. bst'[myBo[t]] = bst[myBo[t]]
      BY <1>1, <2>1, <3>1
    <3>3. pc'[t] \notin Late
      BY <2>1 DEF Holding, Late, Using, Making
    <3> QED BY <3>1, <3>2, <3>3 DEF BufInv, ThreadBuf, Known, Usable, HalfMade
  <2>2. CASE pc'[t] \in Late
    <3>1. pc'[t] = pc[t] /\ myBo'[t] = myBo[t] /\ myBo[t] \in BOs
      BY <2>2 DEF Late, LinkInv
    <3>2. HalfMade(myBo[t])
      BY <2>2, <3>1 DEF BufInv, ThreadBuf
    <3>3. HalfMade(myBo[t])' \/ broken' # "no"
      BY <3>1, <3>2 DEF HalfMade
    <3> QED BY <2>2, <3>1, <3>3 DEF ThreadBuf, Late, Making, Using
  <2> QED BY <2>1, <2>2 DEF Holding, ThreadBuf
<1>3. ASSUME NEW b \in BOs, HalfMade(b)'
      PROVE  \E t \in Threads : pc'[t] \in Late /\ myBo'[t] = b
  <2>1. HalfMade(b)
    BY <1>3 DEF HalfMade
  <2> QED BY <2>1 DEF BufInv
<1>4. \A b \in BOs : handle'[b] => bst'[b] \notin {"none", "new"}
  BY <1>1 DEF BufInv
<1>5. ASSUME NEW j \in Jobs, NEW b \in ins'[j] \cup outs'[j]
      PROVE  Known(b)'
  <2>1. b \in BOs /\ b \in BosOf(j)
    BY <1>5 DEF BosOf
  <2>2. bst'[b] = bst[b]
    BY <1>1, <1>5, <2>1
  <2> QED BY <2>1, <2>2 DEF BufInv, Known, Usable, HalfMade
<1> QED BY <1>2, <1>3, <1>4, <1>5 DEF BufInv, BosOf

\* One thread, and perhaps a handle: the counts follow.
LEMMA RefThread ==
    ASSUME RefInv, NEW t \in Threads, UNCHANGED <<ins, outs>>,
           \A u \in Threads \ {t} : pc'[u] = pc[u] /\ myBo'[u] = myBo[u],
           \A b \in BOs : brefs[b] \in Nat /\
               brefs'[b] = brefs[b] - Ref(handle[b]) + Ref(handle'[b])
                           - HeldBy(pc, myBo, t, b) + HeldBy(pc', myBo', t, b)
    PROVE  RefInv'
<1> SUFFICES ASSUME NEW b \in BOs
             PROVE  brefs'[b] = RefSum(handle', ins', outs', pc', myBo', b)
  BY DEF RefInv
<1> DEFINE X  == HeldBy(pc, myBo, t, b)
           X1 == HeldBy(pc', myBo', t, b)
           N  == HeldCount(pc, myBo, b)
           N1 == HeldCount(pc', myBo', b)
<1>1. N1 = N - X + X1 /\ N \in Nat /\ X \in Nat /\ X1 \in Nat
  <2>1. N1 = N - X + X1
    BY HeldChange
  <2>2. N \in Nat
    BY HeldType
  <2>3. X \in Nat /\ X1 \in Nat
    BY DEF Ref, HeldBy
  <2> QED BY <2>1, <2>2, <2>3
<1>2. /\ CountOf(ins', b) = CountOf(ins, b) /\ CountOf(outs', b) = CountOf(outs, b)
      /\ CountOf(ins, b) \in Nat /\ CountOf(outs, b) \in Nat
      /\ Ref(handle[b]) \in Nat /\ Ref(handle'[b]) \in Nat
  BY CountType DEF Ref
<1>3. brefs[b] = Ref(handle[b]) + CountOf(ins, b) + CountOf(outs, b) + N
  BY DEF RefInv, RefSum
<1>4. brefs'[b] = brefs[b] - Ref(handle[b]) + Ref(handle'[b]) - X + X1
  OBVIOUS
<1>5. RefSum(handle', ins', outs', pc', myBo', b)
        = Ref(handle'[b]) + CountOf(ins', b) + CountOf(outs', b) + N1
  BY DEF RefSum
<1> HIDE DEF X, X1, N, N1
<1> QED BY <1>1, <1>2, <1>3, <1>4, <1>5

\* One job's lists: the counts follow.
LEMMA RefJob ==
    ASSUME RefInv, NEW j \in Jobs, handle' = handle,
           ins \in [Jobs -> SUBSET BOs], outs \in [Jobs -> SUBSET BOs],
           ins' \in [Jobs -> SUBSET BOs], outs' \in [Jobs -> SUBSET BOs],
           \A k \in Jobs \ {j} : ins'[k] = ins[k] /\ outs'[k] = outs[k],
           \A u \in Threads : /\ pc'[u] \in Holding <=> pc[u] \in Holding
                              /\ pc[u] \in Holding => myBo'[u] = myBo[u],
           \A b \in BOs : brefs[b] \in Nat /\
               brefs'[b] = brefs[b] - Ref(b \in ins[j]) - Ref(b \in outs[j])
                           + Ref(b \in ins'[j]) + Ref(b \in outs'[j])
    PROVE  RefInv'
<1> SUFFICES ASSUME NEW b \in BOs
             PROVE  brefs'[b] = RefSum(handle', ins', outs', pc', myBo', b)
  BY DEF RefInv
<1>1. /\ CountOf(ins', b) = CountOf(ins, b) - Ref(b \in ins[j]) + Ref(b \in ins'[j])
      /\ CountOf(outs', b) = CountOf(outs, b) - Ref(b \in outs[j]) + Ref(b \in outs'[j])
  <2>1. /\ ins' = [ins EXCEPT ![j] = ins'[j]] /\ ins'[j] \in SUBSET BOs
        /\ outs' = [outs EXCEPT ![j] = outs'[j]] /\ outs'[j] \in SUBSET BOs
    OBVIOUS
  <2>2. \A x \in SUBSET BOs :
           /\ CountOf([ins EXCEPT ![j] = x], b) = CountOf(ins, b) - Ref(b \in ins[j]) + Ref(b \in x)
           /\ CountOf([outs EXCEPT ![j] = x], b) = CountOf(outs, b) - Ref(b \in outs[j]) + Ref(b \in x)
    BY CountChange
  <2> QED BY <2>1, <2>2
<1>2. HeldCount(pc', myBo', b) = HeldCount(pc, myBo, b)
  <2>1. {t \in Threads : myBo'[t] = b /\ pc'[t] \in Holding}
          = {t \in Threads : myBo[t] = b /\ pc[t] \in Holding}
    OBVIOUS
  <2> QED BY <2>1 DEF HeldCount
<1>3. /\ CountOf(ins, b) \in Nat /\ CountOf(outs, b) \in Nat /\ HeldCount(pc, myBo, b) \in Nat
      /\ \A x \in BOOLEAN : Ref(x) \in Nat
  BY CountType, HeldType DEF Ref
<1>4. brefs[b] = Ref(handle[b]) + CountOf(ins, b) + CountOf(outs, b) + HeldCount(pc, myBo, b)
  BY DEF RefInv, RefSum
<1>5. RefSum(handle', ins', outs', pc', myBo', b)
        = Ref(handle[b]) + CountOf(ins', b) + CountOf(outs', b) + HeldCount(pc, myBo, b)
  BY <1>2 DEF RefSum
<1>6. Ref(handle[b]) \in Nat /\ Ref(b \in ins[j]) \in Nat /\ Ref(b \in outs[j]) \in Nat
      /\ Ref(b \in ins'[j]) \in Nat /\ Ref(b \in outs'[j]) \in Nat
  BY DEF Ref
<1> QED BY <1>1, <1>3, <1>4, <1>5, <1>6

LEMMA WithSame ==
    ASSUME \A j \in Jobs : jst'[j] = "free" <=> jst[j] = "free",
           \A u \in Threads : /\ pc'[u] \in {"in", "out"} <=> pc[u] \in {"in", "out"}
                              /\ pc[u] \in {"in", "out"} => myJob'[u] = myJob[u]
    PROVE  WithDomain(jst', pc', myJob') = WithDomain(jst, pc, myJob)
  BY DEF WithDomain

\* Where no buffer's state changes, it is enough that whoever comes to use one
\* has found it.
LEMMA SameBuf ==
    ASSUME BufInv, UNCHANGED <<bst, handle, broken>>,
           \A u \in Threads : /\ pc'[u] \in Making <=> pc[u] \in Making
                              /\ pc'[u] \in Making => pc'[u] = pc[u] /\ myBo'[u] = myBo[u]
                              /\ pc'[u] \in Using => \/ pc[u] \in Using /\ myBo'[u] = myBo[u]
                                                     \/ Known(myBo'[u]),
           \A k \in Jobs : \A b \in ins'[k] \cup outs'[k] : b \in BosOf(k) \/ Known(b)
    PROVE  BufInv'
<1>1. ASSUME NEW u \in Threads PROVE ThreadBuf(u)'
  <2>1. ThreadBuf(u)
    BY DEF BufInv
  <2>2. CASE pc'[u] \in Making
    BY <2>1, <2>2 DEF ThreadBuf, HalfMade, Making, Using, Late
  <2>3. CASE pc'[u] \in Using
    <3>1. Known(myBo'[u])
      BY <2>1, <2>3 DEF ThreadBuf
    <3>2. Known(myBo[u])'
      BY <3>1 DEF Known, Usable, HalfMade
    <3> QED BY <2>3, <3>2 DEF ThreadBuf, Making, Using, Late
  <2> QED BY <2>2, <2>3 DEF ThreadBuf, Making, Late
<1>2. ASSUME NEW c \in BOs, HalfMade(c)'
      PROVE  \E u \in Threads : pc'[u] \in Late /\ myBo'[u] = c
  <2>1. PICK u \in Threads : pc[u] \in Late /\ myBo[u] = c
    BY <1>2 DEF BufInv, HalfMade
  <2>2. pc'[u] = pc[u] /\ myBo'[u] = myBo[u]
    BY <2>1 DEF Late
  <2> QED BY <2>1, <2>2
<1>3. ASSUME NEW k \in Jobs, NEW b \in ins'[k] \cup outs'[k] PROVE Known(b)'
  BY <1>3 DEF BufInv, Known, Usable, HalfMade
<1> QED BY <1>1, <1>2, <1>3 DEF BufInv, BosOf

Good == MoreTypes /\ Strong

----------------------------------------------------------------------------
(* The steps of a buffer's life.                                           *)

LEMMA CreateBeginGood ==
    ASSUME SubInv, Good, broken = "no", NEW t \in Threads, NEW b \in BOs, CreateBegin(t, b)
    PROVE  Good'
<1> USE DEF Good, Strong, MoreTypes
<1>1. /\ bst[b] = "none" /\ file = "open" /\ pc[t] = "idle"
      /\ pc' = [pc EXCEPT ![t] = "handle"] /\ myBo' = [myBo EXCEPT ![t] = b]
      /\ bst' = [bst EXCEPT ![b] = "new"] /\ brefs' = [brefs EXCEPT ![b] = 1]
      /\ domRefs' = domRefs + 1
      /\ UNCHANGED <<file, handle, jst, refs, ins, outs, fenced, myJob, owed, broken>>
  BY DEF CreateBegin, Enter, DomainGet, jobVars
<1>2. myBo \in [Threads -> BOs \cup {None}] /\ outs \in [Jobs -> SUBSET BOs]
  BY DEF SubInv, SubTypes
<1>3. MoreTypes'
  BY <1>1
<1>4. LinkInv'
  BY <1>1, <1>2 DEF LinkInv, BufInv, ThreadBuf, HalfMade, Making, Using, Late
<1>5. \A u \in Threads \ {t} : pc'[u] = pc[u] /\ myBo'[u] = myBo[u]
  BY <1>1
<1>6. ~(\E u \in Threads : myBo[u] = b /\ pc[u] \in Late \cup Holding)
      /\ ~handle[b] /\ \A j \in Jobs : b \notin BosOf(j)
  <2>1. brefs[b] = 0
    BY <1>1 DEF LiveInv
  <2>2. ~(\E u \in Threads : myBo[u] = b /\ pc[u] \in Holding)
        /\ ~handle[b] /\ \A j \in Jobs : b \notin BosOf(j)
    BY <2>1, RefdBuffer
  <2>3. ~(\E u \in Threads : myBo[u] = b /\ pc[u] \in Late)
    BY <1>1 DEF BufInv, ThreadBuf, HalfMade
  <2> QED BY <2>2, <2>3
<1>7. RefInv'
  <2>1. brefs[b] = 0
    BY <1>1 DEF LiveInv
  <2>2. ASSUME NEW c \in BOs
        PROVE  brefs'[c] = brefs[c] - Ref(handle[c]) + Ref(handle'[c])
                           - HeldBy(pc, myBo, t, c) + HeldBy(pc', myBo', t, c)
    <3>1. HeldBy(pc, myBo, t, c) = 0
      BY <1>1 DEF Ref, HeldBy, Holding, Using
    <3>2. HeldBy(pc', myBo', t, c) = Ref(c = b)
      BY <1>1, <1>2 DEF Ref, HeldBy, Holding
    <3>3. Ref(handle[c]) \in Nat /\ handle' = handle
      BY <1>1 DEF Ref
    <3>4. brefs'[c] = brefs[c] + Ref(c = b) /\ brefs[c] \in Nat
      BY <1>1, <2>1 DEF Ref
    <3> QED BY <3>1, <3>2, <3>3, <3>4 DEF Ref
  <2> QED BY <1>1, <1>5, <2>2, RefThread
<1>8. LiveInv'
  BY <1>1 DEF LiveInv
<1>9. BufInv'
  <2>1. /\ pc'[t] = "handle" /\ myBo'[t] = b /\ bst'[b] = "new"
        /\ \A c \in BOs \ {b} : bst'[c] = bst[c]
    BY <1>1, <1>2
  <2>2. ASSUME NEW u \in Threads PROVE ThreadBuf(u)'
    <3>1. CASE u = t
      BY <2>1, <3>1 DEF ThreadBuf, Late, Using, Making
    <3>2. CASE u # t /\ pc[u] \in Making \cup Using
      <4>1. myBo[u] \in BOs \ {b}
        BY <1>6, <3>2 DEF LinkInv, Making, Late, Holding, Using
      <4> QED BY <1>5, <2>1, <3>2, <4>1 DEF BufInv, ThreadBuf, Known, Usable, HalfMade
    <3>3. CASE u # t /\ pc[u] \notin Making \cup Using
      BY <1>5, <3>3 DEF ThreadBuf, Making, Late
    <3> QED BY <3>1, <3>2, <3>3
  <2>3. ASSUME NEW c \in BOs, HalfMade(c)'
        PROVE  \E u \in Threads : pc'[u] \in Late /\ myBo'[u] = c
    <3>1. HalfMade(c)
      BY <2>1, <2>3 DEF HalfMade
    <3>2. PICK u \in Threads : pc[u] \in Late /\ myBo[u] = c
      BY <3>1 DEF BufInv
    <3>3. u # t
      BY <1>1, <3>2 DEF Late, Making
    <3> QED BY <1>5, <3>2, <3>3
  <2>4. \A c \in BOs : handle'[c] => bst'[c] \notin {"none", "new"}
    BY <1>1, <1>6, <2>1 DEF BufInv
  <2>5. ASSUME NEW j \in Jobs, NEW c \in ins'[j] \cup outs'[j] PROVE Known(c)'
    <3>1. c \in BosOf(j) /\ c \in BOs \ {b}
      BY <1>1, <1>2, <1>6, <2>5 DEF BosOf
    <3> QED BY <2>1, <3>1 DEF BufInv, Known, Usable, HalfMade
  <2> QED BY <2>2, <2>3, <2>4, <2>5 DEF BufInv, BosOf
<1>10. DomInv'
  <2>1. Cardinality(There(bst')) = Cardinality(There(bst)) + 1
    <3>1. There(bst') = There(bst) \cup {b} /\ b \notin There(bst)
      BY <1>1 DEF There
    <3> QED BY <3>1, ThereType, OneMore
  <2>2. WithDomain(jst', pc', myJob') = WithDomain(jst, pc, myJob)
    BY <1>1, WithSame
  <2>3. Ref(file # "closed") \in Nat
    BY DEF Ref
  <2> QED BY <1>1, <2>1, <2>2, <2>3, ThereType, WithType DEF DomInv
<1> QED BY <1>3, <1>4, <1>7, <1>8, <1>9, <1>10

\* Steps that leave every count as it is.
LEMMA NoCount ==
    ASSUME Good, UNCHANGED <<file, domRefs, brefs, handle, ins, outs>>,
           \A j \in Jobs : jst'[j] = "free" <=> jst[j] = "free",
           \A u \in Threads : /\ pc'[u] \in {"in", "out"} <=> pc[u] \in {"in", "out"}
                              /\ pc[u] \in {"in", "out"} => myJob'[u] = myJob[u]
                              /\ pc'[u] \in Holding <=> pc[u] \in Holding
                              /\ pc[u] \in Holding => myBo'[u] = myBo[u],
           \A b \in BOs : bst'[b] = "none" <=> bst[b] = "none"
    PROVE  RefInv' /\ LiveInv' /\ DomInv'
<1> USE DEF Good, Strong
<1>1. ASSUME NEW b \in BOs PROVE brefs[b] = RefSum(handle', ins', outs', pc', myBo', b)
  <2>1. {t \in Threads : myBo'[t] = b /\ pc'[t] \in Holding}
          = {t \in Threads : myBo[t] = b /\ pc[t] \in Holding}
    OBVIOUS
  <2>2. HeldCount(pc', myBo', b) = HeldCount(pc, myBo, b)
    BY <2>1 DEF HeldCount
  <2>3. RefSum(handle', ins', outs', pc', myBo', b) = RefSum(handle, ins, outs, pc, myBo, b)
    BY <2>2 DEF RefSum, CountOf
  <2> QED BY <2>3 DEF RefInv
<1>2. LiveInv'
  BY DEF LiveInv
<1>3. There(bst') = There(bst)
  BY DEF There
<1>4. DomInv'
  BY <1>3, WithSame DEF DomInv
<1> QED BY <1>1, <1>2, <1>4 DEF RefInv

LEMMA CreatingFacts ==
    ASSUME SubInv, Good, NEW t \in Threads, pc[t] \in Making, broken = "no"
    PROVE  /\ myBo[t] \in BOs /\ file = "open"
           /\ pc[t] \in Late => HalfMade(myBo[t])
           /\ \A u \in Threads \ {t} : pc[u] \in Making => myBo[u] # myBo[t]
           /\ pc[t] = "handle" =>
                /\ bst[myBo[t]] = "new" /\ ~handle[myBo[t]]
                /\ \A u \in Threads : pc[u] \in Using => myBo[u] # myBo[t]
                /\ \A j \in Jobs : myBo[t] \notin BosOf(j)
<1> USE DEF Good, Strong
<1>1. myBo[t] \in BOs /\ file = "open"
  BY DEF LinkInv, Making, MoreTypes
<1>2. pc[t] \in Late => HalfMade(myBo[t])
  BY DEF BufInv, ThreadBuf
<1>3. pc[t] = "handle" => bst[myBo[t]] = "new" /\ ~handle[myBo[t]]
  BY <1>1 DEF BufInv, ThreadBuf
<1>4. ASSUME pc[t] = "handle"
      PROVE  /\ \A u \in Threads : pc[u] \in Using => myBo[u] # myBo[t]
             /\ \A j \in Jobs : myBo[t] \notin BosOf(j)
  BY <1>3, <1>4 DEF BufInv, ThreadBuf, Known, Usable, HalfMade
<1>5. \A u \in Threads \ {t} : pc[u] \in Making => myBo[u] # myBo[t]
  BY DEF LinkInv
<1> QED BY <1>1, <1>2, <1>3, <1>4, <1>5

\* Where the handle is the only reference, nobody uses the buffer ...
LEMMA OnlyHandle ==
    ASSUME Good, NEW b \in BOs, handle[b], brefs[b] = 1
    PROVE  /\ \A u \in Threads : pc[u] \in Holding => myBo[u] # b
           /\ \A j \in Jobs : b \notin BosOf(j)
<1>1. /\ CountOf(ins, b) \in Nat /\ CountOf(outs, b) \in Nat
      /\ HeldCount(pc, myBo, b) \in Nat /\ Ref(handle[b]) = 1
  BY CountType, HeldType DEF Ref
<1>2. Ref(handle[b]) + CountOf(ins, b) + CountOf(outs, b) + HeldCount(pc, myBo, b) = 1
  BY DEF Good, Strong, RefInv, RefSum
<1>3. 1 + CountOf(ins, b) + CountOf(outs, b) + HeldCount(pc, myBo, b) = 1
  BY <1>1, <1>2, Zenon
<1>4. CountOf(ins, b) = 0 /\ CountOf(outs, b) = 0 /\ HeldCount(pc, myBo, b) = 0
  BY <1>1, <1>3
<1> QED BY <1>4, CountType, HeldType DEF BosOf

\* ... and it is the only one of a half-made buffer, if nobody may use one.
LEMMA HalfMadeAlone ==
    ASSUME Good, NEW b \in BOs, HalfMade(b), "early_use" \notin Events
    PROVE  handle[b] /\ brefs[b] = 1
<1> USE DEF Good, Strong
<1>1. \A j \in Jobs : b \notin ins[j] /\ b \notin outs[j]
  BY DEF BufInv, Known, HalfMade, Usable, BosOf
<1>2. \A u \in Threads : ~(myBo[u] = b /\ pc[u] \in Holding)
  BY DEF BufInv, ThreadBuf, Known, HalfMade, Usable, Holding
<1>3. CountOf(ins, b) = 0 /\ CountOf(outs, b) = 0 /\ HeldCount(pc, myBo, b) = 0
  BY <1>1, <1>2, CountType, HeldType
<1>4. Ref(handle[b]) \in Nat /\ brefs[b] = Ref(handle[b])
  BY <1>3 DEF RefInv, RefSum, Ref
<1>5. brefs[b] # 0
  BY DEF LiveInv, HalfMade
<1> QED BY <1>4, <1>5 DEF Ref

LEMMA CreateMoveGood ==
    ASSUME SubInv, Good, NEW t \in Threads, NEW b, b = myBo[t], broken = "no",
           CreatePages(t) \/ CreateInsert(t) \/ CreateMap(t)
    PROVE  MoreTypes' /\ (broken' = "no" => Strong')
<1> USE DEF Good, Strong
<1> DEFINE Gone == handle[b] /\ brefs[b] = 1 /\ bst' = [bst EXCEPT ![b] = "stale"]
<1>1. /\ pc[t] \in Late
      /\ \/ pc' = [pc EXCEPT ![t] = "idle"] /\ myBo' = [myBo EXCEPT ![t] = None]
         \/ /\ \E to \in {"insert", "map", "map_nowhere"} : pc' = [pc EXCEPT ![t] = to]
            /\ myBo' = myBo
      /\ \/ bst' = bst \/ Gone
         \/ \E s \in {"paged", "mapped", "adrift"} : bst' = [bst EXCEPT ![b] = s]
      /\ broken' = "no" =>
           \/ /\ \E to \in {"insert", "map", "map_nowhere"} : pc' = [pc EXCEPT ![t] = to]
              /\ bst' = bst \/ bst' = [bst EXCEPT ![b] = "paged"]
           \/ /\ pc' = [pc EXCEPT ![t] = "idle"]
              /\ Gone \/ \E s \in {"mapped", "adrift"} : bst' = [bst EXCEPT ![b] = s]
      /\ broken' \in {"no", "no_node", "freed_in_use"}
      /\ UNCHANGED <<file, domRefs, brefs, handle, ins, outs, jst, refs, fenced, myJob, owed>>
  <2>1. CASE CreatePages(t)
    BY <2>1 DEF CreatePages, Go, Return, Unwind, Late, Making, jobVars
  <2>2. CASE CreateInsert(t)
    BY <2>2 DEF CreateInsert, Go, Late, Making, jobVars, boVars
  <2>3. CASE CreateMap(t)
    BY <2>3 DEF CreateMap, Go, Return, Unwind, Late, Making, jobVars
  <2> QED BY <2>1, <2>2, <2>3
<1>2. myBo \in [Threads -> BOs \cup {None}] /\ outs \in [Jobs -> SUBSET BOs]
  BY DEF SubInv, SubTypes
<1>3. /\ b \in BOs /\ file = "open" /\ HalfMade(b)
      /\ \A u \in Threads \ {t} : pc[u] \in Making => myBo[u] # b
  BY <1>1, CreatingFacts DEF Late
<1>4. Gone => /\ \A u \in Threads : pc[u] \in Holding => myBo[u] # b
              /\ \A j \in Jobs : b \notin BosOf(j)
  BY <1>3, OnlyHandle
<1>5. MoreTypes'
  <2>1. bst' \in [BOs -> {"none", "new", "handled", "paged", "mapped", "adrift", "stale"}]
    BY <1>1, <1>3 DEF MoreTypes
  <2> QED BY <1>1, <2>1 DEF MoreTypes, Broken
<1>6. /\ \A u \in Threads \ {t} : pc'[u] = pc[u] /\ myBo'[u] = myBo[u]
      /\ \/ pc'[t] = "idle" /\ myBo'[t] = None
         \/ pc'[t] \in {"insert", "map", "map_nowhere"} /\ myBo'[t] = b
  BY <1>1, <1>2 DEF MoreTypes
<1>7. /\ \A c \in BOs : c # b => bst'[c] = bst[c]
      /\ HalfMade(b)' \/ Usable(b)' \/ (Gone /\ bst'[b] = "stale")
  BY <1>1, <1>3 DEF MoreTypes, HalfMade, Usable
<1>8. ASSUME broken' = "no" PROVE Strong'
  <2>1. IF pc'[t] = "idle" THEN ~HalfMade(b)' ELSE HalfMade(b)'
    BY <1>1, <1>3, <1>8 DEF MoreTypes, HalfMade
  <2>2. LinkInv'
    BY <1>1, <1>3, <1>6 DEF LinkInv, Making, Using, Late
  <2>3. ASSUME NEW c \in BOs, Known(c), c = b => ~Gone PROVE Known(c)'
    BY <1>3, <1>7, <2>3 DEF Known, HalfMade, Usable
  <2>4. BufInv'
    <3>1. ASSUME NEW u \in Threads PROVE ThreadBuf(u)'
      <4>1. CASE u = t
        BY <1>3, <1>6, <2>1, <4>1 DEF ThreadBuf, Using, Late, Making
      <4>2. CASE u # t /\ pc[u] \in Making
        <5>1. myBo[u] \in BOs /\ myBo[u] # b
          BY <1>3, <4>2 DEF LinkInv
        <5> QED BY <1>6, <1>7, <4>2, <5>1
                DEF BufInv, ThreadBuf, HalfMade, Making, Late, Using
      <4>3. CASE u # t /\ pc[u] \in Using
        <5>1. myBo[u] \in BOs /\ Known(myBo[u])
          BY <4>3 DEF LinkInv, BufInv, ThreadBuf
        <5>2. myBo[u] = b => ~Gone
          BY <1>4, <4>3 DEF Holding
        <5>3. Known(myBo[u])'
          BY <1>6, <2>3, <4>3, <5>1, <5>2
        <5> QED BY <1>6, <4>3, <5>3 DEF ThreadBuf, Using, Late, Making
      <4>4. CASE u # t /\ pc[u] \notin Making \cup Using
        BY <1>6, <4>4 DEF ThreadBuf, Making, Late
      <4> QED BY <4>1, <4>2, <4>3, <4>4
    <3>2. ASSUME NEW c \in BOs, HalfMade(c)'
          PROVE  \E u \in Threads : pc'[u] \in Late /\ myBo'[u] = c
      <4>1. CASE c = b
        BY <1>6, <2>1, <3>2, <4>1 DEF Late, Making
      <4>2. CASE c # b
        <5>1. HalfMade(c)
          BY <1>7, <3>2, <4>2 DEF HalfMade
        <5>2. PICK u \in Threads : pc[u] \in Late /\ myBo[u] = c
          BY <5>1 DEF BufInv
        <5>3. u # t
          BY <4>2, <5>2
        <5> QED BY <1>6, <5>2, <5>3
      <4> QED BY <4>1, <4>2
    <3>3. \A c \in BOs : handle'[c] => bst'[c] \notin {"none", "new"}
      BY <1>1, <1>7 DEF BufInv, HalfMade, Usable
    <3>4. ASSUME NEW j \in Jobs, NEW c \in ins'[j] \cup outs'[j] PROVE Known(c)'
      <4>1. c \in BosOf(j) /\ c \in BOs
        BY <1>1, <1>2, <3>4 DEF BosOf, MoreTypes
      <4>2. Known(c) /\ (c = b => ~Gone)
        BY <1>4, <4>1 DEF BufInv
      <4> QED BY <2>3, <4>1, <4>2
    <3> QED BY <3>1, <3>2, <3>3, <3>4 DEF BufInv, BosOf
  <2>5. RefInv' /\ LiveInv' /\ DomInv'
    <3>1. \A c \in BOs : bst'[c] = "none" <=> bst[c] = "none"
      BY <1>3, <1>7 DEF HalfMade, Usable
    <3>2. \A u \in Threads : /\ pc'[u] \in {"in", "out"} <=> pc[u] \in {"in", "out"}
                             /\ pc[u] \in {"in", "out"} => myJob'[u] = myJob[u]
                             /\ pc'[u] \in Holding <=> pc[u] \in Holding
                             /\ pc[u] \in Holding => myBo'[u] = myBo[u]
      BY <1>1, <1>6 DEF Late, Making, Holding, Using
    <3> QED BY <1>1, <3>1, <3>2, NoCount
  <2> QED BY <2>2, <2>4, <2>5
<1> QED BY <1>5, <1>8

\* Steps that drop references of threads or handles, and touch no job.
LEMMA DropGood ==
    ASSUME SubInv, Good, broken = "no", NEW n \in [BOs -> Nat],
           Drop(n, 0), \A b \in BOs : n[b] <= brefs[b],
           UNCHANGED <<jst, refs, ins, outs, myJob>>, file' = file \/ file' = "released",
           file # "closed",
           file' = "released" => /\ \A u \in Threads : pc'[u] = "idle"
                                 /\ \A b \in BOs : ~handle'[b],
           \A u \in Threads : \/ pc'[u] = pc[u] /\ myBo'[u] = myBo[u]
                              \/ pc'[u] = "idle" /\ pc[u] \in Holding /\ myBo'[u] = None,
           pc' \in [Threads -> {"idle", "handle", "pages", "insert", "map", "map_nowhere",
                           "wait", "ready", "late", "fini",
                           "in", "out", "push", "attach", "put"}],
           handle' \in [BOs -> BOOLEAN],
           \A b \in BOs : handle'[b] => handle[b], RefInv'
    PROVE  Good'
<1> USE DEF Good, Strong
<1>1. /\ brefs' \in [BOs -> Nat]
      /\ bst' \in [BOs -> {"none", "new", "handled", "paged", "mapped", "adrift", "stale"}]
      /\ \A b \in BOs : /\ bst'[b] \in {bst[b], "none"}
                        /\ brefs'[b] > 0 => bst'[b] = bst[b]
                        /\ HalfMade(b) /\ bst'[b] # bst[b] => broken' # "no"
      /\ LiveInv' /\ broken' \in Broken
      /\ domRefs' = domRefs - 0 - (Cardinality(There(bst)) - Cardinality(There(bst')))
  BY DropStep
<1>2. DomInv' /\ domRefs' \in Nat
  <2>1. WithDomain(jst', pc', myJob') = WithDomain(jst, pc, myJob)
    <3>1. \A u \in Threads : pc'[u] \in {"in", "out"} <=> pc[u] \in {"in", "out"}
      BY DEF Holding, Using
    <3> QED BY <3>1, WithSame
  <2>2. Ref(file' # "closed") = 1 /\ Ref(file # "closed") = 1
    BY DEF Ref
  <2>3. domRefs = 1 + Cardinality(There(bst)) + Cardinality(WithDomain(jst, pc, myJob))
    BY <2>2 DEF DomInv
  <2>4. /\ Cardinality(There(bst)) \in Nat /\ Cardinality(There(bst')) \in Nat
        /\ Cardinality(WithDomain(jst, pc, myJob)) \in Nat
    BY ThereType, WithType
  <2>5. domRefs' = 1 + Cardinality(There(bst')) + Cardinality(WithDomain(jst, pc, myJob))
    BY <1>1, <2>3, <2>4
  <2> QED BY <2>1, <2>2, <2>4, <2>5 DEF DomInv
<1>3. MoreTypes'
  BY <1>1, <1>2 DEF MoreTypes
<1>4. \A u \in Threads : /\ pc'[u] \in Making \cup Using \cup Submitting
                              => pc'[u] = pc[u] /\ myBo'[u] = myBo[u]
                         /\ pc[u] \in Late => pc'[u] = pc[u] /\ myBo'[u] = myBo[u]
  BY DEF Making, Using, Late, Holding, Submitting
<1>5. LinkInv'
  <2>1. \A j \in Jobs : jst'[j] = "free" => ins'[j] = {} /\ outs'[j] = {}
    BY DEF LinkInv
  <2>2. \A u \in Threads : /\ pc'[u] = "in" => ins'[myJob'[u]] = {}
                           /\ pc'[u] \in {"in", "out"} => outs'[myJob'[u]] = {}
    BY <1>4 DEF LinkInv, Submitting
  <2>3. \A u \in Threads : IF pc'[u] \in Making \cup Using
                           THEN myBo'[u] \in BOs ELSE myBo'[u] = None
    BY <1>4 DEF LinkInv, Making, Using
  <2>4. \A u, v \in Threads :
          pc'[u] \in Making /\ pc'[v] \in Making /\ myBo'[u] = myBo'[v] => u = v
    BY <1>4 DEF LinkInv
  <2>5. file' # "open" => (\A u \in Threads : pc'[u] = "idle") /\ (\A b \in BOs : ~handle'[b])
    <3>1. CASE file' = "released"
      BY <3>1
    <3>2. CASE file' = file
      BY <1>4, <3>2 DEF LinkInv
    <3> QED BY <3>1, <3>2
  <2> QED BY <2>1, <2>2, <2>3, <2>4, <2>5 DEF LinkInv
<1>6. BufInv'
  <2>1. outs \in [Jobs -> SUBSET BOs] /\ ins \in [Jobs -> SUBSET BOs]
    BY DEF SubInv, SubTypes, MoreTypes
  <2> QED BY <1>1, <1>4, <1>5, <2>1, DropBuf
<1> QED BY <1>1, <1>2, <1>3, <1>5, <1>6

LEMMA OneFact ==
    ASSUME NEW c \in BOs
    PROVE  One(c) \in [BOs -> Nat] /\ \A b \in BOs : One(c)[b] = Ref(b = c)
  BY DEF One, Ref

LEMMA CreateHandleGood ==
    ASSUME SubInv, Good, broken = "no", NEW t \in Threads, CreateHandle(t)
    PROVE  Good'
<1> USE DEF Good, Strong
<1> DEFINE b == myBo[t]
<1>1. pc[t] = "handle" /\ UNCHANGED <<file, jst, refs, ins, outs, fenced, myJob, owed>>
  BY DEF CreateHandle, Go, Return, jobVars
<1>2. myBo \in [Threads -> BOs \cup {None}] /\ outs \in [Jobs -> SUBSET BOs]
  BY DEF SubInv, SubTypes
<1>3. /\ b \in BOs /\ file = "open" /\ bst[b] = "new" /\ ~handle[b]
      /\ \A u \in Threads \ {t} : pc[u] \in Making \cup Using => myBo[u] # b
      /\ \A j \in Jobs : b \notin BosOf(j)
  BY <1>1, CreatingFacts DEF Making, Using
<1>4. brefs[b] > 0 /\ brefs \in [BOs -> Nat]
  BY <1>1, <1>3, RefdBuffer DEF Holding, MoreTypes
<1>5. \A c \in BOs : HeldBy(pc, myBo, t, c) = Ref(c = b)
  BY <1>1 DEF HeldBy, Ref, Holding
<1> HIDE DEF b
<1>6. CASE /\ pc' = [pc EXCEPT ![t] = "pages"] /\ myBo' = myBo
           /\ handle' = [handle EXCEPT ![b] = TRUE] /\ bst' = [bst EXCEPT ![b] = "handled"]
           /\ UNCHANGED <<domRefs, brefs, broken>>
  <2>1. MoreTypes'
    BY <1>1, <1>3, <1>6 DEF MoreTypes
  <2>2. /\ \A u \in Threads \ {t} : pc'[u] = pc[u] /\ myBo'[u] = myBo[u]
        /\ pc'[t] = "pages" /\ bst'[b] = "handled" /\ handle'[b] /\ myBo[t] = b
        /\ \A c \in BOs \ {b} : bst'[c] = bst[c] /\ handle'[c] = handle[c]
    BY <1>3, <1>6 DEF MoreTypes, b
  <2>3. LinkInv'
    BY <1>1, <1>3, <1>6, <2>2 DEF LinkInv, Making, Using
  <2>4. ASSUME NEW c \in BOs
        PROVE  brefs'[c] = brefs[c] - Ref(handle[c]) + Ref(handle'[c])
                           - HeldBy(pc, myBo, t, c) + HeldBy(pc', myBo', t, c)
    <3>1. HeldBy(pc', myBo', t, c) = 0
      BY <2>2 DEF HeldBy, Ref, Holding, Using
    <3>2. Ref(handle'[c]) = Ref(handle[c]) + Ref(c = b)
      BY <1>3, <2>2 DEF Ref
    <3>3. Ref(handle[c]) \in Nat /\ Ref(c = b) \in Nat /\ brefs[c] \in Nat /\ brefs' = brefs
      BY <1>4, <1>6 DEF Ref
    <3> QED BY <1>5, <3>1, <3>2, <3>3
  <2>5. RefInv'
    BY <1>1, <1>4, <2>2, <2>4, RefThread
  <2>6. LiveInv'
    BY <1>3, <1>6, <2>2 DEF LiveInv
  <2>7. DomInv'
    <3>1. There(bst') = There(bst)
      BY <1>3, <2>2 DEF There
    <3>2. WithDomain(jst', pc', myJob') = WithDomain(jst, pc, myJob)
      BY <1>1, <2>2, WithSame
    <3> QED BY <1>1, <1>6, <3>1, <3>2 DEF DomInv
  <2>8. BufInv'
    <3>1. ASSUME NEW u \in Threads PROVE ThreadBuf(u)'
      <4>1. CASE u = t
        BY <1>6, <2>2, <4>1 DEF ThreadBuf, Using, HalfMade
      <4>2. CASE u # t /\ pc[u] \in Making \cup Using
        <5>1. myBo[u] \in BOs /\ myBo[u] # b
          BY <1>3, <4>2 DEF LinkInv
        <5> QED BY <1>6, <2>2, <4>2, <5>1 DEF BufInv, ThreadBuf, Known, Usable, HalfMade
      <4>3. CASE u # t /\ pc[u] \notin Making \cup Using
        BY <2>2, <4>3 DEF ThreadBuf, Making, Late
      <4> QED BY <4>1, <4>2, <4>3
    <3>2. ASSUME NEW c \in BOs, HalfMade(c)'
          PROVE  \E u \in Threads : pc'[u] \in Late /\ myBo'[u] = c
      <4>1. CASE c = b
        BY <1>6, <2>2, <4>1 DEF Late, Making
      <4>2. CASE c # b
        <5>1. HalfMade(c)
          BY <2>2, <3>2, <4>2 DEF HalfMade
        <5>2. PICK u \in Threads : pc[u] \in Late /\ myBo[u] = c
          BY <5>1 DEF BufInv
        <5>3. u # t
          BY <1>1, <5>2 DEF Late
        <5> QED BY <2>2, <5>2, <5>3
      <4> QED BY <4>1, <4>2
    <3>3. \A c \in BOs : handle'[c] => bst'[c] \notin {"none", "new"}
      BY <2>2 DEF BufInv
    <3>4. ASSUME NEW j \in Jobs, NEW c \in ins'[j] \cup outs'[j] PROVE Known(c)'
      <4>1. c \in BosOf(j) /\ c \in BOs
        BY <1>1, <1>2, <3>4 DEF BosOf, MoreTypes
      <4> QED BY <1>3, <2>2, <4>1 DEF BufInv, Known, Usable, HalfMade
    <3> QED BY <3>1, <3>2, <3>3, <3>4 DEF BufInv, BosOf
  <2> QED BY <2>1, <2>3, <2>5, <2>6, <2>7, <2>8
<1>7. CASE /\ pc' = [pc EXCEPT ![t] = "idle"] /\ myBo' = [myBo EXCEPT ![t] = None]
           /\ Drop(One(b), 0) /\ handle' = handle
  <2>1. /\ pc'[t] = "idle" /\ myBo'[t] = None
        /\ \A u \in Threads \ {t} : pc'[u] = pc[u] /\ myBo'[u] = myBo[u]
    BY <1>2, <1>7 DEF MoreTypes
  <2>2. One(b) \in [BOs -> Nat] /\ \A c \in BOs : One(b)[c] = Ref(c = b)
    BY <1>3, OneFact
  <2>3. \A c \in BOs : One(b)[c] <= brefs[c]
    BY <1>4, <2>2 DEF Ref
  <2>4. \A c \in BOs : brefs'[c] = brefs[c] - Ref(c = b)
    BY <1>7, <2>2, <2>3, DropStep
  <2>5. ASSUME NEW c \in BOs
        PROVE  brefs'[c] = brefs[c] - Ref(handle[c]) + Ref(handle'[c])
                           - HeldBy(pc, myBo, t, c) + HeldBy(pc', myBo', t, c)
    <3>1. HeldBy(pc', myBo', t, c) = 0
      BY <2>1 DEF HeldBy, Ref, Holding, Using
    <3>2. Ref(handle[c]) \in Nat /\ Ref(c = b) \in Nat /\ brefs[c] \in Nat /\ handle' = handle
      BY <1>4, <1>7 DEF Ref
    <3> QED BY <1>5, <2>4, <3>1, <3>2
  <2>6. RefInv'
    BY <1>1, <1>4, <2>1, <2>5, RefThread
  <2>7. pc' \in [Threads -> {"idle", "handle", "pages", "insert", "map", "map_nowhere",
                           "wait", "ready", "late", "fini",
                           "in", "out", "push", "attach", "put"}]
    BY <1>7 DEF MoreTypes
  <2>8. \A c \in BOs : handle'[c] => handle[c]
    BY <1>7
  <2>9. handle' \in [BOs -> BOOLEAN] /\ pc[t] \in Holding
    BY <1>1, <1>7 DEF MoreTypes, Holding
  <2> QED BY <1>1, <1>3, <1>7, <2>1, <2>2, <2>3, <2>6, <2>7, <2>8, <2>9, DropGood
<1> QED BY <1>6, <1>7 DEF CreateHandle, Go, Return, b

\* Handles only: the counts follow.
LEMMA RefHandles ==
    ASSUME RefInv, UNCHANGED <<ins, outs, pc, myBo>>, brefs \in [BOs -> Nat],
           \A b \in BOs : brefs'[b] = brefs[b] - Ref(handle[b]) + Ref(handle'[b])
    PROVE  RefInv'
<1> SUFFICES ASSUME NEW b \in BOs
             PROVE  brefs'[b] = RefSum(handle', ins', outs', pc', myBo', b)
  BY DEF RefInv
<1>1. /\ CountOf(ins, b) \in Nat /\ CountOf(outs, b) \in Nat /\ HeldCount(pc, myBo, b) \in Nat
      /\ Ref(handle[b]) \in Nat /\ Ref(handle'[b]) \in Nat
  BY CountType, HeldType DEF Ref
<1>2. brefs[b] = Ref(handle[b]) + CountOf(ins, b) + CountOf(outs, b) + HeldCount(pc, myBo, b)
  BY DEF RefInv, RefSum
<1>3. RefSum(handle', ins', outs', pc', myBo', b)
        = Ref(handle'[b]) + CountOf(ins, b) + CountOf(outs, b) + HeldCount(pc, myBo, b)
  BY DEF RefSum
<1> QED BY <1>1, <1>2, <1>3

LEMMA CloseHandleGood ==
    ASSUME SubInv, Good, NEW t \in Threads, NEW b \in BOs, CloseHandle(t, b), broken = "no"
    PROVE  Good'
<1> USE DEF Good, Strong
<1>1. /\ file = "open" /\ handle[b] /\ handle' = [handle EXCEPT ![b] = FALSE]
      /\ Drop(One(b), 0)
      /\ UNCHANGED <<file, jst, refs, ins, outs, fenced, myJob, pc, myBo>>
  BY DEF CloseHandle, Found, jobVars, threadVars
<1>2. One(b) \in [BOs -> Nat] /\ \A c \in BOs : One(b)[c] = Ref(c = b)
  BY OneFact
<1>3. brefs \in [BOs -> Nat] /\ brefs[b] > 0
  BY <1>1, RefdBuffer DEF MoreTypes
<1>4. \A c \in BOs : One(b)[c] <= brefs[c]
  BY <1>2, <1>3 DEF Ref
<1>5. \A c \in BOs : brefs'[c] = brefs[c] - Ref(c = b)
  BY <1>1, <1>2, <1>4, DropStep
<1>6. \A c \in BOs : handle'[c] = (handle[c] /\ c # b)
  BY <1>1 DEF MoreTypes
<1>7. RefInv'
  <2>1. ASSUME NEW c \in BOs
        PROVE  brefs'[c] = brefs[c] - Ref(handle[c]) + Ref(handle'[c])
    <3>1. brefs[c] \in Nat /\ brefs'[c] = brefs[c] - Ref(c = b)
      BY <1>3, <1>5
    <3>2. handle[b] /\ ~handle'[b] /\ (c # b => handle'[c] = handle[c])
      BY <1>1, <1>6 DEF MoreTypes
    <3>3. CASE c = b
      BY <3>1, <3>2, <3>3 DEF Ref
    <3>4. CASE c # b
      <4>1. Ref(c = b) = 0 /\ handle'[c] = handle[c] /\ Ref(handle[c]) \in Nat
        BY <3>2, <3>4 DEF Ref
      <4> QED BY <3>1, <4>1
    <3> QED BY <3>3, <3>4
  <2> QED BY <1>1, <1>3, <2>1, RefHandles
<1>8. handle' \in [BOs -> BOOLEAN]
  BY <1>1 DEF MoreTypes
<1>9. \A c \in BOs : handle'[c] => handle[c]
  BY <1>6
<1>10. pc' \in [Threads -> {"idle", "handle", "pages", "insert", "map", "map_nowhere",
                           "wait", "ready", "late", "fini",
                           "in", "out", "push", "attach", "put"}]
  BY <1>1 DEF MoreTypes
<1>11. file # "closed" /\ file' = file /\ file' # "released"
  BY <1>1
<1>12. \A u \in Threads : pc'[u] = pc[u] /\ myBo'[u] = myBo[u]
  BY <1>1
<1> QED BY <1>1, <1>2, <1>4, <1>7, <1>8, <1>9, <1>10, <1>11, <1>12, DropGood

LEMMA ReleaseGood ==
    ASSUME SubInv, Good, broken = "no", Release, \A b \in BOs : bst[b] # "stale"
    PROVE  Good'
<1> USE DEF Good, Strong
<1> DEFINE n == [b \in BOs |-> Ref(handle[b])]
<1>1. /\ file = "open" /\ (\A t \in Threads : pc[t] = "idle") /\ file' = "released"
      /\ handle' = [b \in BOs |-> FALSE] /\ Drop(n, 0)
      /\ UNCHANGED <<jst, refs, ins, outs, fenced, myJob, pc, myBo>>
  BY DEF Release, jobVars, threadVars
<1>2. n \in [BOs -> Nat] /\ \A b \in BOs : n[b] = Ref(handle[b])
  BY DEF Ref
<1> HIDE DEF n
<1>3. brefs \in [BOs -> Nat] /\ \A b \in BOs : handle[b] => brefs[b] > 0
  BY RefdBuffer DEF MoreTypes
<1>4. \A b \in BOs : n[b] <= brefs[b]
  BY <1>2, <1>3 DEF Ref
<1>5. \A b \in BOs : brefs'[b] = brefs[b] - Ref(handle[b])
  BY <1>1, <1>2, <1>4, DropStep
<1>6. RefInv'
  <2>1. \A c \in BOs : brefs'[c] = brefs[c] - Ref(handle[c]) + Ref(handle'[c])
    BY <1>1, <1>3, <1>5 DEF Ref
  <2> QED BY <1>1, <1>3, <2>1, RefHandles
<1>7. handle' \in [BOs -> BOOLEAN] /\ \A b \in BOs : ~handle'[b]
  BY <1>1
<1>8. \A b \in BOs : handle'[b] => handle[b]
  BY <1>7
<1>9. pc' \in [Threads -> {"idle", "handle", "pages", "insert", "map", "map_nowhere",
                           "wait", "ready", "late", "fini",
                           "in", "out", "push", "attach", "put"}]
  BY <1>1 DEF MoreTypes
<1>10. file # "closed" /\ \A u \in Threads : pc'[u] = "idle" /\ pc'[u] = pc[u] /\ myBo'[u] = myBo[u]
  BY <1>1
<1> QED BY <1>1, <1>2, <1>4, <1>6, <1>7, <1>8, <1>9, <1>10, DropGood

\* prep_bo and fini_bo hold a reference to their buffer ...
LEMMA LookUpOneGood ==
    ASSUME SubInv, Good, NEW t \in Threads, NEW b \in BOs, NEW to \in {"wait", "fini"},
           Enter(t, to, b), LookUp(One(b)),
           UNCHANGED <<file, domRefs, bst, handle, jst, refs, ins, outs, myJob, broken>>
    PROVE  Good'
<1> USE DEF Good, Strong
<1>1. /\ file = "open" /\ pc[t] = "idle" /\ pc' = [pc EXCEPT ![t] = to]
      /\ myBo' = [myBo EXCEPT ![t] = b]
  BY DEF Enter
<1>2. myBo \in [Threads -> BOs \cup {None}] /\ outs \in [Jobs -> SUBSET BOs]
  BY DEF SubInv, SubTypes
<1>3. /\ pc'[t] = to /\ myBo'[t] = b
      /\ \A u \in Threads \ {t} : pc'[u] = pc[u] /\ myBo'[u] = myBo[u]
  BY <1>1, <1>2 DEF MoreTypes
<1>4. One(b) \in [BOs -> Nat] /\ \A c \in BOs : One(b)[c] = Ref(c = b)
  BY OneFact
<1>5. brefs' = [c \in BOs |-> brefs[c] + One(b)[c]] /\ handle[b] /\ Known(b)
  BY <1>4 DEF LookUp, Found, Known, Ref
<1>6. brefs' \in [BOs -> Nat] /\ \A c \in BOs : brefs'[c] = brefs[c] + Ref(c = b)
  BY <1>4, <1>5 DEF MoreTypes
<1>7. MoreTypes'
  BY <1>1, <1>6 DEF MoreTypes
<1>8. LinkInv'
  BY <1>1, <1>3 DEF LinkInv, Making, Using
<1>9. BufInv'
  <2>1. \A u \in Threads : /\ pc'[u] \in Making <=> pc[u] \in Making
                           /\ pc'[u] \in Making => pc'[u] = pc[u] /\ myBo'[u] = myBo[u]
                           /\ pc'[u] \in Using => \/ pc[u] \in Using /\ myBo'[u] = myBo[u]
                                                  \/ Known(myBo'[u])
    BY <1>1, <1>3, <1>5 DEF Making
  <2>2. \A k \in Jobs : \A c \in ins'[k] \cup outs'[k] : c \in BosOf(k)
    BY DEF BosOf
  <2> QED BY <2>1, <2>2, SameBuf
<1>10. RefInv'
  <2>1. ASSUME NEW c \in BOs
        PROVE  brefs'[c] = brefs[c] - Ref(handle[c]) + Ref(handle'[c])
                           - HeldBy(pc, myBo, t, c) + HeldBy(pc', myBo', t, c)
    <3>1. HeldBy(pc, myBo, t, c) = 0
      BY <1>1 DEF Ref, HeldBy, Holding, Using
    <3>2. HeldBy(pc', myBo', t, c) = Ref(c = b)
      BY <1>3 DEF Ref, HeldBy, Holding, Using
    <3>3. Ref(handle[c]) \in Nat /\ handle' = handle /\ brefs[c] \in Nat /\ Ref(c = b) \in Nat
      BY DEF Ref, MoreTypes
    <3> QED BY <1>6, <3>1, <3>2, <3>3
  <2>2. brefs \in [BOs -> Nat]
    BY DEF MoreTypes
  <2> QED BY <1>3, <2>1, <2>2, RefThread
<1>11. LiveInv'
  <2>1. brefs[b] > 0
    BY <1>5, RefdBuffer
  <2> QED BY <1>6, <2>1 DEF LiveInv, Ref, MoreTypes
<1>12. DomInv'
  <2>1. WithDomain(jst', pc', myJob') = WithDomain(jst, pc, myJob)
    BY <1>1, <1>3, WithSame
  <2> QED BY <2>1 DEF DomInv
<1> QED BY <1>7, <1>8, <1>9, <1>10, <1>11, <1>12

\* ... until they return.
LEMMA PrepWaitGood ==
    ASSUME SubInv, Good, NEW t \in Threads, PrepWait(t)
    PROVE  Good'
<1> USE DEF Good, Strong
<1>1. /\ pc[t] = "wait" /\ (\E to \in {"ready", "late"} : pc' = [pc EXCEPT ![t] = to])
      /\ UNCHANGED <<file, domRefs, bst, brefs, handle, jst, refs, ins, outs, fenced, myJob,
                     myBo, owed, broken>>
  BY DEF PrepWait, Go, boVars, jobVars
<1>2. /\ pc'[t] \in {"ready", "late"}
      /\ \A u \in Threads \ {t} : pc'[u] = pc[u]
  BY <1>1 DEF MoreTypes
<1>3. MoreTypes'
  BY <1>1 DEF MoreTypes
<1>4. LinkInv'
  BY <1>1, <1>2 DEF LinkInv, Making, Using
<1>5. BufInv'
  <2>1. \A u \in Threads : /\ pc'[u] \in Making <=> pc[u] \in Making
                           /\ pc'[u] \in Making => pc'[u] = pc[u] /\ myBo'[u] = myBo[u]
                           /\ pc'[u] \in Using => pc[u] \in Using /\ myBo'[u] = myBo[u]
    BY <1>1, <1>2 DEF Making, Using
  <2>2. \A k \in Jobs : \A c \in ins'[k] \cup outs'[k] : c \in BosOf(k)
    BY <1>1 DEF BosOf
  <2> QED BY <1>1, <2>1, <2>2, SameBuf
<1>6. RefInv' /\ LiveInv' /\ DomInv'
  <2>1. \A u \in Threads : /\ pc'[u] \in {"in", "out"} <=> pc[u] \in {"in", "out"}
                           /\ pc'[u] \in Holding <=> pc[u] \in Holding
    BY <1>1, <1>2 DEF Holding, Using
  <2> QED BY <1>1, <2>1, NoCount
<1> QED BY <1>3, <1>4, <1>5, <1>6

LEMMA PutLookupGood ==
    ASSUME SubInv, Good, broken = "no", NEW t \in Threads, PutLookup(t)
    PROVE  Good'
<1> USE DEF Good, Strong
<1> DEFINE b == myBo[t]
<1>1. /\ pc[t] \in {"ready", "late", "fini"} /\ pc' = [pc EXCEPT ![t] = "idle"]
      /\ myBo' = [myBo EXCEPT ![t] = None] /\ Drop(One(b), 0)
      /\ UNCHANGED <<file, handle, jst, refs, ins, outs, fenced, myJob>>
  BY DEF PutLookup, Return, jobVars
<1>2. myBo \in [Threads -> BOs \cup {None}]
  BY DEF SubInv, SubTypes
<1>3. b \in BOs /\ file = "open" /\ pc[t] \in Holding
  BY <1>1 DEF LinkInv, Using, Holding
<1>4. brefs[b] > 0 /\ brefs \in [BOs -> Nat]
  BY <1>3, RefdBuffer DEF MoreTypes
<1>5. \A c \in BOs : HeldBy(pc, myBo, t, c) = Ref(c = b)
  BY <1>3 DEF HeldBy, Ref
<1> HIDE DEF b
<1>6. /\ pc'[t] = "idle" /\ myBo'[t] = None
      /\ \A u \in Threads \ {t} : pc'[u] = pc[u] /\ myBo'[u] = myBo[u]
  BY <1>1, <1>2 DEF MoreTypes
<1>7. One(b) \in [BOs -> Nat] /\ \A c \in BOs : One(b)[c] = Ref(c = b)
  BY <1>3, OneFact
<1>8. \A c \in BOs : One(b)[c] <= brefs[c]
  BY <1>4, <1>7 DEF Ref
<1>9. \A c \in BOs : brefs'[c] = brefs[c] - Ref(c = b)
  BY <1>1, <1>7, <1>8, DropStep
<1>10. ASSUME NEW c \in BOs
       PROVE  brefs'[c] = brefs[c] - Ref(handle[c]) + Ref(handle'[c])
                          - HeldBy(pc, myBo, t, c) + HeldBy(pc', myBo', t, c)
  <2>1. HeldBy(pc', myBo', t, c) = 0
    BY <1>6 DEF HeldBy, Ref, Holding, Using
  <2>2. Ref(handle[c]) \in Nat /\ Ref(c = b) \in Nat /\ brefs[c] \in Nat /\ handle' = handle
    BY <1>1, <1>4 DEF Ref
  <2> QED BY <1>5, <1>9, <2>1, <2>2
<1>11. RefInv'
  BY <1>1, <1>4, <1>6, <1>10, RefThread
<1>12. pc' \in [Threads -> {"idle", "handle", "pages", "insert", "map", "map_nowhere",
                           "wait", "ready", "late", "fini",
                           "in", "out", "push", "attach", "put"}]
  BY <1>1 DEF MoreTypes
<1>13. \A c \in BOs : handle'[c] => handle[c]
  BY <1>1
<1>14. handle' \in [BOs -> BOOLEAN]
  BY <1>1 DEF MoreTypes
<1>15. file # "closed" /\ file' = file /\ file' # "released"
  BY <1>1, <1>3
<1>16. \A u \in Threads : \/ pc'[u] = pc[u] /\ myBo'[u] = myBo[u]
                          \/ pc'[u] = "idle" /\ pc[u] \in Holding /\ myBo'[u] = None
  BY <1>3, <1>6
<1> QED BY <1>1, <1>7, <1>8, <1>11, <1>12, <1>13, <1>14, <1>15, <1>16, DropGood

----------------------------------------------------------------------------
(* The file.                                                               *)

LEMMA OpenGood ==
    ASSUME SubInv, Good, Open
    PROVE  Good'
<1> USE DEF Good, Strong
<1>1. /\ file = "closed" /\ file' = "open" /\ domRefs' = 1
      /\ (\A t \in Threads : pc[t] = "idle") /\ (\A j \in Jobs : jst[j] = "free")
      /\ \A b \in BOs : bst[b] = "none"
      /\ UNCHANGED <<bst, brefs, handle, jst, refs, ins, outs, fenced, pc, myJob, myBo, owed,
                     broken>>
  BY DEF Open, DomainCreate, Quiet, boVars, jobVars, threadVars
<1>2. MoreTypes' /\ LinkInv' /\ LiveInv'
  BY <1>1 DEF MoreTypes, LinkInv, LiveInv
<1>3. RefInv'
  BY <1>1 DEF RefInv
<1>4. DomInv'
  <2>1. There(bst') = {} /\ WithDomain(jst', pc', myJob') = {}
    BY <1>1 DEF There, WithDomain
  <2>2. Cardinality(There(bst')) = 0 /\ Cardinality(WithDomain(jst', pc', myJob')) = 0
    BY <2>1, FS_EmptySet
  <2> QED BY <1>1, <2>2 DEF DomInv, Ref
<1>5. BufInv'
  <2>1. \A k \in Jobs : \A c \in ins'[k] \cup outs'[k] : c \in BosOf(k)
    BY <1>1 DEF BosOf
  <2> QED BY <1>1, <2>1, SameBuf
<1> QED BY <1>2, <1>3, <1>4, <1>5

LEMMA PostCloseGood ==
    ASSUME SubInv, Good, PostClose
    PROVE  Good'
<1> USE DEF Good, Strong
<1>1. /\ file = "released" /\ file' = "closed" /\ domRefs' = domRefs - 1
      /\ \A j \in Jobs : jst'[j] = "free" <=> jst[j] = "free"
      /\ UNCHANGED <<bst, brefs, handle, refs, ins, outs, fenced, pc, myJob, myBo, owed, broken>>
  BY DEF PostClose, DomainPut, boVars, threadVars
<1>2. DomInv' /\ domRefs' \in Nat
  <2>1. WithDomain(jst', pc', myJob') = WithDomain(jst, pc, myJob)
    BY <1>1, WithSame
  <2>2. domRefs = 1 + Cardinality(There(bst)) + Cardinality(WithDomain(jst, pc, myJob))
    BY <1>1 DEF DomInv, Ref
  <2>3. Ref(file' # "closed") = 0
    BY <1>1 DEF Ref
  <2> QED BY <1>1, <2>1, <2>2, <2>3, ThereType, WithType DEF DomInv
<1>3. MoreTypes'
  BY <1>1, <1>2 DEF MoreTypes
<1>4. LinkInv' /\ BufInv'
  <2>1. \A k \in Jobs : \A c \in ins'[k] \cup outs'[k] : c \in BosOf(k)
    BY <1>1 DEF BosOf
  <2>2. BufInv'
    BY <1>1, <2>1, SameBuf
  <2> QED BY <1>1, <2>2 DEF LinkInv
<1>5. RefInv' /\ LiveInv'
  BY <1>1 DEF RefInv, LiveInv
<1> QED BY <1>2, <1>3, <1>4, <1>5

----------------------------------------------------------------------------
(* The steps of a job's life.                                              *)

LEMMA SubmitBeginGood ==
    ASSUME SubInv, Good, NEW t \in Threads, NEW j \in Jobs, SubmitBegin(t, j)
    PROVE  Good'
<1> USE DEF Good, Strong
<1>1. /\ jst[j] = "free" /\ file = "open" /\ pc[t] = "idle"
      /\ pc' = [pc EXCEPT ![t] = "in"] /\ myBo' = [myBo EXCEPT ![t] = None]
      /\ jst' = [jst EXCEPT ![j] = "init"] /\ myJob' = [myJob EXCEPT ![t] = j]
      /\ UNCHANGED <<file, domRefs, bst, brefs, handle, ins, outs, fenced, broken>>
  BY DEF SubmitBegin, Enter, boVars
<1>2. /\ myBo \in [Threads -> BOs \cup {None}] /\ DOMAIN jst = Jobs
      /\ myJob \in [Threads -> Jobs \cup {None}]
  BY DEF SubInv, SubTypes
<1>3. /\ pc'[t] = "in" /\ myJob'[t] = j
      /\ \A u \in Threads \ {t} : pc'[u] = pc[u] /\ myBo'[u] = myBo[u] /\ myJob'[u] = myJob[u]
      /\ jst'[j] = "init" /\ \A k \in Jobs \ {j} : jst'[k] = jst[k]
  BY <1>1, <1>2 DEF MoreTypes
<1>4. MoreTypes'
  BY <1>1 DEF MoreTypes
<1>5. LinkInv'
  BY <1>1, <1>3 DEF LinkInv, Making, Using
<1>6. \A u \in Threads : /\ pc'[u] \in Making \cup Using <=> pc[u] \in Making \cup Using
                         /\ pc'[u] \in Making \cup Using
                              => pc'[u] = pc[u] /\ myBo'[u] = myBo[u]
  BY <1>1, <1>3 DEF Making, Using
<1>7. BufInv'
  <2>1. \A k \in Jobs : \A c \in ins'[k] \cup outs'[k] : c \in BosOf(k)
    BY <1>1 DEF BosOf
  <2>2. \A u \in Threads : pc'[u] \in Making <=> pc[u] \in Making
    BY <1>1, <1>3 DEF Making
  <2> QED BY <1>1, <1>6, <2>1, <2>2, SameBuf DEF Making, Using
<1>8. RefInv'
  <2>1. ins \in [Jobs -> SUBSET BOs] /\ outs \in [Jobs -> SUBSET BOs] /\ brefs \in [BOs -> Nat]
    BY DEF SubInv, SubTypes, MoreTypes
  <2>2. \A u \in Threads : /\ pc'[u] \in Holding <=> pc[u] \in Holding
                           /\ pc[u] \in Holding => myBo'[u] = myBo[u]
    BY <1>1, <1>3 DEF Holding, Using
  <2>3. ins' = ins /\ outs' = outs /\ handle' = handle
    BY <1>1
  <2>4. \A b \in BOs : brefs[b] \in Nat /\
               brefs'[b] = brefs[b] - Ref(b \in ins[j]) - Ref(b \in outs[j])
                           + Ref(b \in ins'[j]) + Ref(b \in outs'[j])
    <3>1. \A b \in BOs : /\ brefs[b] \in Nat /\ brefs'[b] = brefs[b]
                        /\ Ref(b \in ins[j]) \in Nat /\ Ref(b \in outs[j]) \in Nat
      BY <1>1, <2>1 DEF Ref
    <3> QED BY <2>3, <3>1
  <2> QED BY <2>1, <2>2, <2>3, <2>4, RefJob
<1>9. LiveInv'
  BY <1>1 DEF LiveInv
<1>10. DomInv'
  <2>1. WithDomain(jst', pc', myJob') = WithDomain(jst, pc, myJob)
    BY <1>1, <1>3 DEF WithDomain
  <2> QED BY <1>1, <2>1 DEF DomInv
<1> QED BY <1>4, <1>5, <1>7, <1>8, <1>9, <1>10

LEMMA SubmitterFacts ==
    ASSUME SubInv, NEW t \in Threads, pc[t] \in {"in", "out", "push"}
    PROVE  /\ myJob[t] \in Jobs /\ jst[myJob[t]] = "init"
           /\ \A u \in Threads \ {t} : myJob[u] # myJob[t]
  BY SetsAssumption DEF SubInv, SubTypes, OwnInv, StageInv, Submitting

\* A submitter looks up the buffers its job reads, or those it writes.
LEMMA LookUpSet ==
    ASSUME SubInv, Good, NEW t \in Threads, NEW S \in SUBSET BOs, NEW j \in Jobs, j = myJob[t],
           LookUp([b \in BOs |-> Ref(b \in S)]),
           \/ /\ pc[t] = "in" /\ pc' = [pc EXCEPT ![t] = "out"]
              /\ ins' = [ins EXCEPT ![j] = S] /\ outs' = outs
           \/ /\ pc[t] = "out" /\ pc' = [pc EXCEPT ![t] = "push"]
              /\ outs' = [outs EXCEPT ![j] = S] /\ ins' = ins,
           domRefs' \in Nat,
           UNCHANGED <<file, bst, handle, jst, myJob, myBo, broken>>
    PROVE  MoreTypes' /\ LinkInv' /\ BufInv' /\ RefInv' /\ LiveInv'
<1> USE DEF Good, Strong
<1> DEFINE n == [b \in BOs |-> Ref(b \in S)]
<1>1. n \in [BOs -> Nat] /\ \A b \in BOs : n[b] = Ref(b \in S)
  BY DEF Ref
<1>2. /\ \A b \in S : handle[b] /\ Known(b)
      /\ brefs' = [b \in BOs |-> brefs[b] + n[b]]
  BY <1>1 DEF LookUp, Found, Known, Ref
<1> HIDE DEF n
<1>3. /\ brefs \in [BOs -> Nat] /\ brefs' \in [BOs -> Nat]
      /\ \A b \in BOs : brefs'[b] = brefs[b] + Ref(b \in S)
  BY <1>1, <1>2 DEF MoreTypes
<1>4. ins \in [Jobs -> SUBSET BOs] /\ outs \in [Jobs -> SUBSET BOs]
  BY DEF SubInv, SubTypes, MoreTypes
<1>5. jst[j] = "init" /\ \A u \in Threads \ {t} : myJob[u] # j
  BY SubmitterFacts
<1>6. /\ pc'[t] \in {"out", "push"} /\ (pc'[t] = "out" => outs' = outs /\ pc[t] = "in")
      /\ \A u \in Threads \ {t} : pc'[u] = pc[u]
      /\ \A k \in Jobs \ {j} : ins'[k] = ins[k] /\ outs'[k] = outs[k]
  BY <1>4 DEF MoreTypes
<1>7. MoreTypes'
  BY <1>3, <1>4 DEF MoreTypes
<1>8. LinkInv'
  <2>1. \A k \in Jobs : jst'[k] = "free" => ins'[k] = {} /\ outs'[k] = {}
    BY <1>5, <1>6 DEF LinkInv
  <2>2. \A u \in Threads : /\ pc'[u] = "in" => ins'[myJob'[u]] = {}
                           /\ pc'[u] \in {"in", "out"} => outs'[myJob'[u]] = {}
    <3>1. ASSUME NEW u \in Threads, u # t, pc'[u] \in {"in", "out"}
          PROVE  myJob[u] \in Jobs \ {j}
      BY <1>5, <1>6, <3>1, SubmitterFacts
    <3>2. ASSUME NEW u \in Threads, u # t
          PROVE  /\ pc'[u] = "in" => ins'[myJob'[u]] = {}
                 /\ pc'[u] \in {"in", "out"} => outs'[myJob'[u]] = {}
      BY <1>6, <3>1, <3>2 DEF LinkInv
    <3>3. pc'[t] # "in" /\ (pc'[t] \in {"in", "out"} => outs'[myJob'[t]] = {})
      BY <1>6 DEF LinkInv
    <3> QED BY <3>2, <3>3
  <2>3. \A u \in Threads : /\ pc'[u] \in Making \cup Using <=> pc[u] \in Making \cup Using
                           /\ pc'[u] \in Making \cup Using => pc'[u] = pc[u]
                           /\ myBo'[u] = myBo[u]
    BY <1>6 DEF Making, Using
  <2>4. file = "open"
    BY DEF LinkInv, MoreTypes
  <2> QED BY <2>1, <2>2, <2>3, <2>4 DEF LinkInv
<1>9. BufInv'
  <2>1. \A u \in Threads : /\ pc'[u] \in Making <=> pc[u] \in Making
                           /\ pc'[u] \in Using <=> pc[u] \in Using
                           /\ pc'[u] \in Making => pc'[u] = pc[u]
    BY <1>6 DEF Making, Using
  <2>2. \A k \in Jobs : \A b \in ins'[k] \cup outs'[k] : b \in BosOf(k) \/ Known(b)
    BY <1>2, <1>4 DEF BosOf
  <2> QED BY <2>1, <2>2, SameBuf
<1>10. RefInv'
  <2>1. \A u \in Threads : /\ pc'[u] \in Holding <=> pc[u] \in Holding
                           /\ pc[u] \in Holding => myBo'[u] = myBo[u]
    BY <1>6 DEF Holding, Using
  <2>2. ins' \in [Jobs -> SUBSET BOs] /\ outs' \in [Jobs -> SUBSET BOs]
    BY <1>4
  <2>3. \/ ins[j] = {} /\ ins'[j] = S /\ outs'[j] = outs[j]
        \/ outs[j] = {} /\ outs'[j] = S /\ ins'[j] = ins[j]
    BY <1>4 DEF LinkInv
  <2>4. ASSUME NEW b \in BOs
        PROVE  brefs[b] \in Nat /\
               brefs'[b] = brefs[b] - Ref(b \in ins[j]) - Ref(b \in outs[j])
                           + Ref(b \in ins'[j]) + Ref(b \in outs'[j])
    <3>1. /\ brefs[b] \in Nat /\ brefs'[b] = brefs[b] + Ref(b \in S)
          /\ Ref(b \in ins[j]) \in Nat /\ Ref(b \in outs[j]) \in Nat /\ Ref(b \in S) \in Nat
      BY <1>3 DEF Ref
    <3>2. CASE ins[j] = {} /\ ins'[j] = S /\ outs'[j] = outs[j]
      <4>1. Ref(b \in ins[j]) = 0
        BY <3>2 DEF Ref
      <4> QED BY <3>1, <3>2, <4>1
    <3>3. CASE outs[j] = {} /\ outs'[j] = S /\ ins'[j] = ins[j]
      <4>1. Ref(b \in outs[j]) = 0
        BY <3>3 DEF Ref
      <4> QED BY <3>1, <3>3, <4>1
    <3> QED BY <2>3, <3>2, <3>3
  <2> QED BY <1>4, <1>6, <2>1, <2>2, <2>4, RefJob
<1>11. LiveInv'
  <2>1. ASSUME NEW b \in BOs PROVE brefs'[b] = 0 <=> bst'[b] = "none"
    <3>1. CASE b \in S
      <4>1. brefs[b] > 0
        BY <1>2, <3>1, RefdBuffer
      <4> QED BY <1>3, <3>1, <4>1 DEF LiveInv, Ref
    <3>2. CASE b \notin S
      BY <1>3, <3>2 DEF LiveInv, Ref
    <3> QED BY <3>1, <3>2
  <2> QED BY <2>1 DEF LiveInv
<1> QED BY <1>7, <1>8, <1>9, <1>10, <1>11

LEMMA LookUpInsGood ==
    ASSUME SubInv, Good, NEW t \in Threads, NEW S \in SUBSET BOs, LookUpIns(t, S)
    PROVE  Good'
<1> USE DEF Good, Strong
<1> DEFINE j == myJob[t]
<1>1. /\ pc[t] = "in" /\ pc' = [pc EXCEPT ![t] = "out"] /\ ins' = [ins EXCEPT ![j] = S]
      /\ LookUp([b \in BOs |-> Ref(b \in S)])
      /\ UNCHANGED <<file, domRefs, bst, handle, jst, outs, myJob, myBo, broken>>
  BY DEF LookUpIns, Go
<1>2. j \in Jobs
  BY <1>1, SubmitterFacts
<1>3. domRefs' \in Nat
  BY <1>1 DEF MoreTypes
<1>4. MoreTypes' /\ LinkInv' /\ BufInv' /\ RefInv' /\ LiveInv'
  BY <1>1, <1>2, <1>3, LookUpSet
<1>5. DomInv'
  <2>1. \A u \in Threads : pc'[u] \in {"in", "out"} <=> pc[u] \in {"in", "out"}
    BY <1>1 DEF MoreTypes
  <2>2. WithDomain(jst', pc', myJob') = WithDomain(jst, pc, myJob)
    BY <1>1, <2>1, WithSame
  <2> QED BY <1>1, <2>2 DEF DomInv
<1> QED BY <1>4, <1>5

LEMMA LookUpOutsGood ==
    ASSUME SubInv, Good, NEW t \in Threads, NEW S \in SUBSET BOs, LookUpOuts(t, S)
    PROVE  Good'
<1> USE DEF Good, Strong
<1> DEFINE j == myJob[t]
<1>1. /\ pc[t] = "out" /\ pc' = [pc EXCEPT ![t] = "push"] /\ outs' = [outs EXCEPT ![j] = S]
      /\ LookUp([b \in BOs |-> Ref(b \in S)]) /\ domRefs' = domRefs + 1
      /\ UNCHANGED <<file, bst, handle, jst, ins, myJob, myBo, broken>>
  BY DEF LookUpOuts, Go, DomainGet
<1>2. j \in Jobs /\ jst[j] = "init" /\ \A u \in Threads \ {t} : myJob[u] # j
  BY <1>1, SubmitterFacts
<1>3. domRefs' \in Nat
  BY <1>1 DEF MoreTypes
<1>4. MoreTypes' /\ LinkInv' /\ BufInv' /\ RefInv' /\ LiveInv'
  BY <1>1, <1>2, <1>3, LookUpSet
<1>5. DomInv'
  <2>1. pc'[t] = "push" /\ \A u \in Threads \ {t} : pc'[u] = pc[u]
    BY <1>1 DEF MoreTypes
  <2>2. WithDomain(jst', pc', myJob') = WithDomain(jst, pc, myJob) \cup {j}
        /\ j \notin WithDomain(jst, pc, myJob)
    BY <1>1, <1>2, <2>1 DEF WithDomain
  <2>3. Cardinality(WithDomain(jst', pc', myJob')) = Cardinality(WithDomain(jst, pc, myJob)) + 1
    BY <2>2, WithType, OneMore
  <2>4. Ref(file # "closed") \in Nat /\ Cardinality(There(bst)) \in Nat
        /\ Cardinality(WithDomain(jst, pc, myJob)) \in Nat
    BY ThereType, WithType DEF Ref
  <2> QED BY <1>1, <2>3, <2>4 DEF DomInv
<1> QED BY <1>4, <1>5

\* Pushing, running and ending a job moves no reference to anything but itself.
LEMMA JobMoveGood ==
    ASSUME SubInv, Good,
           UNCHANGED <<file, domRefs, bst, brefs, handle, ins, outs, broken>>,
           \A j \in Jobs : jst'[j] = "free" <=> jst[j] = "free",
           \A u \in Threads :
               \/ pc'[u] = pc[u] /\ myBo'[u] = myBo[u] /\ myJob'[u] = myJob[u]
               \/ /\ pc[u] \in {"push", "attach", "put"} /\ pc'[u] \in {"attach", "put", "idle"}
                  /\ myBo'[u] \in {myBo[u], None},
           pc' \in [Threads -> {"idle", "handle", "pages", "insert", "map", "map_nowhere",
                           "wait", "ready", "late", "fini",
                           "in", "out", "push", "attach", "put"}]
    PROVE  Good'
<1> USE DEF Good, Strong
<1>1. \A u \in Threads :
        /\ pc'[u] \in Making \cup Using <=> pc[u] \in Making \cup Using
        /\ pc'[u] \in Making \cup Using => pc'[u] = pc[u] /\ myBo'[u] = myBo[u]
        /\ pc'[u] \in {"in", "out"} <=> pc[u] \in {"in", "out"}
        /\ pc[u] \in {"in", "out"} => pc'[u] = pc[u] /\ myJob'[u] = myJob[u]
        /\ pc'[u] \in Holding <=> pc[u] \in Holding
        /\ pc[u] \in Holding => myBo'[u] = myBo[u]
        /\ pc[u] = "idle" => pc'[u] = "idle"
  BY DEF Making, Using, Holding
<1>2. MoreTypes'
  BY DEF MoreTypes
<1>3. LinkInv'
  BY <1>1 DEF LinkInv, Making, Using
<1>4. BufInv'
  <2>1. \A k \in Jobs : \A c \in ins'[k] \cup outs'[k] : c \in BosOf(k)
    BY DEF BosOf
  <2>2. \A u \in Threads : pc'[u] \in Making <=> pc[u] \in Making
    BY DEF Making
  <2> QED BY <1>1, <2>1, <2>2, SameBuf DEF Making, Using
<1>5. RefInv' /\ LiveInv' /\ DomInv'
  BY <1>1, NoCount
<1> QED BY <1>2, <1>3, <1>4, <1>5

\* Its last reference puts its buffers and its domain.
LEMMA CleanupGood ==
    ASSUME SubInv, Good, broken = "no", NEW j \in Jobs, Cleanup(j), UNCHANGED <<file, handle>>,
           j \in WithDomain(jst, pc, myJob),
           \A u \in Threads :
               \/ pc'[u] = pc[u] /\ myBo'[u] = myBo[u] /\ myJob'[u] = myJob[u]
               \/ pc[u] = "put" /\ pc'[u] = "idle" /\ myBo'[u] = None,
           pc' \in [Threads -> {"idle", "handle", "pages", "insert", "map", "map_nowhere",
                           "wait", "ready", "late", "fini",
                           "in", "out", "push", "attach", "put"}]
    PROVE  Good'
<1> USE DEF Good, Strong
<1> DEFINE n == [b \in BOs |-> Ref(b \in ins[j]) + Ref(b \in outs[j])]
<1>1. /\ Drop(n, 1) /\ jst' = [jst EXCEPT ![j] = "free"]
      /\ ins' = [ins EXCEPT ![j] = {}] /\ outs' = [outs EXCEPT ![j] = {}]
  BY DEF Cleanup
<1>2. n \in [BOs -> Nat] /\ \A b \in BOs : n[b] = Ref(b \in ins[j]) + Ref(b \in outs[j])
  BY DEF Ref
<1> HIDE DEF n
<1>3. /\ ins \in [Jobs -> SUBSET BOs] /\ outs \in [Jobs -> SUBSET BOs] /\ DOMAIN jst = Jobs
      /\ brefs \in [BOs -> Nat]
  BY DEF SubInv, SubTypes, MoreTypes
<1>4. \A b \in BOs : n[b] <= brefs[b]
  <2> SUFFICES ASSUME NEW b \in BOs PROVE n[b] <= brefs[b]
    OBVIOUS
  <2>1. /\ CountOf(ins, b) \in Nat /\ CountOf(outs, b) \in Nat /\ HeldCount(pc, myBo, b) \in Nat
        /\ Ref(handle[b]) \in Nat
    BY CountType, HeldType DEF Ref
  <2>2. (b \in ins[j] => CountOf(ins, b) # 0) /\ (b \in outs[j] => CountOf(outs, b) # 0)
    BY CountType
  <2>3. brefs[b] = Ref(handle[b]) + CountOf(ins, b) + CountOf(outs, b) + HeldCount(pc, myBo, b)
    BY DEF RefInv, RefSum
  <2>4. Ref(b \in ins[j]) <= CountOf(ins, b) /\ Ref(b \in outs[j]) <= CountOf(outs, b)
        /\ Ref(b \in ins[j]) \in Nat /\ Ref(b \in outs[j]) \in Nat
    BY <2>1, <2>2 DEF Ref
  <2> QED BY <1>2, <2>1, <2>3, <2>4
<1>5. /\ brefs' \in [BOs -> Nat] /\ \A b \in BOs : brefs'[b] = brefs[b] - n[b]
      /\ bst' \in [BOs -> {"none", "new", "handled", "paged", "mapped", "adrift", "stale"}]
      /\ \A b \in BOs : /\ bst'[b] \in {bst[b], "none"}
                        /\ brefs'[b] > 0 => bst'[b] = bst[b]
                        /\ HalfMade(b) /\ bst'[b] # bst[b] => broken' # "no"
      /\ LiveInv' /\ broken' \in Broken
      /\ domRefs' = domRefs - 1 - (Cardinality(There(bst)) - Cardinality(There(bst')))
  BY <1>1, <1>2, <1>4, DropStep
<1>6. \A u \in Threads :
        /\ pc'[u] \in Making \cup Using => pc'[u] = pc[u] /\ myBo'[u] = myBo[u]
        /\ pc[u] \in Late => pc'[u] = pc[u] /\ myBo'[u] = myBo[u]
        /\ pc'[u] \in {"in", "out"} <=> pc[u] \in {"in", "out"}
        /\ pc[u] \in {"in", "out"} => pc'[u] = pc[u] /\ myJob'[u] = myJob[u]
        /\ pc'[u] \in Holding <=> pc[u] \in Holding
        /\ pc[u] \in Holding => myBo'[u] = myBo[u]
        /\ pc[u] = "idle" => pc'[u] = "idle"
  BY DEF Making, Using, Holding, Late
<1>7. /\ ins' \in [Jobs -> SUBSET BOs] /\ outs' \in [Jobs -> SUBSET BOs]
      /\ ins'[j] = {} /\ outs'[j] = {} /\ jst'[j] = "free"
      /\ \A k \in Jobs \ {j} : ins'[k] = ins[k] /\ outs'[k] = outs[k] /\ jst'[k] = jst[k]
  BY <1>1, <1>3
<1>8. DomInv' /\ domRefs' \in Nat
  <2>1. WithDomain(jst', pc', myJob') = WithDomain(jst, pc, myJob) \ {j}
    BY <1>6, <1>7 DEF WithDomain
  <2>2. Cardinality(WithDomain(jst', pc', myJob')) = Cardinality(WithDomain(jst, pc, myJob)) - 1
    BY <2>1, WithType, OneLess
  <2>3. /\ Ref(file # "closed") \in Nat /\ Cardinality(There(bst)) \in Nat
        /\ Cardinality(There(bst')) \in Nat /\ Cardinality(WithDomain(jst, pc, myJob)) \in Nat
        /\ Cardinality(WithDomain(jst', pc', myJob')) \in Nat
    BY ThereType, WithType DEF Ref
  <2>4. domRefs' = Ref(file # "closed") + Cardinality(There(bst'))
                   + Cardinality(WithDomain(jst', pc', myJob'))
    BY <1>5, <2>2, <2>3 DEF DomInv
  <2> QED BY <2>3, <2>4 DEF DomInv
<1>9. MoreTypes'
  BY <1>5, <1>7, <1>8 DEF MoreTypes
<1>10. RefInv'
  <2>1. ASSUME NEW b \in BOs
        PROVE  brefs[b] \in Nat /\
               brefs'[b] = brefs[b] - Ref(b \in ins[j]) - Ref(b \in outs[j])
                           + Ref(b \in ins'[j]) + Ref(b \in outs'[j])
    <3>1. brefs'[b] = brefs[b] - (Ref(b \in ins[j]) + Ref(b \in outs[j]))
      BY <1>2, <1>5
    <3>2. /\ Ref(b \in ins'[j]) = 0 /\ Ref(b \in outs'[j]) = 0
          /\ Ref(b \in ins[j]) \in Nat /\ Ref(b \in outs[j]) \in Nat /\ brefs[b] \in Nat
      BY <1>3, <1>7 DEF Ref
    <3> QED BY <3>1, <3>2
  <2> QED BY <1>3, <1>6, <1>7, <2>1, RefJob
<1>11. LinkInv'
  <2>1. \A k \in Jobs : jst'[k] = "free" => ins'[k] = {} /\ outs'[k] = {}
    BY <1>7 DEF LinkInv
  <2>2. \A u \in Threads : /\ pc'[u] = "in" => ins'[myJob'[u]] = {}
                           /\ pc'[u] \in {"in", "out"} => outs'[myJob'[u]] = {}
    <3>1. ASSUME NEW u \in Threads, pc'[u] \in {"in", "out"}
          PROVE  myJob[u] \in Jobs /\ myJob'[u] = myJob[u] /\ pc'[u] = pc[u]
      BY <1>6, <3>1, SubmitterFacts
    <3> QED BY <1>7, <3>1 DEF LinkInv
  <2>3. \A u \in Threads : IF pc'[u] \in Making \cup Using
                           THEN myBo'[u] \in BOs ELSE myBo'[u] = None
    BY <1>6 DEF LinkInv, Making, Using
  <2> QED BY <1>6, <2>1, <2>2, <2>3 DEF LinkInv
<1>12. BufInv'
  <2>1. \A b \in BOs : handle'[b] => handle[b]
    OBVIOUS
  <2>2. \A k \in Jobs : ins'[k] \subseteq ins[k] /\ outs'[k] \subseteq outs[k]
    BY <1>7
  <2> QED BY <1>3, <1>5, <1>6, <1>10, <1>11, <2>1, <2>2, DropBuf
<1> QED BY <1>5, <1>8, <1>9, <1>10, <1>11, <1>12

LEMMA SubmitEndGood ==
    ASSUME SubInv, Good, broken = "no", NEW t \in Threads, SubmitEnd(t)
    PROVE  Good'
<1> DEFINE j == myJob[t]
<1>1. /\ pc[t] = "put" /\ pc' = [pc EXCEPT ![t] = "idle"] /\ myBo' = [myBo EXCEPT ![t] = None]
      /\ myJob' = [myJob EXCEPT ![t] = None] /\ JobPut(j, jst[j])
      /\ UNCHANGED <<file, handle, owed>>
  BY DEF SubmitEnd, Return
<1>2. /\ j \in Jobs /\ jst[j] # "free" /\ \A u \in Threads : myJob[u] = j => u = t
      /\ [jst EXCEPT ![j] = jst[j]] = jst
  <2>1. j \in Jobs
    BY <1>1 DEF SubInv, SubTypes, OwnInv, Submitting
  <2>2. [jst EXCEPT ![j] = jst[j]] = jst
    BY <2>1 DEF SubInv, SubTypes
  <2>3. jst[j] # "free"
    BY <2>1 DEF SubInv, CountInv, Mine
  <2>4. \A u \in Threads : myJob[u] = j => u = t
    BY <2>1, SetsAssumption DEF SubInv, OwnInv
  <2> QED BY <2>1, <2>2, <2>3, <2>4
<1>3. \A u \in Threads :
        \/ pc'[u] = pc[u] /\ myBo'[u] = myBo[u] /\ myJob'[u] = myJob[u]
        \/ pc[u] = "put" /\ pc'[u] = "idle" /\ myBo'[u] = None
  BY <1>1 DEF SubInv, SubTypes
<1>4. pc' \in [Threads -> {"idle", "handle", "pages", "insert", "map", "map_nowhere",
                           "wait", "ready", "late", "fini",
                           "in", "out", "push", "attach", "put"}]
  BY <1>1 DEF Good, MoreTypes
<1>5. CASE Cleanup(j)
  <2>1. j \in WithDomain(jst, pc, myJob)
    BY <1>1, <1>2 DEF WithDomain
  <2> HIDE DEF j
  <2> QED BY <1>1, <1>2, <1>3, <1>4, <1>5, <2>1, CleanupGood
<1>6. CASE ~Cleanup(j)
  <2>1. jst' = jst /\ UNCHANGED <<domRefs, bst, brefs, ins, outs, broken>>
    BY <1>1, <1>2, <1>6 DEF JobPut
  <2> QED BY <1>1, <1>3, <1>4, <2>1, JobMoveGood
<1> QED BY <1>5, <1>6

LEMMA JobFreeGood ==
    ASSUME SubInv, Good, broken = "no", NEW j \in Jobs, JobFree(j)
    PROVE  Good'
<1>1. jst[j] = "signalled" /\ JobPut(j, "dropped") /\ UNCHANGED <<file, handle, pc, myJob, myBo>>
  BY DEF JobFree, threadVars
<1>2. pc' \in [Threads -> {"idle", "handle", "pages", "insert", "map", "map_nowhere",
                           "wait", "ready", "late", "fini",
                           "in", "out", "push", "attach", "put"}]
  BY <1>1 DEF Good, MoreTypes
<1>3. CASE Cleanup(j)
  <2>1. j \in WithDomain(jst, pc, myJob)
    BY <1>1 DEF WithDomain, SubInv, StageInv
  <2> QED BY <1>1, <1>2, <1>3, <2>1, CleanupGood
<1>4. CASE ~Cleanup(j)
  <2>1. jst' = [jst EXCEPT ![j] = "dropped"] /\ UNCHANGED <<domRefs, bst, brefs, ins, outs, broken>>
    BY <1>1, <1>4 DEF JobPut
  <2>2. \A k \in Jobs : jst'[k] = "free" <=> jst[k] = "free"
    BY <1>1, <2>1 DEF SubInv, SubTypes
  <2> QED BY <1>1, <1>2, <2>1, <2>2, JobMoveGood
<1> QED BY <1>3, <1>4

\* The other steps of a submit and of the scheduler.
LEMMA JobStepGood ==
    ASSUME SubInv, Good,
           \/ \E t \in Threads : Push(t) \/ PushFails(t) \/ Attach(t)
           \/ \E j \in Jobs : Run(j) \/ Finish(j)
    PROVE  Good'
<1>1. UNCHANGED <<file, domRefs, bst, brefs, handle, ins, outs, broken, myJob, myBo>>
  BY DEF Push, PushFails, Attach, Run, Finish, Go, boVars, jobVars, threadVars
<1>2. \/ pc' = pc
      \/ \E t \in Threads, to \in {"attach", "put"} :
            pc' = [pc EXCEPT ![t] = to] /\ pc[t] \in {"push", "attach"}
  BY DEF Push, PushFails, Attach, Run, Finish, Go, threadVars
<1>3. /\ pc' \in [Threads -> {"idle", "handle", "pages", "insert", "map", "map_nowhere",
                           "wait", "ready", "late", "fini",
                           "in", "out", "push", "attach", "put"}]
      /\ \A u \in Threads : \/ pc'[u] = pc[u]
                            \/ pc[u] \in {"push", "attach"} /\ pc'[u] \in {"attach", "put"}
  BY <1>2 DEF Good, MoreTypes
<1>4. \A k \in Jobs : jst'[k] = "free" <=> jst[k] = "free"
  <2>1. ASSUME NEW t \in Threads, Push(t)
        PROVE  \A k \in Jobs : jst'[k] = "free" <=> jst[k] = "free"
    <3>1. pc[t] = "push" /\ jst' = [jst EXCEPT ![myJob[t]] = "queued"]
      BY <2>1 DEF Push, Go
    <3>2. jst[myJob[t]] = "init"
      BY <3>1, SubmitterFacts
    <3> QED BY <3>1, <3>2 DEF SubInv, SubTypes
  <2>2. ASSUME NEW t \in Threads, PushFails(t) \/ Attach(t)
        PROVE  jst' = jst
    BY <2>2 DEF PushFails, Attach, jobVars
  <2>3. ASSUME NEW j \in Jobs, Run(j) \/ Finish(j)
        PROVE  \A k \in Jobs : jst'[k] = "free" <=> jst[k] = "free"
    BY <2>3 DEF Run, Finish, SubInv, SubTypes
  <2> QED BY <2>1, <2>2, <2>3
<1> QED BY <1>1, <1>3, <1>4, JobMoveGood

----------------------------------------------------------------------------
(* What follows from it.                                                   *)

\* Where the state is good, a job has what it needs.
LEMMA GoodServes == SubInv /\ Good => JobServed
<1> SUFFICES ASSUME SubInv, Good, NEW j \in Jobs, jst[j] # "free"
             PROVE  /\ refs[j] > 0 /\ ~DomainFreed
                    /\ \A b \in BosOf(j) : Usable(b) \/ ("early_use" \in Events /\ Creating(b))
  BY DEF JobServed
<1> USE DEF Good, Strong
<1>1. refs[j] > 0
  BY DEF SubInv, SubTypes, CountInv, Sched, Ref
<1>2. ASSUME NEW b \in BosOf(j)
      PROVE  Usable(b) \/ ("early_use" \in Events /\ Creating(b))
  <2>1. b \in BOs /\ Known(b)
    BY DEF BufInv, BosOf, SubInv, SubTypes, MoreTypes
  <2> QED BY <2>1 DEF Known, BufInv, Creating, Late, Making
<1>3. domRefs # 0
  <2>1. /\ domRefs = Ref(file # "closed") + Cardinality(There(bst))
                      + Cardinality(WithDomain(jst, pc, myJob))
        /\ Ref(file # "closed") \in Nat /\ Cardinality(There(bst)) \in Nat
        /\ Cardinality(WithDomain(jst, pc, myJob)) \in Nat
    BY ThereType, WithType DEF DomInv, Ref
  <2>2. CASE j \in WithDomain(jst, pc, myJob)
    <3>1. Cardinality(WithDomain(jst, pc, myJob)) # 0
      BY <2>2, WithType, FS_EmptySet
    <3> QED BY <2>1, <3>1
  <2>3. CASE j \notin WithDomain(jst, pc, myJob)
    <3>1. PICK t \in Threads : pc[t] \in {"in", "out"}
      BY <2>3 DEF WithDomain
    <3>2. Ref(file # "closed") = 1
      BY <3>1 DEF LinkInv, Ref
    <3> QED BY <2>1, <3>2
  <2> QED BY <2>2, <2>3
<1> QED BY <1>1, <1>2, <1>3 DEF DomainFreed

\* Up to the step that breaks, the state is good; that step leaves every job
\* what it works with.
RefsInv == MoreTypes /\ JobServed /\ (broken = "no" => Strong)

LEMMA RefsInit == Init => RefsInv
<1> SUFFICES ASSUME Init PROVE RefsInv
  OBVIOUS
<1> USE SetsAssumption DEF Init
<1>1. MoreTypes
  BY DEF MoreTypes, Broken
<1>2. LinkInv /\ BufInv
  BY DEF LinkInv, BufInv, ThreadBuf, Making, Using, Late, BosOf, HalfMade
<1>3. RefInv
  <2>1. ASSUME NEW b \in BOs PROVE RefSum(handle, ins, outs, pc, myBo, b) = 0
    BY RefSumHeld DEF Holding, Using
  <2> QED BY <2>1 DEF RefInv
<1>4. LiveInv
  BY DEF LiveInv
<1>5. DomInv
  <2>1. There(bst) = {} /\ WithDomain(jst, pc, myJob) = {}
    BY DEF There, WithDomain
  <2>2. Cardinality(There(bst)) = 0 /\ Cardinality(WithDomain(jst, pc, myJob)) = 0
    BY <2>1, FS_EmptySet
  <2> QED BY <2>2 DEF DomInv, Ref
<1>6. JobServed
  BY DEF JobServed
<1> QED BY <1>1, <1>2, <1>3, <1>4, <1>5, <1>6 DEF RefsInv, Strong

\* A step that only breaks something.
LEMMA BreakStep ==
    ASSUME MoreTypes, JobServed, broken = "no",
           UNCHANGED <<domRefs, bst, brefs, jst, refs, ins, outs, pc, myBo>>,
           broken' \in Broken \ {"no"},
           file' \in {"open", "released", "closed"}, handle' \in [BOs -> BOOLEAN]
    PROVE  RefsInv'
<1>1. MoreTypes'
  BY DEF MoreTypes
<1>2. JobServed'
  BY DEF JobServed, DomainFreed, BosOf, Usable, Creating
<1> QED BY <1>1, <1>2 DEF RefsInv

LEMMA RefsStep == SubInv /\ SubInv' /\ RefsInv /\ [Next]_vars => RefsInv'
<1> SUFFICES ASSUME SubInv, SubInv', RefsInv, [Next]_vars PROVE RefsInv'
  OBVIOUS
<1>1. Good' => RefsInv'
  <2>1. SubInv' /\ Good' => JobServed'
    BY GoodServes, PTL
  <2> QED BY <2>1 DEF RefsInv, Good
<1>2. CASE UNCHANGED vars
  <2>1. UNCHANGED <<file, domRefs, bst, brefs, handle, jst, refs, ins, outs, pc, myJob, myBo,
                    broken>>
    BY <1>2 DEF vars, boVars, jobVars, threadVars
  <2>2. MoreTypes' /\ JobServed'
    BY <2>1 DEF RefsInv, MoreTypes, JobServed, BosOf, Usable, DomainFreed, Creating
  <2>3. Strong => LinkInv' /\ RefInv' /\ LiveInv' /\ DomInv'
    BY <2>1 DEF Strong, LinkInv, RefInv, LiveInv, DomInv
  <2>4. Strong => BufInv'
    BY <2>1, SameBuf DEF Strong, BosOf
  <2> QED BY <2>1, <2>2, <2>3, <2>4 DEF RefsInv, Strong
<1>3. CASE broken = "no" /\ (FileStep \/ SchedStep
                             \/ \E t \in Threads : CreateStep(t) \/ BoStep(t) \/ SubmitStep(t))
  <2> USE <1>3
  <2>1. Good /\ MoreTypes /\ JobServed
    BY DEF RefsInv, Good
  <2>2. CASE Open
    BY <1>1, <2>1, <2>2, OpenGood
  <2>3. CASE Release
    <3>1. CASE \E b \in BOs : bst[b] = "stale"
      <4>1. /\ broken' = "stale_handle" /\ file' = "released"
            /\ handle' = [b \in BOs |-> FALSE]
            /\ UNCHANGED <<domRefs, bst, brefs, jst, refs, ins, outs, pc, myBo>>
        BY <2>3, <3>1 DEF Release, jobVars, threadVars
      <4>2. broken' \in Broken \ {"no"} /\ handle' \in [BOs -> BOOLEAN]
        BY <4>1 DEF Broken
      <4> QED BY <2>1, <4>1, <4>2, BreakStep
    <3>2. CASE \A b \in BOs : bst[b] # "stale"
      BY <1>1, <2>1, <2>3, <3>2, ReleaseGood
    <3> QED BY <3>1, <3>2
  <2>4. CASE PostClose
    BY <1>1, <2>1, <2>4, PostCloseGood
  <2>5. ASSUME NEW j \in Jobs, Run(j) \/ Finish(j) \/ JobFree(j) PROVE RefsInv'
    BY <1>1, <2>1, <2>5, JobStepGood, JobFreeGood
  <2>6. ASSUME NEW t \in Threads, CreateStep(t) PROVE RefsInv'
    <3>1. ASSUME NEW b \in BOs, CreateBegin(t, b) PROVE RefsInv'
      BY <1>1, <2>1, <3>1, CreateBeginGood
    <3>2. CASE CreateHandle(t)
      BY <1>1, <2>1, <3>2, CreateHandleGood
    <3>3. CASE CreatePages(t) \/ CreateInsert(t) \/ CreateMap(t)
      <4>4. PICK b : b = myBo[t]
        OBVIOUS
      <4>1. MoreTypes' /\ (broken' = "no" => Strong')
        BY <2>1, <3>3, <4>4, CreateMoveGood
      <4>2. CASE broken' = "no"
        BY <1>1, <4>1, <4>2 DEF Good
      <4>3. CASE broken' # "no"
        <5>1. /\ UNCHANGED <<domRefs, bst, jst, refs, ins, outs>>
              /\ broken' = "freed_in_use" \/ UNCHANGED <<pc, myBo>>
          <6>1. CASE CreatePages(t)
            BY <4>3, <6>1 DEF CreatePages, Unwind, Go, jobVars
          <6>2. CASE CreateInsert(t)
            BY <4>3, <6>2 DEF CreateInsert
          <6>3. CASE CreateMap(t)
            BY <2>1, <4>3, <6>3 DEF CreateMap, Unwind, Go, jobVars, MoreTypes
          <6> QED BY <3>3, <6>1, <6>2, <6>3
        <5>2. JobServed'
          BY <2>1, <5>1 DEF JobServed, DomainFreed, BosOf, Usable, Creating
        <5> QED BY <4>1, <4>3, <5>2 DEF RefsInv
      <4> QED BY <4>2, <4>3
    <3> QED BY <2>6, <3>1, <3>2, <3>3 DEF CreateStep
  <2>7. ASSUME NEW t \in Threads, BoStep(t) PROVE RefsInv'
    <3>1. ASSUME NEW b \in BOs, CloseHandle(t, b) PROVE RefsInv'
      BY <1>1, <2>1, <3>1, CloseHandleGood
    <3>2. ASSUME NEW b \in BOs, PrepBegin(t, b) PROVE RefsInv'
      <4>1. /\ Enter(t, "wait", b) /\ LookUp(One(b))
            /\ UNCHANGED <<file, domRefs, bst, handle, jst, refs, ins, outs, myJob, broken>>
        BY <3>2 DEF PrepBegin, jobVars
      <4> QED BY <1>1, <2>1, <4>1, LookUpOneGood
    <3>3. ASSUME NEW b \in BOs, FiniBegin(t, b) PROVE RefsInv'
      <4>1. /\ Enter(t, "fini", b) /\ LookUp(One(b))
            /\ UNCHANGED <<file, domRefs, bst, handle, jst, refs, ins, outs, myJob, broken>>
        BY <3>3 DEF FiniBegin, jobVars
      <4> QED BY <1>1, <2>1, <4>1, LookUpOneGood
    <3>4. CASE PrepWait(t) \/ PutLookup(t)
      BY <1>1, <2>1, <3>4, PrepWaitGood, PutLookupGood
    <3>5. CASE NoPages(t) \/ UseStale(t)
      <4>1. /\ broken' \in Broken \ {"no"}
            /\ UNCHANGED <<file, handle, domRefs, bst, brefs, jst, refs, ins, outs, pc, myBo>>
        BY <3>5 DEF NoPages, UseStale, boVars, jobVars, threadVars, Broken
      <4> QED BY <2>1, <4>1, BreakStep DEF MoreTypes
    <3> QED BY <2>7, <3>1, <3>2, <3>3, <3>4, <3>5 DEF BoStep
  <2>8. ASSUME NEW t \in Threads, SubmitStep(t) PROVE RefsInv'
    <3>1. ASSUME NEW j \in Jobs, SubmitBegin(t, j) PROVE RefsInv'
      BY <1>1, <2>1, <3>1, SubmitBeginGood
    <3>2. ASSUME NEW S \in SUBSET BOs, LookUpIns(t, S) \/ LookUpOuts(t, S) PROVE RefsInv'
      BY <1>1, <2>1, <3>2, LookUpInsGood, LookUpOutsGood
    <3>3. CASE SubmitFails(t)
      <4>1. /\ broken' = "no_domain"
            /\ UNCHANGED <<file, handle, pc, myBo, domRefs, bst, brefs, jst, refs, ins, outs>>
        BY <3>3 DEF SubmitFails, boVars, jobVars, threadVars
      <4>2. broken' \in Broken \ {"no"}
        BY <4>1 DEF Broken
      <4> QED BY <2>1, <4>1, <4>2, BreakStep DEF MoreTypes
    <3>4. CASE Push(t) \/ PushFails(t) \/ Attach(t)
      BY <1>1, <2>1, <3>4, JobStepGood
    <3>5. CASE SubmitEnd(t)
      BY <1>1, <2>1, <3>5, SubmitEndGood
    <3> QED BY <2>8, <3>1, <3>2, <3>3, <3>4, <3>5 DEF SubmitStep
  <2> QED BY <2>2, <2>3, <2>4, <2>5, <2>6, <2>7, <2>8 DEF FileStep, SchedStep
<1> QED BY <1>2, <1>3 DEF Next, Oops

LEMMA RefsAlways == Spec => [](SubInv /\ RefsInv)
<1>1. SubInv /\ RefsInv /\ [Next]_vars => SubInv' /\ RefsInv'
  BY SubStep, RefsStep
<1> QED BY <1>1, SubInit, RefsInit, PTL DEF Spec

\* Every variable keeps its type; in particular no count goes below zero, so no
\* reference is put that was not taken (rocket_job.c:235-262,
\* rocket_gem.c:14-40).
THEOREM SubmitTypes == Spec => []TypeOK
<1>1. SubInv /\ RefsInv => TypeOK
  BY DEF SubInv, SubTypes, RefsInv, MoreTypes, Broken, TypeOK
<1> QED BY <1>1, RefsAlways, PTL

\* What a job works with stays until its last reference is gone, whatever
\* handles are closed meanwhile and even if the file is (rocket_job.c:221,
\* rocket_drv.c:137-147).  Of a buffer found under its handle before its create
\* returned the job may lack the mapping, until that create has come to it
\* (rocket_gem.c:82, 99).
THEOREM JobsServed == Spec => []JobServed
<1>1. RefsInv => JobServed
  BY DEF RefsInv
<1> QED BY <1>1, RefsAlways, PTL

\* When the file is closed, its jobs are over and nobody is in an ioctl, no
\* buffer is left and the domain is freed (rocket_drv.c:137-147,
\* rocket_job.c:235-262).
THEOREM EverythingReleased == Spec => []AllReleased
<1>1. SubInv /\ RefsInv => AllReleased
  <2> SUFFICES ASSUME SubInv, RefsInv, file = "closed", Quiet, broken = "no"
               PROVE  DomainFreed /\ \A b \in BOs : bst[b] = "none" /\ brefs[b] = 0
    BY DEF AllReleased
  <2> USE DEF RefsInv, Strong
  <2>1. \A b \in BOs : ~handle[b]
    BY DEF LinkInv
  <2>2. (\A j \in Jobs : ins[j] = {} /\ outs[j] = {}) /\ \A t \in Threads : pc[t] \notin Holding
    BY DEF LinkInv, Quiet, Holding, Using
  <2>3. \A b \in BOs : brefs[b] = 0 /\ bst[b] = "none"
    BY <2>1, <2>2, RefSumHeld DEF RefInv, LiveInv
  <2>4. There(bst) = {} /\ WithDomain(jst, pc, myJob) = {}
    BY <2>3 DEF There, WithDomain, Quiet
  <2>5. domRefs = 0
    BY <2>4, FS_EmptySet DEF DomInv, Ref
  <2> QED BY <2>3, <2>5 DEF DomainFreed
<1> QED BY <1>1, RefsAlways, PTL

\* Until memory is used wrongly, a buffer, the domain and a job are there as long
\* as somebody has them, and no longer, and what a thread in an ioctl works on is
\* there (rocket_job.c:221, 235-262, rocket_gem.c:14-40, 82-83, 136-180,
\* rocket_drv.c:137-147).
THEOREM NothingLostOrEarly == Spec => []LivesAsHeld
<1>1. SubInv /\ RefsInv => LivesAsHeld
  <2> SUFFICES ASSUME SubInv, RefsInv, broken = "no" PROVE LivesAsHeld
    BY DEF LivesAsHeld
  <2> USE DEF RefsInv, Strong, MoreTypes
  <2>1. ASSUME NEW b \in BOs PROVE bst[b] # "none" <=> Held(b)
    <3>1. bst[b] # "none" <=> brefs[b] # 0
      BY DEF LiveInv
    <3>2. brefs[b] # 0 <=> Held(b)
      BY RefSumHeld DEF RefInv, Held, BosOf, Holding, Using
    <3> QED BY <3>1, <3>2
  <2>2. ~DomainFreed <=> \/ file # "closed" \/ \E b \in BOs : bst[b] # "none"
                         \/ \E j \in Jobs : HasDomain(j)
    <3> DEFINE F == Ref(file # "closed")
               B == Cardinality(There(bst))
               J == Cardinality(WithDomain(jst, pc, myJob))
    <3>1. /\ F \in Nat /\ B \in Nat /\ J \in Nat /\ domRefs = F + B + J
      BY ThereType, WithType DEF DomInv, Ref
    <3>2. F # 0 <=> file # "closed"
      BY DEF Ref
    <3>3. B # 0 <=> \E b \in BOs : bst[b] # "none"
      BY ThereType, FS_EmptySet DEF There
    <3>4. J # 0 <=> \E j \in Jobs : HasDomain(j)
      <4>1. J # 0 <=> WithDomain(jst, pc, myJob) # {}
        BY WithType, FS_EmptySet
      <4>2. \A j \in Jobs : j \in WithDomain(jst, pc, myJob) <=> HasDomain(j)
        BY DEF WithDomain, HasDomain
      <4>3. WithDomain(jst, pc, myJob) \subseteq Jobs
        BY DEF WithDomain
      <4> QED BY <4>1, <4>2, <4>3
    <3> HIDE DEF F, B, J
    <3>5. domRefs # 0 <=> F # 0 \/ B # 0 \/ J # 0
      BY <3>1
    <3> QED BY <3>2, <3>3, <3>4, <3>5 DEF DomainFreed
  <2>4. ASSUME NEW t \in Threads, myBo[t] # None
        PROVE  bst[myBo[t]] \notin {"none", "stale"}
    <3>1. ThreadBuf(t) /\ pc[t] \in Making \cup Using
      BY <2>4 DEF BufInv, LinkInv
    <3> QED BY <3>1 DEF ThreadBuf, Known, Usable, HalfMade, Late
  <2>3. ASSUME NEW j \in Jobs
        PROVE  jst[j] # "free" <=> \/ \E t \in Threads : myJob[t] = j
                                   \/ jst[j] \in {"queued", "running", "killed", "signalled"}
    BY DEF SubInv, SubTypes, CountInv, Mine
  <2> QED BY <2>1, <2>2, <2>3, <2>4 DEF LivesAsHeld
<1> QED BY <1>1, RefsAlways, PTL

----------------------------------------------------------------------------
(* What can go wrong, and after which failure.                             *)

CreateFails == "pages_fail" \in Events \/ "map_fail" \in Events

\* A buffer without an address comes from a failed insertion, a freed one with
\* a handle from a failed create, and each wrong use of memory from its own.
CauseInv ==
    /\ \A b \in BOs : /\ bst[b] = "adrift" => "insert_fail" \in Events
                      /\ bst[b] = "stale" => CreateFails
    /\ \A t \in Threads : pc[t] = "map_nowhere" => "insert_fail" \in Events
    /\ broken = "not_mapped" => "handle_fail" \in Events \/ "early_use" \in Events
    /\ broken = "no_node" => "insert_fail" \in Events
    /\ broken = "stale_handle" => CreateFails
    /\ broken = "no_domain" => "bad_submit" \in Events
    /\ broken \in {"freed_in_use", "no_pages"} => "early_use" \in Events

\* Putting references to buffers that have been found under their handles.
LEMMA DropCause ==
    ASSUME MoreTypes, CauseInv, NEW n \in [BOs -> Nat], NEW d, Drop(n, d),
           \A b \in BOs : n[b] > 0 => Known(b),
           \A t \in Threads : pc'[t] = "map_nowhere" => pc[t] = "map_nowhere"
    PROVE  CauseInv'
<1> DEFINE gone == {b \in BOs : n[b] > 0 /\ brefs[b] = n[b]}
           faults == {FreeFault(b) : b \in gone} \ {"no"}
<1>1. /\ bst' = [b \in BOs |-> IF b \in gone THEN "none" ELSE bst[b]]
      /\ broken' \in IF faults = {} THEN {"no"} ELSE faults
  BY DEF Drop
<1>2. \A b \in gone : /\ FreeFault(b) \in {"no", "late_free", "no_node", "not_mapped"}
                      /\ FreeFault(b) = "no_node" => "insert_fail" \in Events
                      /\ FreeFault(b) = "not_mapped" => "early_use" \in Events
  BY DEF FreeFault, CauseInv, Known
<1>3. /\ broken' \in {"no", "late_free", "no_node", "not_mapped"}
      /\ broken' = "no_node" => "insert_fail" \in Events
      /\ broken' = "not_mapped" => "early_use" \in Events
  BY <1>1, <1>2
<1>4. \A b \in BOs : bst'[b] \in {bst[b], "none"}
  BY <1>1
<1> QED BY <1>3, <1>4 DEF CauseInv

\* A step that touches no buffer.
LEMMA OtherCause ==
    ASSUME CauseInv, UNCHANGED <<bst, broken>>,
           \A t \in Threads : pc'[t] = "map_nowhere"
                                => pc[t] = "map_nowhere" \/ "insert_fail" \in Events
    PROVE  CauseInv'
  BY DEF CauseInv

LEMMA JobPutCause ==
    ASSUME MoreTypes, CauseInv, BufInv, NEW j \in Jobs, NEW s, JobPut(j, s),
           \A t \in Threads : pc'[t] = "map_nowhere" => pc[t] = "map_nowhere"
    PROVE  CauseInv'
<1>1. CASE Cleanup(j)
  <2> DEFINE n == [b \in BOs |-> Ref(b \in ins[j]) + Ref(b \in outs[j])]
  <2>1. Drop(n, 1)
    BY <1>1 DEF Cleanup
  <2>2. n \in [BOs -> Nat]
    BY DEF Ref
  <2>3. ASSUME NEW b \in BOs, n[b] > 0 PROVE Known(b)
    <3>1. b \in BosOf(j)
      BY <2>3 DEF Ref, BosOf
    <3> QED BY <3>1 DEF BufInv
  <2> HIDE DEF n
  <2> QED BY <2>1, <2>2, <2>3, DropCause
<1>2. CASE UNCHANGED <<bst, broken>>
  BY <1>2, OtherCause
<1> QED BY <1>1, <1>2 DEF JobPut

LEMMA CreateCause ==
    ASSUME CauseInv, SubInv, Good, broken = "no", NEW t \in Threads, CreateStep(t)
    PROVE  CauseInv'
<1> USE DEF Good, MoreTypes
<1>6. ASSUME pc[t] \in Late, Unwind(myBo[t]),
             CreateFails, \A u \in Threads : pc'[u] = "map_nowhere" => pc[u] = "map_nowhere"
      PROVE  CauseInv'
  <2>1. myBo[t] \in BOs /\ HalfMade(myBo[t])
    BY <1>6, CreatingFacts DEF Late
  <2>2. ~(handle[myBo[t]] /\ brefs[myBo[t]] = 1) => "early_use" \in Events
    BY <2>1, HalfMadeAlone
  <2> QED BY <1>6, <2>2 DEF Unwind, CauseInv
<1>1. ASSUME NEW b \in BOs, CreateBegin(t, b) PROVE CauseInv'
  BY <1>1 DEF CreateBegin, Enter, CauseInv
<1>2. CASE CreateHandle(t)
  <2>1. CASE Go(t, "handle", "pages") /\ UNCHANGED broken
               /\ bst' = [bst EXCEPT ![myBo[t]] = "handled"]
    BY <2>1 DEF Go, CauseInv
  <2>2. CASE "handle_fail" \in Events /\ Return(t, "handle") /\ Drop(One(myBo[t]), 0)
    <3>1. /\ \A b \in BOs : bst'[b] \in {bst[b], "none"}
          /\ \A u \in Threads : pc'[u] = "map_nowhere" => pc[u] = "map_nowhere"
      BY <2>2 DEF Drop, Return
    <3>2. /\ broken' \in {"no", "not_mapped", "late_free", "no_node"}
          /\ broken' = "no_node" => "insert_fail" \in Events
      <4> DEFINE gone == {b \in BOs : One(myBo[t])[b] > 0 /\ brefs[b] = One(myBo[t])[b]}
                 faults == {FreeFault(b) : b \in gone} \ {"no"}
      <4>1. broken' \in IF faults = {} THEN {"no"} ELSE faults
        BY <2>2 DEF Drop
      <4>2. \A b \in gone : FreeFault(b) \in {"no", "not_mapped", "late_free", "no_node"}
                            /\ (FreeFault(b) = "no_node" => "insert_fail" \in Events)
        BY DEF FreeFault, CauseInv
      <4> HIDE DEF gone
      <4> QED BY <4>1, <4>2
    <3> QED BY <2>2, <3>1, <3>2 DEF CauseInv
  <2> QED BY <1>2, <2>1, <2>2 DEF CreateHandle
<1>3. CASE CreatePages(t)
  <2>1. CASE Unwind(myBo[t]) /\ "pages_fail" \in Events /\ Return(t, "pages")
    BY <1>6, <2>1 DEF Return, Late, Making, CreateFails
  <2>2. CASE Go(t, "pages", "insert")
    BY <1>3, <2>2 DEF CreatePages, Go, Return, CauseInv
  <2> QED BY <1>3, <2>1, <2>2 DEF CreatePages
<1>4. CASE CreateInsert(t)
  BY <1>4 DEF CreateInsert, Go, CauseInv, boVars
<1>5. CASE CreateMap(t)
  <2>1. CASE Unwind(myBo[t]) /\ "map_fail" \in Events /\ Return(t, "map")
    BY <1>6, <2>1 DEF Return, Late, Making, CreateFails
  <2>2. CASE Return(t, "map") /\ bst' = [bst EXCEPT ![myBo[t]] = "mapped"] /\ UNCHANGED broken
    BY <2>2 DEF Return, CauseInv
  <2>3. CASE /\ Return(t, "map_nowhere")
             /\ bst' = [bst EXCEPT ![myBo[t]] = "adrift"] /\ UNCHANGED broken
    BY <2>3 DEF Return, CauseInv
  <2>4. CASE Go(t, "map_nowhere", "map_nowhere") /\ broken' = "no_node" /\ UNCHANGED bst
    BY <2>4 DEF Go, CauseInv
  <2> QED BY <1>5, <2>1, <2>2, <2>3, <2>4 DEF CreateMap
<1> QED BY <1>1, <1>2, <1>3, <1>4, <1>5 DEF CreateStep

LEMMA BoCause ==
    ASSUME CauseInv, SubInv, Good, broken = "no", NEW t \in Threads, BoStep(t)
    PROVE  CauseInv'
<1> USE DEF Good, MoreTypes
<1>1. ASSUME NEW b \in BOs, CloseHandle(t, b) PROVE CauseInv'
  <2>1. pc' = pc
    BY <1>1 DEF CloseHandle, threadVars
  <2>2. One(b) \in [BOs -> Nat] /\ \A c \in BOs : One(b)[c] > 0 => Known(c)
    BY <1>1, OneFact DEF CloseHandle, Found, Known, Ref
  <2> QED BY <1>1, <2>1, <2>2, DropCause DEF CloseHandle
<1>2. ASSUME NEW b \in BOs, PrepBegin(t, b) \/ FiniBegin(t, b) PROVE CauseInv'
  <2>1. UNCHANGED <<bst, broken>> /\ \A u \in Threads : pc'[u] = pc[u] \/ pc'[u] \in Using
    BY <1>2 DEF PrepBegin, FiniBegin, Enter, Using
  <2> QED BY <2>1, OtherCause DEF Using
<1>3. CASE PrepWait(t)
  <2>1. UNCHANGED <<bst, broken>> /\ \A u \in Threads : pc'[u] = pc[u] \/ pc'[u] \in Using
    BY <1>3 DEF PrepWait, Go, Using, boVars
  <2> QED BY <2>1, OtherCause DEF Using
<1>4. CASE PutLookup(t)
  <2>1. /\ pc[t] \in Using /\ Drop(One(myBo[t]), 0)
        /\ \A u \in Threads : pc'[u] = pc[u] \/ pc'[u] = "idle"
    BY <1>4 DEF PutLookup, Return, Using
  <2>2. Known(myBo[t]) /\ myBo[t] \in BOs
    BY <2>1 DEF Strong, BufInv, ThreadBuf, LinkInv
  <2>3. One(myBo[t]) \in [BOs -> Nat] /\ \A c \in BOs : One(myBo[t])[c] > 0 => Known(c)
    BY <2>2, OneFact DEF Ref
  <2> QED BY <2>1, <2>3, DropCause
<1>5. CASE NoPages(t)
  <2>1. pc[t] \in Using /\ bst[myBo[t]] = "handled"
    BY <1>5 DEF NoPages, Using
  <2>2. Known(myBo[t])
    BY <2>1 DEF Strong, BufInv, ThreadBuf
  <2>3. "early_use" \in Events
    BY <2>1, <2>2 DEF Known, Usable
  <2> QED BY <1>5, <2>3 DEF NoPages, CauseInv, boVars, threadVars
<1>6. CASE UseStale(t)
  BY <1>6 DEF UseStale, CauseInv, boVars, threadVars
<1> QED BY <1>1, <1>2, <1>3, <1>4, <1>5, <1>6 DEF BoStep

LEMMA FileCause ==
    ASSUME CauseInv, Good, broken = "no", FileStep
    PROVE  CauseInv'
<1> USE DEF Good, MoreTypes
<1>1. CASE Open \/ PostClose
  BY <1>1, OtherCause DEF Open, PostClose, boVars, threadVars
<1>2. CASE Release
  <2>1. pc' = pc /\ file = "open" /\ \A t \in Threads : pc[t] = "idle"
    BY <1>2 DEF Release, threadVars
  <2>2. CASE \E b \in BOs : bst[b] = "stale"
    BY <1>2, <2>1, <2>2 DEF Release, CauseInv
  <2>3. CASE \A b \in BOs : bst[b] # "stale"
    <3> DEFINE n == [b \in BOs |-> Ref(handle[b])]
    <3>1. Drop(n, 0) /\ n \in [BOs -> Nat]
      BY <1>2, <2>3 DEF Release, Ref
    <3>2. ASSUME NEW b \in BOs, n[b] > 0 PROVE Known(b)
      <4>1. handle[b]
        BY <3>2 DEF Ref
      <4>2. bst[b] \notin {"none", "new"} /\ ~HalfMade(b)
        BY <2>1, <4>1 DEF Strong, BufInv, Late, Making
      <4> QED BY <2>3, <4>2 DEF Usable, HalfMade, Known
    <3> HIDE DEF n
    <3> QED BY <2>1, <3>1, <3>2, DropCause
  <2> QED BY <2>2, <2>3
<1> QED BY <1>1, <1>2 DEF FileStep

LEMMA SubmitCause ==
    ASSUME CauseInv, SubInv, Good, broken = "no", NEW t \in Threads, SubmitStep(t)
    PROVE  CauseInv'
<1> USE DEF Good, MoreTypes
<1>1. CASE SubmitFails(t)
  BY <1>1 DEF SubmitFails, CauseInv, boVars, threadVars
<1>2. CASE SubmitEnd(t)
  <2>1. /\ pc[t] = "put" /\ JobPut(myJob[t], jst[myJob[t]])
        /\ \A u \in Threads : pc'[u] = pc[u] \/ pc'[u] = "idle"
    BY <1>2 DEF SubmitEnd, Return
  <2>2. myJob[t] \in Jobs
    BY <2>1 DEF SubInv, SubTypes, OwnInv, Submitting
  <2> QED BY <2>1, <2>2, JobPutCause DEF Strong
<1>3. CASE ~SubmitFails(t) /\ ~SubmitEnd(t)
  <2>1. UNCHANGED <<bst, broken>> /\ \A u \in Threads : pc'[u] = pc[u] \/ pc'[u] \in Submitting
    BY <1>3 DEF SubmitStep, SubmitBegin, LookUpIns, LookUpOuts, Push, PushFails, Attach,
                Enter, Go, Submitting, boVars
  <2> QED BY <2>1, OtherCause DEF Submitting
<1> QED BY <1>1, <1>2, <1>3

LEMMA SchedCause ==
    ASSUME CauseInv, Good, broken = "no", SchedStep
    PROVE  CauseInv'
<1> USE DEF Good, MoreTypes
<1>1. PICK j \in Jobs : Run(j) \/ Finish(j) \/ JobFree(j)
  BY DEF SchedStep
<1>2. pc' = pc
  BY <1>1 DEF Run, Finish, JobFree, threadVars
<1>3. CASE Run(j) \/ Finish(j)
  BY <1>2, <1>3, OtherCause DEF Run, Finish, boVars
<1>4. CASE JobFree(j)
  BY <1>2, <1>4, JobPutCause DEF JobFree, Strong
<1> QED BY <1>1, <1>3, <1>4

LEMMA CauseStep == SubInv /\ RefsInv /\ CauseInv /\ [Next]_vars => CauseInv'
<1> SUFFICES ASSUME SubInv, RefsInv, CauseInv, [Next]_vars PROVE CauseInv'
  OBVIOUS
<1>1. CASE UNCHANGED vars
  BY <1>1 DEF vars, boVars, threadVars, CauseInv
<1>2. CASE broken = "no" /\ (FileStep \/ SchedStep
                             \/ \E t \in Threads : CreateStep(t) \/ BoStep(t) \/ SubmitStep(t))
  <2>1. Good
    BY <1>2 DEF RefsInv, Good
  <2> QED BY <1>2, <2>1, FileCause, SchedCause, CreateCause, BoCause, SubmitCause
<1> QED BY <1>1, <1>2 DEF Next, Oops

LEMMA CauseAlways == Spec => []CauseInv
<1>1. Init => CauseInv
  BY DEF Init, CauseInv
<1> QED BY <1>1, CauseStep, RefsAlways, PTL DEF Spec

\* A job that outlives its file frees its buffers through what was the file's.
OnlyLateFree == broken \in {"no", "late_free"}

\* Where no create and no submit fails before its push and no thread uses a
\* handle before its create has returned, memory is used wrongly only by a job
\* that outlives its file (rocket_gem.c:18-27): no buffer is freed half made, no
\* handle left without its buffer, no domain put that was not taken.
THEOREM OnlyFreedLate ==
    Events \subseteq {"push_fail", "wait_timeout"} => (Spec => []OnlyLateFree)
<1> SUFFICES ASSUME Events \subseteq {"push_fail", "wait_timeout"}
             PROVE  Spec => []OnlyLateFree
  OBVIOUS
<1>1. RefsInv /\ CauseInv => OnlyLateFree
  BY DEF RefsInv, MoreTypes, Broken, CauseInv, CreateFails, OnlyLateFree
<1> QED BY <1>1, RefsAlways, CauseAlways, PTL

\* A buffer is unmapped that was never mapped only where its handle could not be
\* made or a thread uses a handle whose create has not returned, whatever else
\* fails (rocket_gem.c:23, 82-85).
THEOREM UnmapsTheMapped ==
    {"handle_fail", "early_use"} \cap Events = {} => (Spec => []UnmapsWhatItMapped)
<1> SUFFICES ASSUME {"handle_fail", "early_use"} \cap Events = {}
             PROVE  Spec => []UnmapsWhatItMapped
  OBVIOUS
<1>1. CauseInv => UnmapsWhatItMapped
  BY DEF CauseInv, UnmapsWhatItMapped
<1> QED BY <1>1, CauseAlways, PTL
=============================================================================
