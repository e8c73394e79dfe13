--------------------------- MODULE LoadingProofs ---------------------------
(***************************************************************************)
(* Theorems about what happens to a chunk once it is parsed.  GotoCheck,   *)
(* for programs of every length over every set of label names: what the    *)
(* pass accepts and refuses is what it should.  Chunks, for every number   *)
(* of trees and addresses and however often addresses are reused.          *)
(***************************************************************************)
EXTENDS GotoCheck, Chunks, FiniteSetTheorems, SequenceTheorems, TLAPS

(* The open blocks, while the pass goes on. *)
CheckingOK ==
  /\ Types /\ Numbered /\ Nested /\ LabelsKnown /\ GotosWait /\ LoopsCounted
  /\ \A j \in jumps : Resolved(j)
  /\ \A l, m \in placed : ~Clashing(l, m)

LEMMA OpenFacts ==
  ASSUME Types
  PROVE  /\ \E n \in Nat : Len(open) = n + 1
         /\ DOMAIN open = 1 .. Len(open) /\ \A i \in 1 .. Len(open) : open[i] \in BlockType
         /\ Top = open[Len(open)] /\ Len(open) \in 1 .. Len(open) /\ Top \in BlockType
         /\ InFunction = Visible(Len(open))
<1>1. open \in Seq(BlockType) /\ open # <<>> BY DEF Types
<1>2. Len(open) \in Nat /\ Len(open) # 0 /\ DOMAIN open = 1 .. Len(open)
  BY <1>1
<1>3. PICK n \in Nat : Len(open) = n + 1
  <2>1. Len(open) - 1 \in Nat /\ Len(open) = (Len(open) - 1) + 1 BY <1>2
  <2> QED BY <2>1
<1>4. Len(open) \in 1 .. Len(open) BY <1>3
<1>5. \A i \in 1 .. Len(open) : open[i] \in BlockType BY <1>1
<1>6. InFunction = Visible(Len(open)) BY <1>2 DEF InFunction, Visible
<1> QED BY <1>2, <1>3, <1>4, <1>5, <1>6 DEF Top

LEMMA VisibleFacts ==
  ASSUME NEW i \in Nat
  PROVE  /\ Visible(i) \subseteq 1 .. i /\ (i > 0 => i \in Visible(i))
         /\ open[i + 1].kind \in FunctionTops => Visible(i + 1) = {i + 1}
         /\ open[i + 1].kind \notin FunctionTops => Visible(i + 1) = {i + 1} \cup Visible(i)
         /\ \A k \in Visible(i) : Visible(k) \subseteq Visible(i)
<1>1. Visible(i) \subseteq 1 .. i /\ (i > 0 => i \in Visible(i)) BY DEF Visible
<1>2. i + 1 \in Visible(i + 1) BY DEF Visible
<1>3. ASSUME NEW k \in Visible(i + 1), k # i + 1
      PROVE  k \in Visible(i) /\ open[i + 1].kind \notin FunctionTops
  <2>1. k \in 1 .. i /\ i + 1 \in k + 1 .. i + 1 /\ \A j \in k + 1 .. i : j \in k + 1 .. i + 1
    BY <1>3 DEF Visible
  <2> QED BY <1>3, <2>1 DEF Visible
<1>4. ASSUME NEW k \in Visible(i), open[i + 1].kind \notin FunctionTops
      PROVE  k \in Visible(i + 1)
  <2>1. k \in 1 .. i + 1 /\ \A j \in k + 1 .. i + 1 : j \in k + 1 .. i \/ j = i + 1
    BY <1>4 DEF Visible
  <2> QED BY <1>4, <2>1 DEF Visible
<1>5. ASSUME NEW k \in Visible(i), NEW h \in Visible(k) PROVE h \in Visible(i)
  <2>1. k \in 1 .. i /\ h \in 1 .. k /\ \A j \in h + 1 .. i : j \in h + 1 .. k \/ j \in k + 1 .. i
    BY <1>5 DEF Visible
  <2> QED BY <1>5, <2>1 DEF Visible
<1> QED BY <1>1, <1>2, <1>3, <1>4, <1>5

(* What a step does to the blocks that stay open, 1 to k, and to the one it *)
(* may open inside them: only the block at k gets locals, and then          *)
(* cs.nactvar has grown since the last statement of that block.             *)
SameBlock(b, c) ==
  /\ b.id = c.id /\ b.kind = c.kind /\ b.base = c.base
  /\ b.saved_nactvar = c.saved_nactvar /\ b.saved_loop_depth = c.saved_loop_depth

Fresh(b) ==
  /\ size' = size + 1 /\ b.id = size + 1 /\ b.kind # "chunk" /\ b.labels = {} /\ b.pending = {}
  /\ b.base <= size + 2 /\ nactvar' \in b.base .. size + 2

Carried(k) ==
  /\ k \in 1 .. Len(open) /\ Len(open') \in {k, k + 1}
  /\ size' \in {size, size + 1}
  /\ \A i \in 1 .. k : SameBlock(open'[i], open[i])
  /\ \A i \in 1 .. k : i # k => open'[i].own = open[i].own
  /\ Level(k)' \in Level(k) .. size' + 1
  /\ open[k].own \subseteq open'[k].own /\ (Level(k)' = Level(k) => open'[k].own = open[k].own)
  /\ Len(open') = k + 1 => Fresh(open'[k + 1])

LEMMA CarriedTypes ==
  ASSUME Types, Types', NEW k \in Nat, Carried(k)
  PROVE  /\ DOMAIN open = 1 .. Len(open) /\ Len(open) \in Nat
         /\ \A i \in 1 .. Len(open) : open[i] \in BlockType
         /\ DOMAIN open' = 1 .. Len(open') /\ Len(open') \in Nat
         /\ \A i \in 1 .. Len(open') : open'[i] \in BlockType
         /\ size \in Nat /\ size' \in Nat /\ nactvar' \in Nat
         /\ size' = size \/ size' = size + 1
         /\ Len(open') = k \/ Len(open') = k + 1
         /\ k >= 1 /\ k <= Len(open) /\ k \in 1 .. k
         /\ \A i \in 1 .. k : i \in 1 .. Len(open) /\ i \in 1 .. Len(open')
         /\ \A i \in 1 .. Len(open') :
              i \in Nat /\ (i \in 1 .. k \/ (i = k + 1 /\ Len(open') = k + 1 /\ Fresh(open'[k + 1])))
<1>1. open \in Seq(BlockType) /\ open' \in Seq(BlockType) BY DEF Types
<1>2. /\ DOMAIN open = 1 .. Len(open) /\ Len(open) \in Nat
      /\ \A i \in 1 .. Len(open) : open[i] \in BlockType
      /\ DOMAIN open' = 1 .. Len(open') /\ Len(open') \in Nat
      /\ \A i \in 1 .. Len(open') : open'[i] \in BlockType
  BY <1>1
<1>3. size \in Nat /\ size' \in Nat /\ nactvar' \in Nat BY DEF Types
<1>4. Len(open') = k \/ Len(open') = k + 1 BY DEF Carried
<1>5. k >= 1 /\ k <= Len(open) /\ k \in 1 .. k
  <2>1. k \in 1 .. Len(open) BY DEF Carried
  <2>2. \A n \in Nat : k \in 1 .. n => k >= 1 /\ k <= n /\ k \in 1 .. k OBVIOUS
  <2> QED BY <2>1, <2>2, <1>2
<1>6. size' = size \/ size' = size + 1 BY DEF Carried
<1>7. \A m, n \in Nat : k <= n /\ (m = k \/ m = k + 1) => \A i \in 1 .. k : i \in 1 .. n /\ i \in 1 .. m
  OBVIOUS
<1>8. \A m \in Nat : m = k \/ m = k + 1 =>
        \A i \in 1 .. m : i \in Nat /\ (i \in 1 .. k \/ (i = k + 1 /\ m = k + 1))
  OBVIOUS
<1>9. \A i \in 1 .. k : i \in 1 .. Len(open) /\ i \in 1 .. Len(open') BY <1>2, <1>4, <1>5, <1>7
<1>10. \A i \in 1 .. Len(open') : i \in Nat /\ (i \in 1 .. k \/ (i = k + 1 /\ Len(open') = k + 1))
  BY <1>2, <1>4, <1>8
<1>11. Len(open') = k + 1 => Fresh(open'[k + 1]) BY DEF Carried
<1>12. \A i \in 1 .. Len(open') :
         i \in Nat /\ (i \in 1 .. k \/ (i = k + 1 /\ Len(open') = k + 1 /\ Fresh(open'[k + 1])))
  BY <1>10, <1>11
<1> QED BY <1>2, <1>3, <1>4, <1>5, <1>6, <1>9, <1>12

LEMMA Carry ==
  ASSUME Types, Types', NEW k \in Nat, Carried(k), NEW i \in 1 .. k
  PROVE  /\ i \in 1 .. Len(open) /\ i \in 1 .. Len(open')
         /\ Visible(i)' = Visible(i) /\ Ids(i)' = Ids(i)
         /\ Outside(i)' = Outside(i) /\ LoopsIn(i)' = LoopsIn(i)
         /\ i # k => Level(i)' = Level(i) /\ open'[i].own = open[i].own
         /\ open[i].own \subseteq open'[i].own
<1>1. /\ Len(open) \in Nat /\ Len(open') \in Nat /\ k >= 1 /\ k <= Len(open)
      /\ Len(open') = k \/ Len(open') = k + 1
      /\ \A h \in 1 .. k : h \in 1 .. Len(open) /\ h \in 1 .. Len(open')
  BY CarriedTypes
<1>2. i \in 1 .. Len(open) /\ i \in 1 .. Len(open') BY <1>1
<1>3. \A j \in 1 .. i : /\ j \in 1 .. k /\ open'[j].id = open[j].id /\ open'[j].kind = open[j].kind
                        /\ j # i => j # k
  BY DEF Carried, SameBlock
<1>4. Visible(i)' = Visible(i)
  <2>1. \A h \in 1 .. i : \A j \in h + 1 .. i : open'[j].kind = open[j].kind BY <1>3
  <2> QED BY <2>1 DEF Visible
<1>5. Visible(i) \subseteq 1 .. i BY DEF Visible
<1>6. Ids(i)' = Ids(i) BY <1>3, <1>4, <1>5 DEF Ids
<1>7. LoopsIn(i)' = LoopsIn(i) BY <1>3, <1>4, <1>5 DEF LoopsIn
<1>8. Outside(i)' = Outside(i)
  <2>1. \A h \in Visible(i) \ {i} : open'[h].own = open[h].own BY <1>3, <1>5 DEF Carried
  <2> QED BY <2>1, <1>4 DEF Outside
<1>9. i # k => Level(i)' = Level(i) /\ open'[i].own = open[i].own
  <2>1. ASSUME i # k
        PROVE  i + 1 \in 1 .. k /\ i # Len(open) /\ i # Len(open')
    BY <2>1, <1>1
  <2> QED BY <2>1 DEF Carried, SameBlock, Level
<1>10. open[i].own \subseteq open'[i].own BY <1>9 DEF Carried
<1> QED BY <1>2, <1>4, <1>6, <1>7, <1>8, <1>9, <1>10

LEMMA CarriedBlocks ==
  ASSUME CheckingOK, Types', NEW k \in Nat, Carried(k)
  PROVE  /\ Nested' /\ open'[1].kind = "chunk"
         /\ \A i \in DOMAIN open' : open'[i].id <= size' /\ open'[i].base <= size' + 1
         /\ \A i, h \in DOMAIN open' : i < h => open'[i].id < open'[h].id
<1>1. /\ DOMAIN open = 1 .. Len(open) /\ Len(open) \in Nat
      /\ \A i \in 1 .. Len(open) : open[i] \in BlockType
      /\ DOMAIN open' = 1 .. Len(open') /\ Len(open') \in Nat
      /\ \A i \in 1 .. Len(open') : open'[i] \in BlockType
      /\ size \in Nat /\ size' \in Nat /\ nactvar' \in Nat
      /\ size' = size \/ size' = size + 1
      /\ k >= 1 /\ k \in 1 .. k /\ \A i \in 1 .. k : i \in 1 .. Len(open) /\ i \in 1 .. Len(open')
  BY CarriedTypes DEF CheckingOK
<1>2. \A i \in 1 .. Len(open') :
        i \in Nat /\ (i \in 1 .. k \/ (i = k + 1 /\ Len(open') = k + 1 /\ Fresh(open'[k + 1])))
  BY CarriedTypes DEF CheckingOK
<1>3. \A i \in 1 .. k : i \in 1 .. Len(open) /\ SameBlock(open'[i], open[i]) BY <1>1 DEF Carried
<1>4. \A i \in 1 .. k : /\ open[i].id <= size /\ open[i].base <= size + 1
                        /\ open[i].id \in Nat /\ open[i].base \in Nat /\ Level(i) \in open[i].base .. size + 1
                        /\ open[i].kind = "chunk" <=> i = 1
  BY <1>1, <1>3 DEF CheckingOK, Numbered, Nested, BlockType
<1>5. ASSUME NEW i \in 1 .. Len(open')
      PROVE  open'[i].id <= size' /\ open'[i].base <= size' + 1
  <2>1. CASE i \in 1 .. k
    <3>1. open'[i].id = open[i].id /\ open'[i].base = open[i].base BY <2>1, <1>3 DEF SameBlock
    <3> QED BY <3>1, <2>1, <1>1, <1>4
  <2>2. CASE i = k + 1 /\ Fresh(open'[k + 1]) BY <2>2, <1>1 DEF Fresh
  <2> QED BY <2>1, <2>2, <1>2
<1>6. ASSUME NEW i \in 1 .. Len(open'), NEW h \in 1 .. Len(open'), i < h
      PROVE  open'[i].id < open'[h].id
  <2>1. i \in 1 .. k
    <3>1. i \in Nat /\ h \in Nat /\ (i \in 1 .. k \/ i = k + 1) /\ (h \in 1 .. k \/ h = k + 1)
      BY <1>2
    <3> QED BY <3>1, <1>6
  <2>2. CASE h \in 1 .. k
    <3>1. open[i].id < open[h].id
      BY <2>1, <2>2, <1>1, <1>3, <1>6 DEF CheckingOK, Numbered
    <3> QED BY <3>1, <2>1, <2>2, <1>3 DEF SameBlock
  <2>3. CASE h = k + 1 /\ Fresh(open'[k + 1])
    <3>1. open'[i].id = open[i].id /\ open'[h].id = size + 1 BY <2>1, <2>3, <1>3 DEF SameBlock, Fresh
    <3> QED BY <3>1, <2>1, <1>1, <1>4
  <2> QED BY <2>2, <2>3, <1>2
<1>7. ASSUME NEW i \in 1 .. Len(open') PROVE open'[i].kind = "chunk" <=> i = 1
  <2>1. CASE i \in 1 .. k BY <2>1, <1>3, <1>4 DEF SameBlock
  <2>2. CASE i = k + 1 /\ Fresh(open'[k + 1]) BY <2>2, <1>1 DEF Fresh
  <2> QED BY <2>1, <2>2, <1>2
<1>8. ASSUME NEW i \in 1 .. Len(open') PROVE Level(i)' \in open'[i].base .. size' + 1
  <2>1. CASE i \in 1 .. k /\ i # k
    <3>1. Level(i)' = Level(i) BY <2>1, Carry DEF CheckingOK
    <3>2. open'[i].base = open[i].base BY <2>1, <1>3 DEF SameBlock
    <3>3. Level(i) \in open[i].base .. size + 1 /\ open[i].base \in Nat BY <2>1, <1>4
    <3> QED BY <3>1, <3>2, <3>3, <1>1
  <2>2. CASE i = k
    <3>1. Level(k)' \in Level(k) .. size' + 1 /\ Level(k) \in open[k].base .. size + 1
      BY <1>1, <1>4 DEF Carried
    <3>2. open'[k].base = open[k].base /\ open[k].base \in Nat BY <1>1, <1>3, <1>4 DEF SameBlock
    <3> QED BY <3>1, <3>2, <2>2, <1>1
  <2>3. CASE i = k + 1 /\ Len(open') = k + 1 /\ Fresh(open'[k + 1])
    <3>1. Level(i)' = nactvar' BY <2>3 DEF Level
    <3> QED BY <3>1, <2>3, <1>1 DEF Fresh
  <2> QED BY <2>1, <2>2, <2>3, <1>2
<1>9. Nested' BY <1>1, <1>7, <1>8 DEF Nested
<1>10. open'[1].kind = "chunk"
  <2>1. 1 \in 1 .. k BY <1>1
  <2> QED BY <2>1, <1>1, <1>7
<1> QED BY <1>1, <1>5, <1>6, <1>9, <1>10

(* The blocks keep their labels and their locals. *)
LEMMA CarriedLabels ==
  ASSUME CheckingOK, Types', NEW k \in Nat, Carried(k), placed' = placed,
         \A i \in 1 .. k : open'[i].labels = open[i].labels
  PROVE  LabelsKnown'
<1>1. /\ DOMAIN open = 1 .. Len(open) /\ DOMAIN open' = 1 .. Len(open')
      /\ k \in 1 .. k /\ \A i \in 1 .. k : i \in 1 .. Len(open) /\ i \in 1 .. Len(open')
      /\ size \in Nat
  BY CarriedTypes DEF CheckingOK
<1>2. \A i \in 1 .. Len(open') : i \in 1 .. k \/ (i = k + 1 /\ Fresh(open'[k + 1]))
  BY CarriedTypes DEF CheckingOK
<1>3. \A i \in 1 .. k : /\ open'[i].id = open[i].id /\ open'[i].labels = open[i].labels
                        /\ Visible(i)' = Visible(i) /\ Visible(i) \subseteq 1 .. k
                        /\ Outside(i)' = Outside(i) /\ open[i].own \subseteq open'[i].own
  <2>1. \A i \in 1 .. k : /\ Visible(i)' = Visible(i) /\ Outside(i)' = Outside(i)
                          /\ open[i].own \subseteq open'[i].own
    BY Carry DEF CheckingOK
  <2>2. \A i \in 1 .. k : Visible(i) \subseteq 1 .. k BY DEF Visible
  <2> QED BY <2>1, <2>2 DEF Carried, SameBlock
<1>4. ASSUME NEW i \in 1 .. Len(open'), i = k + 1 /\ Fresh(open'[k + 1])
      PROVE  open'[i].labels = {} /\ \A l \in placed : l.block # open'[i].id
  <2>1. \A l \in placed : l.block \in Nat /\ l.block <= size BY DEF CheckingOK, Types, Numbered
  <2> QED BY <2>1, <1>4, <1>1 DEF Fresh
<1>5. ASSUME NEW i \in 1 .. Len(open'), NEW d \in open'[i].labels
      PROVE  \E l \in placed : /\ l.name = d.name /\ l.at = d.at /\ l.block = open'[i].id
                               /\ l.scope \subseteq Outside(i)' \cup open'[i].own
  <2>1. i \in 1 .. k BY <1>2, <1>4, <1>5
  <2>2. i \in DOMAIN open /\ d \in open[i].labels BY <2>1, <1>1, <1>3, <1>5
  <2>3. PICK l \in placed : /\ l.name = d.name /\ l.at = d.at /\ l.block = open[i].id
                            /\ l.scope \subseteq Outside(i) \cup open[i].own
    BY <2>2 DEF CheckingOK, LabelsKnown
  <2> QED BY <2>1, <2>3, <1>3
<1>6. ASSUME NEW i \in 1 .. Len(open'), NEW l \in placed, l.block = open'[i].id
      PROVE  \E d \in open'[i].labels : d.name = l.name /\ d.at = l.at
  <2>1. i \in 1 .. k BY <1>2, <1>4, <1>6
  <2>2. i \in DOMAIN open /\ l.block = open[i].id BY <2>1, <1>1, <1>3, <1>6
  <2>3. \E d \in open[i].labels : d.name = l.name /\ d.at = l.at
    BY <2>2 DEF CheckingOK, LabelsKnown
  <2> QED BY <2>1, <2>3, <1>3
<1>7. ASSUME NEW i \in 1 .. Len(open'), NEW h \in Visible(i)',
             NEW d \in open'[i].labels, NEW e \in open'[h].labels, d.name = e.name
      PROVE  d = e
  <2>1. i \in 1 .. k BY <1>2, <1>4, <1>7
  <2>2. h \in Visible(i) /\ h \in 1 .. k BY <2>1, <1>3, <1>7
  <2>3. i \in DOMAIN open /\ d \in open[i].labels /\ e \in open[h].labels
    BY <2>1, <2>2, <1>1, <1>3, <1>7
  <2> QED BY <2>2, <2>3, <1>7 DEF CheckingOK, LabelsKnown
<1> QED BY <1>1, <1>5, <1>6, <1>7 DEF LabelsKnown

(* A goto that waits in a block that stays open still does, and what a goto *)
(* says of the blocks around it stays so.                                   *)
LEMMA CarriedWaits ==
  ASSUME CheckingOK, Types', NEW k \in Nat, Carried(k),
         NEW i \in 1 .. k, NEW g \in Description, NEW j \in jumps, WaitsIn(i, g, j)
  PROVE  WaitsIn(i, g, j)'
<1>1. /\ k \in 1 .. k /\ \A h \in 1 .. k : h \in 1 .. Len(open) /\ h \in 1 .. Len(open')
      /\ size \in Nat
  BY CarriedTypes DEF CheckingOK
<1>2. \A h \in 1 .. Len(open') : h \in Nat /\ (h \in 1 .. k \/ (h = k + 1 /\ Fresh(open'[k + 1])))
  BY CarriedTypes DEF CheckingOK
<1>3. open'[i].id = open[i].id BY DEF Carried, SameBlock
<1>4. ASSUME NEW h \in i + 1 .. Len(open') PROVE open'[h].id \notin j.around
  <2>1. h \in 1 .. Len(open') BY <1>4
  <2>2. CASE h \in 1 .. k
    <3>1. h \in i + 1 .. Len(open) BY <2>2, <1>1, <1>4
    <3>2. open'[h].id = open[h].id BY <2>2 DEF Carried, SameBlock
    <3> QED BY <3>1, <3>2 DEF WaitsIn
  <2>3. CASE h = k + 1 /\ Fresh(open'[k + 1])
    <3>1. open'[h].id = size + 1 BY <2>3 DEF Fresh
    <3>2. j.around \subseteq 0 .. size BY DEF CheckingOK, Numbered
    <3> QED BY <3>1, <3>2, <1>1
  <2> QED BY <2>1, <2>2, <2>3, <1>2
<1>5. Outside(i)' = Outside(i) /\ open[i].own \subseteq open'[i].own BY Carry DEF CheckingOK
<1>6. g.nactvar <= Level(i)' /\ (g.nactvar = Level(i)' => open'[i].own \subseteq j.scope)
  <2>1. CASE i # k
    <3>1. Level(i)' = Level(i) /\ open'[i].own = open[i].own BY <2>1, Carry DEF CheckingOK
    <3> QED BY <3>1 DEF WaitsIn
  <2>2. CASE i = k
    <3>1. /\ Level(i)' \in Level(i) .. size' + 1
          /\ Level(i)' = Level(i) => open'[i].own = open[i].own
      BY <2>2 DEF Carried
    <3>2. Level(i) \in Nat
      <4>1. i \in DOMAIN open BY <1>1, CarriedTypes DEF CheckingOK
      <4>2. open[i].base \in Nat BY <4>1, <1>1, CarriedTypes DEF CheckingOK, BlockType
      <4>3. Level(i) \in open[i].base .. size + 1 BY <4>1 DEF CheckingOK, Nested
      <4> QED BY <4>2, <4>3, <1>1
    <3>3. g.nactvar \in Nat /\ size' \in Nat BY CarriedTypes DEF Description, CheckingOK
    <3>4. g.nactvar <= Level(i) /\ (g.nactvar = Level(i) => open[i].own \subseteq j.scope)
      BY DEF WaitsIn
    <3>5. \A v, w, x, z \in Nat : x <= v /\ w \in v .. z + 1 => x <= w /\ (x = w => x = v /\ w = v)
      OBVIOUS
    <3>6. Level(i)' \in Nat BY <3>1, <3>2, <3>3
    <3>7. g.nactvar <= Level(i)' /\ (g.nactvar = Level(i)' => g.nactvar = Level(i) /\ Level(i)' = Level(i))
      BY <3>1, <3>2, <3>3, <3>4, <3>5, <3>6
    <3> QED BY <3>1, <3>4, <3>7
  <2> QED BY <2>1, <2>2
<1> QED BY <1>3, <1>4, <1>5, <1>6 DEF WaitsIn

LEMMA CarriedAround ==
  ASSUME CheckingOK, Types', NEW k \in Nat, Carried(k),
         NEW j \in jumps, NEW i \in DOMAIN open', open'[i].id \in j.around
  PROVE  i \in 1 .. k /\ {a \in j.around : a <= open'[i].id} = Ids(i)'
<1>1. /\ DOMAIN open = 1 .. Len(open) /\ DOMAIN open' = 1 .. Len(open')
      /\ \A h \in 1 .. k : h \in 1 .. Len(open) /\ h \in 1 .. Len(open')
      /\ size \in Nat
  BY CarriedTypes DEF CheckingOK
<1>2. \A h \in 1 .. Len(open') : h \in 1 .. k \/ (h = k + 1 /\ Fresh(open'[k + 1]))
  BY CarriedTypes DEF CheckingOK
<1>3. j.around \subseteq 0 .. size BY DEF CheckingOK, Numbered
<1>4. i \in 1 .. k
  <2>1. ASSUME i = k + 1 /\ Fresh(open'[k + 1]) PROVE FALSE
    <3>1. open'[i].id = size + 1 BY <2>1 DEF Fresh
    <3> QED BY <3>1, <1>1, <1>3
  <2> QED BY <2>1, <1>1, <1>2
<1>5. open'[i].id = open[i].id /\ Ids(i)' = Ids(i) BY <1>4, Carry DEF CheckingOK, Carried, SameBlock
<1>6. {a \in j.around : a <= open[i].id} = Ids(i)
  BY <1>1, <1>4, <1>5 DEF CheckingOK, GotosWait
<1> QED BY <1>4, <1>5, <1>6

(* The loops around the statements of block i + 1. *)
LoopsAround(i) ==
  /\ Cardinality(LoopsIn(i)) \in Nat
  /\ open[i + 1].kind \in FunctionTops => Cardinality(LoopsIn(i + 1)) = 0
  /\ open[i + 1].kind \in Loops => Cardinality(LoopsIn(i + 1)) = Cardinality(LoopsIn(i)) + 1
  /\ open[i + 1].kind \notin Loops \cup FunctionTops =>
       Cardinality(LoopsIn(i + 1)) = Cardinality(LoopsIn(i))

LEMMA LoopsFacts == ASSUME NEW i \in Nat PROVE LoopsAround(i)
<1> USE DEF LoopsAround
<1>1. LoopsIn(i) \subseteq 1 .. i BY DEF LoopsIn, Visible
<1>2. IsFiniteSet(LoopsIn(i)) BY <1>1, FS_Interval, FS_Subset
<1>3. Cardinality(LoopsIn(i)) \in Nat BY <1>2, FS_CardinalityType
<1>4. \A k : k \in Loops => k \notin FunctionTops BY DEF Loops, FunctionTops
<1>5. CASE open[i + 1].kind \in FunctionTops
  <2>1. Visible(i + 1) = {i + 1} BY <1>5, VisibleFacts
  <2>2. LoopsIn(i + 1) = {} BY <2>1, <1>4, <1>5 DEF LoopsIn
  <2> QED BY <2>2, <1>3, <1>4, <1>5, FS_EmptySet
<1>6. CASE open[i + 1].kind \in Loops
  <2>1. Visible(i + 1) = {i + 1} \cup Visible(i) BY <1>4, <1>6, VisibleFacts
  <2>2. LoopsIn(i + 1) = LoopsIn(i) \cup {i + 1} BY <2>1, <1>6 DEF LoopsIn
  <2>3. i + 1 \notin LoopsIn(i) BY <1>1
  <2>4. Cardinality(LoopsIn(i + 1)) = Cardinality(LoopsIn(i)) + 1
    BY <2>2, <2>3, <1>2, FS_AddElement
  <2> QED BY <2>4, <1>3, <1>4, <1>6
<1>7. CASE open[i + 1].kind \notin Loops \cup FunctionTops
  <2>1. Visible(i + 1) = {i + 1} \cup Visible(i) BY <1>7, VisibleFacts
  <2>2. LoopsIn(i + 1) = LoopsIn(i) BY <2>1, <1>7 DEF LoopsIn
  <2> QED BY <2>2, <1>3, <1>7
<1> QED BY <1>5, <1>6, <1>7

LEMMA AllLoopsAround == \A i \in Nat : LoopsAround(i)
BY LoopsFacts

LEMMA CarriedLoops ==
  ASSUME CheckingOK, Types', NEW k \in Nat, Carried(k),
         Len(open') = k => loop_depth' = Cardinality(LoopsIn(k)),
         Len(open') = k + 1 =>
           /\ loop_depth' = Cardinality(LoopsIn(k + 1)')
           /\ open'[k + 1].kind \in FunctionTops =>
                open'[k + 1].saved_loop_depth = Cardinality(LoopsIn(k))
  PROVE  LoopsCounted'
<1>1. /\ DOMAIN open = 1 .. Len(open) /\ DOMAIN open' = 1 .. Len(open')
      /\ k \in 1 .. k /\ \A h \in 1 .. k : h \in 1 .. Len(open) /\ h \in 1 .. Len(open')
      /\ Len(open') = k \/ Len(open') = k + 1
  BY CarriedTypes DEF CheckingOK
<1>2. \A h \in 1 .. Len(open') : h \in 1 .. k \/ (h = k + 1 /\ Len(open') = k + 1)
  BY CarriedTypes DEF CheckingOK
<1>3. \A h \in 1 .. k : LoopsIn(h)' = LoopsIn(h) BY Carry DEF CheckingOK
<1>4. loop_depth' = Cardinality(LoopsIn(Len(open))')
  <2>1. CASE Len(open') = k
    <3>1. LoopsIn(Len(open))' = LoopsIn(k)' BY <2>1 DEF LoopsIn, Visible
    <3> QED BY <3>1, <2>1, <1>1, <1>3
  <2>2. CASE Len(open') = k + 1
    <3>1. LoopsIn(Len(open))' = LoopsIn(k + 1)' BY <2>2 DEF LoopsIn, Visible
    <3> QED BY <3>1, <2>2
  <2> QED BY <2>1, <2>2, <1>1
<1>5. ASSUME NEW i \in 1 .. Len(open'), i > 1, open'[i].kind \in FunctionTops
      PROVE  open'[i].saved_loop_depth = Cardinality(LoopsIn(i - 1)')
  <2>1. CASE i \in 1 .. k
    <3>1. open'[i].kind = open[i].kind /\ open'[i].saved_loop_depth = open[i].saved_loop_depth
      BY <2>1 DEF Carried, SameBlock
    <3>2. open[i].saved_loop_depth = Cardinality(LoopsIn(i - 1))
      BY <3>1, <2>1, <1>1, <1>5 DEF CheckingOK, LoopsCounted
    <3>3. i - 1 \in 1 .. k BY <2>1, <1>5
    <3> QED BY <3>1, <3>2, <3>3, <1>3
  <2>2. CASE i = k + 1 /\ Len(open') = k + 1
    <3>1. i - 1 = k BY <2>2
    <3>2. LoopsIn(i - 1)' = LoopsIn(k) BY <3>1, <1>1, <1>3
    <3> QED BY <3>2, <2>2, <1>5
  <2> QED BY <2>1, <2>2, <1>2
<1> QED BY <1>1, <1>4, <1>5 DEF LoopsCounted

(* A step that writes no label and resolves no goto: the gotos of the       *)
(* blocks that end are taken over by the block at k.                        *)
LEMMA CarriedOn ==
  ASSUME CheckingOK, Types', NEW k \in Nat, Carried(k),
         placed' = placed, jumps' = jumps,
         \A i \in 1 .. k : open'[i].labels = open[i].labels /\ open[i].pending \subseteq open'[i].pending,
         \A i \in 1 .. k : \A g \in open'[i].pending :
           g \in open[i].pending \/ \E j \in jumps : WaitsIn(i, g, j)',
         \A i \in DOMAIN open : \A g \in open[i].pending :
           i \in 1 .. k \/ \E h \in open'[k].pending : h.at = g.at,
         LoopsCounted'
  PROVE  CheckingOK'
<1>1. /\ DOMAIN open = 1 .. Len(open) /\ DOMAIN open' = 1 .. Len(open')
      /\ \A i \in 1 .. Len(open) : open[i] \in BlockType
      /\ k \in 1 .. k /\ \A h \in 1 .. k : h \in 1 .. Len(open) /\ h \in 1 .. Len(open')
      /\ size \in Nat /\ size' \in Nat /\ (size' = size \/ size' = size + 1)
  BY CarriedTypes DEF CheckingOK
<1>2. \A h \in 1 .. Len(open') : h \in 1 .. k \/ (h = k + 1 /\ Fresh(open'[k + 1]))
  BY CarriedTypes DEF CheckingOK
<1>3. Nested' BY CarriedBlocks
<1>4. Numbered'
  <2>1. /\ \A l \in placed : l.at \in 1 .. size /\ l.block <= size /\ l.block \in Nat
        /\ \A l, m \in placed : l.at = m.at => l = m
        /\ \A j \in jumps : j.at \in 1 .. size /\ j.target <= size /\ j.target \in Nat /\ j.around \subseteq 0 .. size
        /\ \A j, h \in jumps : j.at = h.at => j = h
    BY DEF CheckingOK, Numbered, Types
  <2>2. /\ \A l \in placed : l.at \in 1 .. size' /\ l.block <= size'
        /\ \A j \in jumps : j.at \in 1 .. size' /\ j.target <= size' /\ j.around \subseteq 0 .. size'
    BY <2>1, <1>1
  <2> QED BY <2>1, <2>2, CarriedBlocks DEF Numbered
<1>5. LabelsKnown' BY CarriedLabels
<1>6. \A j : Candidates(j)' = Candidates(j) BY DEF Candidates
<1>7. GotosWait'
  <2>1. ASSUME NEW i \in 1 .. Len(open'), NEW g \in open'[i].pending
        PROVE  \E j \in jumps : WaitsIn(i, g, j)'
    <3>1. i \in 1 .. k BY <2>1, <1>2 DEF Fresh
    <3>2. CASE g \in open[i].pending
      <4>1. i \in DOMAIN open /\ g \in Description BY <3>1, <3>2, <1>1 DEF BlockType
      <4>2. PICK j \in jumps : WaitsIn(i, g, j) BY <4>1, <3>2 DEF CheckingOK, GotosWait
      <4> QED BY <4>1, <4>2, <3>1, CarriedWaits
    <3> QED BY <3>1, <3>2, <2>1
  <2>2. ASSUME NEW j \in jumps, j.target = 0
        PROVE  /\ Candidates(j)' = {}
               /\ \E i \in 1 .. Len(open') : \E g \in open'[i].pending : g.at = j.at
    <3>1. PICK i \in DOMAIN open : \E g \in open[i].pending : g.at = j.at
      BY <2>2 DEF CheckingOK, GotosWait
    <3>2. PICK g \in open[i].pending : g.at = j.at BY <3>1
    <3>3. Candidates(j)' = {} BY <2>2, <1>6 DEF CheckingOK, GotosWait
    <3>4. CASE i \in 1 .. k
      <4>1. i \in 1 .. Len(open') /\ g \in open'[i].pending BY <3>4, <3>2, <1>1
      <4> QED BY <4>1, <3>2, <3>3
    <3>5. CASE i \notin 1 .. k
      <4>1. PICK h \in open'[k].pending : h.at = g.at BY <3>5, <3>2
      <4> QED BY <4>1, <3>2, <3>3, <1>1
    <3> QED BY <3>4, <3>5
  <2>3. ASSUME NEW j \in jumps, NEW i \in 1 .. Len(open'), open'[i].id \in j.around
        PROVE  {a \in j.around : a <= open'[i].id} = Ids(i)'
    BY <2>3, <1>1, CarriedAround
  <2> QED BY <2>1, <2>2, <2>3, <1>1 DEF GotosWait
<1>8. \A j \in jumps' : Resolved(j)' BY <1>6 DEF CheckingOK, Resolved
<1>9. \A l, m \in placed' : ~Clashing(l, m) BY DEF CheckingOK
<1>10. \A l, m : Clashing(l, m)' <=> Clashing(l, m) BY DEF Clashing
<1> QED BY <1>3, <1>4, <1>5, <1>7, <1>8, <1>9, <1>10 DEF CheckingOK

LEMMA SeqReplace ==
  ASSUME NEW T, NEW s \in Seq(T), NEW n \in Nat, Len(s) = n + 1, NEW b \in T,
         NEW r, r = [s EXCEPT ![Len(s)] = b]
  PROVE  r \in Seq(T) /\ Len(r) = n + 1 /\ r[n + 1] = b /\ \A i \in 1 .. n : r[i] = s[i]
<1>1. DOMAIN s = 1 .. n + 1 /\ \A i \in 1 .. n + 1 : s[i] \in T OBVIOUS
<1>2. r = [s EXCEPT ![n + 1] = b] OBVIOUS
<1>3. \A i \in 1 .. n : i # n + 1 /\ i \in 1 .. n + 1 OBVIOUS
<1>4. n + 1 \in 1 .. n + 1 OBVIOUS
<1>5. r \in [1 .. n + 1 -> T] BY <1>1, <1>2
<1>6. r \in Seq(T) /\ Len(r) = n + 1 BY <1>5, SeqDef, n + 1 \in Nat
<1> QED BY <1>1, <1>2, <1>3, <1>4, <1>6

LEMMA SeqPush ==
  ASSUME NEW T, NEW s \in Seq(T), NEW n \in Nat, Len(s) = n + 1, NEW b \in T, NEW c \in T,
         NEW r, r = Append([s EXCEPT ![Len(s)] = b], c)
  PROVE  /\ r \in Seq(T) /\ Len(r) = n + 2 /\ r[n + 2] = c /\ r[n + 1] = b
         /\ \A i \in 1 .. n : r[i] = s[i]
<1>1. PICK t : t = [s EXCEPT ![Len(s)] = b] OBVIOUS
<1>2. t \in Seq(T) /\ Len(t) = n + 1 /\ t[n + 1] = b /\ \A i \in 1 .. n : t[i] = s[i]
  BY <1>1, SeqReplace
<1>3. r = Append(t, c) BY <1>1
<1>4. r \in Seq(T) /\ Len(r) = n + 2 /\ r[n + 2] = c /\ \A i \in 1 .. n + 1 : r[i] = t[i]
  BY <1>2, <1>3
<1>5. n + 1 \in 1 .. n + 1 /\ \A i \in 1 .. n : i \in 1 .. n + 1 OBVIOUS
<1> QED BY <1>2, <1>4, <1>5

LEMMA SeqPop ==
  ASSUME NEW T, NEW s \in Seq(T), NEW n \in Nat, Len(s) = n + 1,
         NEW r, r = SubSeq(s, 1, Len(s) - 1)
  PROVE  r \in Seq(T) /\ Len(r) = n /\ \A i \in 1 .. n : r[i] = s[i]
<1>1. Len(s) - 1 = n OBVIOUS
<1>2. r = SubSeq(s, 1, n) BY <1>1
<1>3. \A i \in 1 .. n : i \in 1 .. n + 1 /\ s[i] \in T OBVIOUS
<1>4. r = [i \in 1 .. n |-> s[i]] BY <1>2
<1>5. r \in [1 .. n -> T] BY <1>3, <1>4
<1>6. r \in Seq(T) /\ Len(r) = n BY <1>5, SeqDef
<1> QED BY <1>4, <1>6

(* A statement that opens no block. *)
LEMMA TopReplaced ==
  ASSUME CheckingOK, Types', NEW n \in Nat, Len(open) = n + 1,
         NEW b \in BlockType, SameBlock(b, Top), ReplaceTop(b), size' \in {size, size + 1},
         nactvar' \in nactvar .. size' + 1, Top.own \subseteq b.own,
         nactvar' = nactvar => b.own = Top.own
  PROVE  /\ Carried(n + 1) /\ Len(open') = n + 1
         /\ open'[n + 1] = b /\ open[n + 1] = Top /\ \A i \in 1 .. n : open'[i] = open[i]
<1>1. open \in Seq(BlockType) BY DEF CheckingOK, Types
<1>2. Len(open') = n + 1 /\ open'[n + 1] = b /\ \A i \in 1 .. n : open'[i] = open[i]
  BY <1>1, SeqReplace DEF ReplaceTop
<1>3. open[n + 1] = Top BY DEF Top
<1>4. \A i \in 1 .. n + 1 : i \in 1 .. n \/ i = n + 1 OBVIOUS
<1>5. Level(n + 1) = nactvar /\ Level(n + 1)' = nactvar' BY <1>2 DEF Level
<1>6. \A i \in 1 .. n + 1 : SameBlock(open'[i], open[i]) BY <1>2, <1>3, <1>4 DEF SameBlock
<1>7. \A i \in 1 .. n + 1 : i # n + 1 => open'[i].own = open[i].own BY <1>2, <1>4
<1>8. n + 1 \in 1 .. Len(open) /\ Len(open') # n + 1 + 1 /\ Len(open') \in {n + 1, n + 1 + 1} BY <1>2
<1> QED BY <1>2, <1>3, <1>5, <1>6, <1>7, <1>8 DEF Carried

LEMMA TopStep ==
  ASSUME CheckingOK, Types', NEW b \in BlockType, SameBlock(b, Top), ReplaceTop(b),
         size' \in {size, size + 1}, nactvar' \in nactvar .. size' + 1, Top.own \subseteq b.own,
         nactvar' = nactvar => b.own = Top.own,
         b.labels = Top.labels, b.pending = Top.pending, UNCHANGED <<loop_depth, placed, jumps>>
  PROVE  CheckingOK'
<1>1. PICK n \in Nat : Len(open) = n + 1 BY OpenFacts DEF CheckingOK
<1>2. /\ Carried(n + 1) /\ Len(open') = n + 1
      /\ open'[n + 1] = b /\ open[n + 1] = Top /\ \A i \in 1 .. n : open'[i] = open[i]
  BY <1>1, TopReplaced
<1>3. \A i \in 1 .. n + 1 : i \in 1 .. n \/ i = n + 1 OBVIOUS
<1>4. \A i \in 1 .. n + 1 : open'[i].labels = open[i].labels /\ open'[i].pending = open[i].pending
  BY <1>2, <1>3
<1>5. loop_depth' = Cardinality(LoopsIn(n + 1)) BY <1>1 DEF CheckingOK, LoopsCounted
<1>6. n + 1 \in Nat /\ Len(open') # n + 1 + 1 BY <1>2
<1>7. LoopsCounted' BY <1>2, <1>5, <1>6, CarriedLoops
<1>8. DOMAIN open = 1 .. n + 1 BY <1>1, OpenFacts DEF CheckingOK
<1> QED BY <1>2, <1>4, <1>6, <1>7, <1>8, CarriedOn

(* A statement that opens a block. *)
LEMMA PushStep ==
  ASSUME CheckingOK, Types', NEW b \in BlockType, NEW c \in BlockType, SameBlock(b, Top),
         open' = Append([open EXCEPT ![Len(open)] = b], c), Fresh(c),
         NEW v, v = IF c.kind \in FunctionTops THEN c.saved_nactvar ELSE c.base,
         v \in nactvar .. size' + 1, Top.own \subseteq b.own, v = nactvar => b.own = Top.own,
         b.labels = Top.labels, b.pending = Top.pending, UNCHANGED <<placed, jumps>>,
         c.kind \in FunctionTops => loop_depth' = 0 /\ c.saved_loop_depth = loop_depth,
         c.kind \in Loops => loop_depth' = loop_depth + 1,
         c.kind \notin Loops \cup FunctionTops => loop_depth' = loop_depth
  PROVE  CheckingOK'
<1>1. PICK n \in Nat : Len(open) = n + 1 BY OpenFacts DEF CheckingOK
<1>2. open \in Seq(BlockType) BY DEF CheckingOK, Types
<1>3. /\ Len(open') = n + 2 /\ open'[n + 2] = c /\ open'[n + 1] = b
      /\ \A i \in 1 .. n : open'[i] = open[i]
  BY <1>1, <1>2, SeqPush
<1>4. open[n + 1] = Top BY <1>1 DEF Top
<1>5. \A i \in 1 .. n + 1 : i \in 1 .. n \/ i = n + 1 OBVIOUS
<1>6. n + 1 \in Nat /\ n + 1 \in 1 .. Len(open) /\ n + 1 + 1 = n + 2 /\ n + 1 # n + 2 BY <1>1
<1>7. Carried(n + 1)
  <2>1. Level(n + 1) = nactvar BY <1>1 DEF Level
  <2>2. Level(n + 1)' = v BY <1>3, <1>6 DEF Level
  <2>3. \A i \in 1 .. n + 1 : SameBlock(open'[i], open[i]) BY <1>3, <1>4, <1>5 DEF SameBlock
  <2>4. \A i \in 1 .. n + 1 : i # n + 1 => open'[i].own = open[i].own BY <1>3, <1>5
  <2>5. size' \in {size, size + 1} BY DEF Fresh
  <2> QED BY <2>1, <2>2, <2>3, <2>4, <2>5, <1>3, <1>4, <1>6 DEF Carried
<1>8. \A i \in 1 .. n + 1 : open'[i].labels = open[i].labels /\ open'[i].pending = open[i].pending
  BY <1>3, <1>4, <1>5
<1>9. LoopsCounted'
  <2>1. loop_depth = Cardinality(LoopsIn(n + 1)) BY <1>1 DEF CheckingOK, LoopsCounted
  <2>2. Cardinality(LoopsIn(n + 1)') = Cardinality(LoopsIn(n + 1))
    <3>1. n + 1 \in 1 .. n + 1 OBVIOUS
    <3>2. LoopsIn(n + 1)' = LoopsIn(n + 1) BY <3>1, <1>6, <1>7, Carry DEF CheckingOK
    <3> QED BY <3>2
  <2>3. (\A i \in Nat : LoopsAround(i))' BY AllLoopsAround, PTL
  <2>4. /\ c.kind \in FunctionTops => Cardinality(LoopsIn(n + 1 + 1)') = 0
        /\ c.kind \in Loops => Cardinality(LoopsIn(n + 1 + 1)') = Cardinality(LoopsIn(n + 1)') + 1
        /\ c.kind \notin Loops \cup FunctionTops =>
             Cardinality(LoopsIn(n + 1 + 1)') = Cardinality(LoopsIn(n + 1)')
    BY <2>3, <1>3, <1>6 DEF LoopsAround
  <2>5. loop_depth' = Cardinality(LoopsIn(n + 1 + 1)')
    BY <2>1, <2>2, <2>4, <1>3, <1>6
  <2>6. open'[n + 1 + 1].kind \in FunctionTops =>
          open'[n + 1 + 1].saved_loop_depth = Cardinality(LoopsIn(n + 1))
    BY <2>1, <1>3, <1>6
  <2>7. Len(open') = n + 1 + 1 /\ Len(open') # n + 1 BY <1>3, <1>6
  <2> QED BY <2>5, <2>6, <2>7, <1>6, <1>7, CarriedLoops
<1>10. DOMAIN open = 1 .. n + 1 BY <1>1, OpenFacts DEF CheckingOK
<1> QED BY <1>6, <1>7, <1>8, <1>9, <1>10, CarriedOn

-----------------------------------------------------------------------------
LEMMA Goes ==
  ASSUME CheckingOK', verdict' \in {"checking", "jump", "break"}
  PROVE  IInv'
<1>1. LabelErrorsExact' BY DEF CheckingOK, LabelErrorsExact
<1> QED BY <1>1 DEF CheckingOK, IInv

LEMMA Checking ==
  ASSUME IInv, verdict = "checking"
  PROVE  CheckingOK
BY DEF IInv, CheckingOK, LabelErrorsExact

(* What a statement adds to the numbers in use. *)
LEMMA StatementFacts ==
  ASSUME CheckingOK, Statement
  PROVE  /\ size \in Nat /\ size' = size + 1 /\ size' \in Nat /\ size' <= MaxSize
         /\ nactvar \in Nat /\ nactvar <= size + 1
         /\ Top \in BlockType
         /\ <<size', "local">> \in Locals /\ <<size', "for">> \in Locals /\ <<size', "param">> \in Locals
         /\ verdict = "checking"
<1>1. size \in Nat /\ size' = size + 1 /\ size < MaxSize /\ nactvar \in Nat /\ verdict = "checking"
  BY DEF CheckingOK, Types, Statement
<1>2. size' \in 1 .. MaxSize BY <1>1, SizeBound
<1>3. <<size', "local">> \in Locals /\ <<size', "for">> \in Locals /\ <<size', "param">> \in Locals
  BY <1>2 DEF Locals
<1>4. nactvar <= size + 1
  <2>1. PICK n \in Nat : Len(open) = n + 1 BY OpenFacts DEF CheckingOK
  <2>2. n + 1 \in DOMAIN open /\ open[n + 1] \in BlockType
    <3>1. \A i \in Nat : i + 1 \in 1 .. i + 1 OBVIOUS
    <3> QED BY <2>1, <3>1, OpenFacts DEF CheckingOK
  <2>3. Level(n + 1) = nactvar BY <2>1 DEF Level
  <2>4. Level(n + 1) \in open[n + 1].base .. size + 1 BY <2>2 DEF CheckingOK, Nested
  <2>5. open[n + 1].base \in Nat BY <2>2 DEF BlockType
  <2> QED BY <2>3, <2>4, <2>5, <1>1
<1>5. Top \in BlockType BY OpenFacts DEF CheckingOK
<1> QED BY <1>1, <1>2, <1>3, <1>4, <1>5

LEMMA ReplacedTypes ==
  ASSUME CheckingOK, NEW b \in BlockType, ReplaceTop(b)
  PROVE  open' \in Seq(BlockType) /\ open' # <<>>
<1>1. open \in Seq(BlockType) BY DEF CheckingOK, Types
<1>2. PICK n \in Nat : Len(open) = n + 1 BY OpenFacts DEF CheckingOK
<1>3. open' \in Seq(BlockType) /\ Len(open') = n + 1 BY <1>1, <1>2, SeqReplace DEF ReplaceTop
<1> QED BY <1>3

LEMMA PushedTypes ==
  ASSUME CheckingOK, NEW b \in BlockType, NEW c \in BlockType,
         open' = Append([open EXCEPT ![Len(open)] = b], c)
  PROVE  open' \in Seq(BlockType) /\ open' # <<>>
<1>1. open \in Seq(BlockType) BY DEF CheckingOK, Types
<1>2. PICK n \in Nat : Len(open) = n + 1 BY OpenFacts DEF CheckingOK
<1>3. open' \in Seq(BlockType) /\ Len(open') = n + 2 BY <1>1, <1>2, SeqPush
<1> QED BY <1>3

(* break, local and the statements without blocks. *)
LEMMA PlainStep ==
  ASSUME CheckingOK, BreakOut \/ DeclareLocal \/ Plain
  PROVE  IInv'
<1>1. Statement BY DEF BreakOut, DeclareLocal, Plain, Real
<1>2. /\ size \in Nat /\ size' = size + 1 /\ size' \in Nat /\ size' <= MaxSize
      /\ nactvar \in Nat /\ nactvar <= size + 1 /\ Top \in BlockType
      /\ <<size', "local">> \in Locals /\ verdict = "checking"
  BY <1>1, StatementFacts
<1>3. PICK b : b = IF DeclareLocal
                     THEN [Top EXCEPT !.tail = "free", !.own = @ \cup {<<size', "local">>}]
                     ELSE [Top EXCEPT !.tail = "free"]
  OBVIOUS
<1>4. ReplaceTop(b) BY <1>3 DEF BreakOut, DeclareLocal, Plain
<1>5. /\ b \in BlockType /\ SameBlock(b, Top) /\ b.labels = Top.labels /\ b.pending = Top.pending
      /\ Top.own \subseteq b.own /\ (~DeclareLocal => b.own = Top.own)
  BY <1>2, <1>3 DEF BlockType, SameBlock
<1>6. /\ nactvar' = IF DeclareLocal THEN nactvar + 1 ELSE nactvar
      /\ verdict' \in {"checking", "break"} /\ UNCHANGED <<loop_depth, placed, jumps>>
  BY <1>2 DEF BreakOut, DeclareLocal, Plain
<1>7. Types'
  <2>1. open' \in Seq(BlockType) /\ open' # <<>> BY <1>4, <1>5, ReplacedTypes
  <2>2. nactvar' \in Nat BY <1>2, <1>6
  <2>3. verdict' \in {"checking", "accepted", "duplicate", "jump", "break", "no label"} BY <1>6
  <2> QED BY <2>1, <2>2, <2>3, <1>2, <1>6 DEF CheckingOK, Types
<1>8. /\ nactvar' \in nactvar .. size' + 1 /\ (nactvar' = nactvar => b.own = Top.own)
      /\ size' \in {size, size + 1}
  BY <1>2, <1>5, <1>6
<1>9. CheckingOK' BY <1>4, <1>5, <1>6, <1>7, <1>8, TopStep
<1> QED BY <1>6, <1>9, Goes

(* The statements with a block inside. *)
LEMMA OpenStep ==
  ASSUME CheckingOK,
         (\E k \in {"do", "while", "repeat"} : OpenBlock(k)) \/ OpenFor \/ OpenFunction
  PROVE  IInv'
<1>1. Statement BY DEF OpenBlock, OpenFor, OpenFunction, Real
<1>2. /\ size \in Nat /\ size' = size + 1 /\ size' \in Nat /\ size' <= MaxSize
      /\ nactvar \in Nat /\ nactvar <= size + 1 /\ Top \in BlockType
      /\ <<size', "for">> \in Locals /\ <<size', "param">> \in Locals /\ verdict = "checking"
  BY <1>1, StatementFacts
<1>3. PICK b : b = [Top EXCEPT !.tail = "free"] OBVIOUS
<1>4. b \in BlockType /\ SameBlock(b, Top) /\ b.labels = Top.labels /\ b.pending = Top.pending /\ b.own = Top.own
  BY <1>2, <1>3 DEF BlockType, SameBlock
<1>5. loop_depth \in Nat /\ \A c : Entered(c) = Append([open EXCEPT ![Len(open)] = b], c)
  BY <1>3 DEF Entered, Top, CheckingOK, Types
<1>6. \E c \in BlockType :
        /\ open' = Entered(c) /\ Fresh(c) /\ loop_depth' \in Nat
        /\ (IF c.kind \in FunctionTops THEN c.saved_nactvar ELSE c.base) \in nactvar .. size' + 1
        /\ c.kind \in FunctionTops => loop_depth' = 0 /\ c.saved_loop_depth = loop_depth
        /\ c.kind \in Loops => loop_depth' = loop_depth + 1
        /\ c.kind \notin Loops \cup FunctionTops => loop_depth' = loop_depth
  <2>1. CASE \E k \in {"do", "while", "repeat"} : OpenBlock(k)
    <3>1. PICK k \in {"do", "while", "repeat"} : OpenBlock(k) BY <2>1
    <3>2. PICK c : c = Block(size', k, nactvar, {}) OBVIOUS
    <3>3. c \in BlockType /\ c.kind = k /\ c.base = nactvar /\ c.id = size' /\ c.labels = {} /\ c.pending = {}
      BY <3>1, <3>2, <1>2, <1>5 DEF Block, BlockType, Kinds, Loops
    <3>4. open' = Entered(c) /\ nactvar' = nactvar
          /\ loop_depth' = IF k \in Loops THEN loop_depth + 1 ELSE loop_depth
      BY <3>1, <3>2 DEF OpenBlock
    <3>5. k \notin FunctionTops /\ k # "chunk" BY DEF FunctionTops
    <3>6. Fresh(c) /\ nactvar \in nactvar .. size' + 1 BY <3>3, <3>4, <3>5, <1>2 DEF Fresh
    <3> QED BY <3>3, <3>4, <3>5, <3>6, <1>5
  <2>2. CASE OpenFor
    <3>2. PICK c : c = Block(size', "for", nactvar + 1, {<<size', "for">>}) OBVIOUS
    <3>3. /\ c \in BlockType /\ c.kind = "for" /\ c.base = nactvar + 1 /\ c.id = size'
          /\ c.labels = {} /\ c.pending = {}
      BY <3>2, <1>2, <1>5 DEF Block, BlockType, Kinds, Loops
    <3>4. open' = Entered(c) /\ nactvar' = nactvar + 1 /\ loop_depth' = loop_depth + 1
      BY <2>2, <3>2 DEF OpenFor
    <3>5. "for" \notin FunctionTops /\ "for" \in Loops BY DEF FunctionTops, Loops
    <3>6. Fresh(c) /\ nactvar + 1 \in nactvar .. size' + 1 BY <3>3, <3>4, <1>2 DEF Fresh
    <3> QED BY <3>3, <3>4, <3>5, <3>6, <1>5
  <2>3. CASE OpenFunction
    <3>2. PICK c : c = Block(size', "function", 1, {<<size', "param">>}) OBVIOUS
    <3>3. /\ c \in BlockType /\ c.kind = "function" /\ c.base = 1 /\ c.id = size'
          /\ c.labels = {} /\ c.pending = {} /\ c.saved_nactvar = nactvar /\ c.saved_loop_depth = loop_depth
      BY <3>2, <1>2, <1>5 DEF Block, BlockType, Kinds, FunctionTops
    <3>4. open' = Entered(c) /\ nactvar' = 1 /\ loop_depth' = 0 BY <2>3, <3>2 DEF OpenFunction
    <3>5. "function" \in FunctionTops /\ "function" \notin Loops BY DEF FunctionTops, Loops
    <3>6. Fresh(c) /\ nactvar \in nactvar .. size' + 1 BY <3>3, <3>4, <1>2 DEF Fresh
    <3> QED BY <3>3, <3>4, <3>5, <3>6
  <2> QED BY <2>1, <2>2, <2>3
<1>7. PICK c \in BlockType :
        /\ open' = Entered(c) /\ Fresh(c) /\ loop_depth' \in Nat
        /\ (IF c.kind \in FunctionTops THEN c.saved_nactvar ELSE c.base) \in nactvar .. size' + 1
        /\ c.kind \in FunctionTops => loop_depth' = 0 /\ c.saved_loop_depth = loop_depth
        /\ c.kind \in Loops => loop_depth' = loop_depth + 1
        /\ c.kind \notin Loops \cup FunctionTops => loop_depth' = loop_depth
  BY <1>6
<1>8. open' = Append([open EXCEPT ![Len(open)] = b], c) BY <1>5, <1>7
<1>9. verdict' = "checking" /\ UNCHANGED <<placed, jumps>> BY <1>2 DEF OpenBlock, OpenFor, OpenFunction
<1>10. nactvar' \in Nat BY <1>2 DEF OpenBlock, OpenFor, OpenFunction
<1>11. Types'
  <2>1. open' \in Seq(BlockType) /\ open' # <<>> BY <1>4, <1>7, <1>8, PushedTypes
  <2> QED BY <2>1, <1>2, <1>7, <1>9, <1>10 DEF CheckingOK, Types
<1>12. CheckingOK' BY <1>4, <1>7, <1>8, <1>9, <1>11, PushStep
<1> QED BY <1>9, <1>12, Goes

LEMMA OpenLocalFunctionStep ==
  ASSUME CheckingOK, OpenLocalFunction
  PROVE  IInv'
<1>1. Statement BY DEF OpenLocalFunction, Real
<1>2. /\ size \in Nat /\ size' = size + 1 /\ size' \in Nat /\ size' <= MaxSize
      /\ nactvar \in Nat /\ nactvar <= size + 1 /\ Top \in BlockType
      /\ <<size', "local">> \in Locals /\ <<size', "param">> \in Locals /\ verdict = "checking"
  BY <1>1, StatementFacts
<1>3. PICK b : b = [Top EXCEPT !.tail = "free", !.own = @ \cup {<<size', "local">>}] OBVIOUS
<1>4. /\ b \in BlockType /\ SameBlock(b, Top) /\ b.labels = Top.labels /\ b.pending = Top.pending
      /\ Top.own \subseteq b.own
  BY <1>2, <1>3 DEF BlockType, SameBlock
<1>5. loop_depth \in Nat BY DEF CheckingOK, Types
<1>6. PICK c : c = [Block(size', "function", 1, {<<size', "param">>}) EXCEPT !.saved_nactvar = nactvar + 1]
  OBVIOUS
<1>7. /\ c \in BlockType /\ c.kind = "function" /\ c.base = 1 /\ c.id = size'
      /\ c.labels = {} /\ c.pending = {} /\ c.saved_nactvar = nactvar + 1 /\ c.saved_loop_depth = loop_depth
  BY <1>6, <1>2, <1>5 DEF Block, BlockType, Kinds, FunctionTops
<1>8. open' = Append([open EXCEPT ![Len(open)] = b], c)
  <2>1. PICK n \in Nat : Len(open) = n + 1 BY OpenFacts DEF CheckingOK
  <2>2. [open EXCEPT ![Len(open)].tail = "free",
                     ![Len(open)].own = @ \cup {<<size', "local">>}] = [open EXCEPT ![Len(open)] = b]
    <3>1. Len(open) \in DOMAIN open BY OpenFacts DEF CheckingOK
    <3> QED BY <3>1, <1>3 DEF Top
  <2> QED BY <2>2, <1>6 DEF OpenLocalFunction
<1>9. "function" \in FunctionTops /\ "function" \notin Loops BY DEF FunctionTops, Loops
<1>10. nactvar' = 1 /\ loop_depth' = 0 /\ verdict' = "checking" /\ UNCHANGED <<placed, jumps>>
  BY <1>2 DEF OpenLocalFunction
<1>11. Types'
  <2>1. open' \in Seq(BlockType) /\ open' # <<>> BY <1>4, <1>7, <1>8, PushedTypes
  <2> QED BY <2>1, <1>2, <1>10 DEF CheckingOK, Types
<1>12. Fresh(c) BY <1>2, <1>7, <1>10 DEF Fresh
<1>13. PICK v : v = IF c.kind \in FunctionTops THEN c.saved_nactvar ELSE c.base OBVIOUS
<1>14. v = nactvar + 1 BY <1>13, <1>7, <1>9
<1>15. v \in nactvar .. size' + 1 /\ v # nactvar BY <1>14, <1>2
<1>16. CheckingOK'
  BY <1>4, <1>7, <1>8, <1>9, <1>10, <1>11, <1>12, <1>13, <1>15, PushStep
<1> QED BY <1>10, <1>16, Goes

-----------------------------------------------------------------------------
(* The end of a block: the gotos that wait in it have left its locals, and  *)
(* wait at the level it was entered at.                                     *)
LEMMA MigratesWell ==
  ASSUME CheckingOK, Types', NEW n \in Nat, Len(open) = n + 1, Len(open') = n, Carried(n),
         open[n + 1].kind \notin FunctionTops, nactvar' = Top.base, open'[n].own = open[n].own,
         NEW h \in Top.pending, NEW g, g = Migrate(h)
  PROVE  g \in Description /\ g.at = h.at /\ \E j \in jumps : WaitsIn(n, g, j)'
<1>1. /\ n >= 1 /\ n \in 1 .. n /\ DOMAIN open = 1 .. Len(open)
      /\ \A i \in 1 .. Len(open) : open[i] \in BlockType
  BY CarriedTypes DEF CheckingOK
<1>2. /\ n \in DOMAIN open /\ n + 1 \in DOMAIN open /\ open[n + 1] = Top
      /\ open[n] \in BlockType /\ Top \in BlockType
  BY <1>1 DEF Top
<1>3. h \in Description /\ Top.base \in Nat BY <1>2 DEF BlockType
<1>4. g \in Description /\ g.at = h.at /\ g.name = h.name /\ g.nactvar <= Top.base
  BY <1>3 DEF Migrate, Description
<1>5. PICK j \in jumps : WaitsIn(n + 1, h, j) BY <1>2 DEF CheckingOK, GotosWait
<1>6. Visible(n + 1) = {n + 1} \cup Visible(n) /\ Visible(n) \subseteq 1 .. n /\ n \in Visible(n)
  BY VisibleFacts, <1>1
<1>7. Outside(n) \subseteq Outside(n + 1) /\ open[n].own \subseteq Outside(n + 1)
  <2>1. n + 1 \notin Visible(n) /\ n # n + 1 BY <1>6
  <2> QED BY <2>1, <1>6 DEF Outside
<1>8. open[n].id \in j.around
  <2>1. {a \in j.around : a <= open[n + 1].id} = Ids(n + 1)
    BY <1>2, <1>5 DEF CheckingOK, GotosWait, WaitsIn
  <2>2. open[n].id \in Ids(n + 1) BY <1>6 DEF Ids
  <2> QED BY <2>1, <2>2
<1>9. open'[n].id = open[n].id /\ Outside(n)' = Outside(n)
  BY <1>1, Carry DEF CheckingOK, Carried, SameBlock
<1>10. Level(n)' = Top.base BY DEF Level
<1>11. \A k \in n + 1 .. Len(open') : open'[k].id \notin j.around BY <1>1
<1>12. WaitsIn(n, g, j)'
  <2>1. j.at = h.at /\ j.name = h.name /\ j.target = 0 /\ Outside(n + 1) \subseteq j.scope
    BY <1>5 DEF WaitsIn
  <2>2. Outside(n)' \subseteq j.scope /\ open'[n].own \subseteq j.scope BY <2>1, <1>7, <1>9
  <2> QED BY <2>1, <2>2, <1>4, <1>8, <1>9, <1>10, <1>11 DEF WaitsIn
<1> QED BY <1>4, <1>5, <1>12

LEMMA CloseBlockStep ==
  ASSUME CheckingOK, CloseBlock
  PROVE  IInv'
<1>1. PICK m \in Nat : Len(open) = m + 1 BY OpenFacts DEF CheckingOK
<1>2. /\ open \in Seq(BlockType) /\ DOMAIN open = 1 .. m + 1
      /\ \A i \in 1 .. m + 1 : open[i] \in BlockType
      /\ size \in Nat /\ nactvar \in Nat /\ loop_depth \in Nat
  BY <1>1, OpenFacts DEF CheckingOK, Types
<1>3. /\ verdict = "checking" /\ Top.kind \notin FunctionTops
      /\ nactvar' = Top.base /\ loop_depth' = LoopDepthAfter(Top.kind)
      /\ UNCHANGED <<verdict, size, placed, jumps>>
  BY DEF CloseBlock
<1>4. m + 1 \in 1 .. m + 1 /\ \A i \in 1 .. m : i \in 1 .. m + 1 /\ i # m + 1 OBVIOUS
<1>5. open[m + 1] = Top /\ Top \in BlockType BY <1>1, <1>2, <1>4 DEF Top
<1>6. PICK n \in Nat : m = n + 1
  <2>1. m # 0
    <3>1. open[m + 1].kind # "chunk" BY <1>3, <1>5 DEF FunctionTops
    <3> QED BY <3>1, <1>2, <1>4 DEF CheckingOK, Nested
  <2>2. m - 1 \in Nat /\ m = (m - 1) + 1 BY <2>1
  <2> QED BY <2>2
<1>7. PICK s : s = SubSeq(open, 1, Len(open) - 1) OBVIOUS
<1>8. s \in Seq(BlockType) /\ Len(s) = m /\ \A i \in 1 .. m : s[i] = open[i]
  BY <1>1, <1>2, <1>7, SeqPop
<1>9. PICK M : M = {Migrate(g) : g \in Top.pending} OBVIOUS
<1>10. \A g \in Top.pending : Migrate(g) \in Description /\ Migrate(g).at = g.at
  <2>1. Top.base \in Nat /\ \A g \in Top.pending : g \in Description BY <1>5 DEF BlockType
  <2> QED BY <2>1 DEF Migrate, Description
<1>11. m \in 1 .. m /\ \A i \in 1 .. n : i \in 1 .. m /\ i # m BY <1>6
<1>12. PICK b : b = [open[m] EXCEPT !.pending = @ \cup M] OBVIOUS
<1>13. /\ b \in BlockType /\ SameBlock(b, open[m]) /\ b.own = open[m].own /\ b.labels = open[m].labels
       /\ b.pending = open[m].pending \cup M
  <2>1. M \subseteq Description BY <1>9, <1>10
  <2>2. open[m] \in BlockType BY <1>2, <1>4, <1>11
  <2> QED BY <2>1, <2>2, <1>12 DEF BlockType, SameBlock
<1>14. open' \in Seq(BlockType) /\ Len(open') = m /\ open'[m] = b /\ \A i \in 1 .. n : open'[i] = open[i]
  <2>1. Len(open) - 1 = m BY <1>1
  <2>2. open' = [s EXCEPT ![m].pending = @ \cup M] BY <2>1, <1>7, <1>9 DEF CloseBlock
  <2>3. s[m] = open[m] BY <1>8, <1>11
  <2>4. open' = [s EXCEPT ![Len(s)] = b] BY <2>2, <2>3, <1>8, <1>12
  <2>5. open' \in Seq(BlockType) /\ Len(open') = n + 1 /\ open'[n + 1] = b /\ \A i \in 1 .. n : open'[i] = s[i]
    BY <2>4, <1>6, <1>8, <1>13, SeqReplace
  <2> QED BY <2>5, <1>6, <1>8, <1>11
<1>15. loop_depth' \in Nat /\ loop_depth' = Cardinality(LoopsIn(m))
  <2>1. loop_depth = Cardinality(LoopsIn(m + 1)) BY <1>1 DEF CheckingOK, LoopsCounted
  <2>2. LoopsAround(m) BY LoopsFacts
  <2>3. CASE Top.kind \in Loops
    <3>1. loop_depth = Cardinality(LoopsIn(m)) + 1 /\ Cardinality(LoopsIn(m)) \in Nat
      BY <2>1, <2>2, <2>3, <1>5 DEF LoopsAround
    <3> QED BY <3>1, <2>3, <1>3 DEF LoopDepthAfter
  <2>4. CASE Top.kind \notin Loops
    <3>1. loop_depth = Cardinality(LoopsIn(m)) BY <2>1, <2>2, <2>4, <1>3, <1>5 DEF LoopsAround
    <3> QED BY <3>1, <2>4, <1>2, <1>3 DEF LoopDepthAfter
  <2> QED BY <2>3, <2>4
<1>16. Types'
  <2>1. open' # <<>> BY <1>14, <1>6
  <2>2. Top.base \in Nat BY <1>5 DEF BlockType
  <2> QED BY <2>1, <2>2, <1>3, <1>14, <1>15 DEF CheckingOK, Types
<1>17. \A i \in 1 .. m : i \in 1 .. n \/ i = m BY <1>6
<1>18. Carried(m)
  <2>1. Level(m) = Top.base
    <3>1. m # m + 1 OBVIOUS
    <3> QED BY <3>1, <1>1, <1>3, <1>5 DEF Level
  <2>2. Level(m)' = Top.base BY <1>3, <1>14 DEF Level
  <2>3. Top.base \in Nat /\ Top.base <= size + 1
    BY <1>2, <1>4, <1>5 DEF CheckingOK, Numbered, BlockType
  <2>4. Level(m)' \in Level(m) .. size' + 1 BY <2>1, <2>2, <2>3, <1>2, <1>3
  <2>5. \A i \in 1 .. m : SameBlock(open'[i], open[i]) BY <1>13, <1>14, <1>17 DEF SameBlock
  <2>6. \A i \in 1 .. m : i # m => open'[i].own = open[i].own BY <1>14, <1>17
  <2>7. open'[m].own = open[m].own BY <1>13, <1>14
  <2>8. m \in 1 .. Len(open) /\ Len(open') # m + 1 BY <1>1, <1>11, <1>4, <1>14
  <2> QED BY <2>4, <2>5, <2>6, <2>7, <2>8, <1>3, <1>14 DEF Carried
<1>19. LoopsCounted'
  <2>1. Len(open') # m + 1 BY <1>14
  <2> QED BY <2>1, <1>14, <1>15, <1>16, <1>18, CarriedLoops
<1>20. \A i \in 1 .. m : open'[i].labels = open[i].labels /\ open[i].pending \subseteq open'[i].pending
  BY <1>13, <1>14, <1>17
<1>21. ASSUME NEW i \in 1 .. m, NEW g \in open'[i].pending, g \notin open[i].pending
       PROVE  \E j \in jumps : WaitsIn(i, g, j)'
  <2>1. i = m /\ g \in M BY <1>13, <1>14, <1>17, <1>21
  <2>2. PICK h \in Top.pending : g = Migrate(h) BY <2>1, <1>9
  <2>3. open'[m].own = open[m].own BY <1>13, <1>14
  <2>4. open[m + 1].kind \notin FunctionTops BY <1>3, <1>5
  <2>5. \E j \in jumps : WaitsIn(m, g, j)'
    BY <2>2, <2>3, <2>4, <1>1, <1>3, <1>14, <1>16, <1>18, MigratesWell
  <2> QED BY <2>1, <2>5
<1>22. ASSUME NEW i \in DOMAIN open, NEW g \in open[i].pending, i \notin 1 .. m
       PROVE  \E h \in open'[m].pending : h.at = g.at
  <2>1. i = m + 1
    <3>1. \A v \in 1 .. m + 1 : v \notin 1 .. m => v = m + 1 OBVIOUS
    <3> QED BY <3>1, <1>2, <1>22
  <2>2. Migrate(g) \in M /\ Migrate(g).at = g.at BY <2>1, <1>5, <1>9, <1>10
  <2> QED BY <2>2, <1>13, <1>14
<1>23. placed' = placed /\ jumps' = jumps /\ verdict' = "checking" BY <1>3
<1>24. CheckingOK' BY <1>16, <1>18, <1>19, <1>20, <1>21, <1>22, <1>23, CarriedOn
<1> QED BY <1>23, <1>24, Goes

(* The end of a function: the gotos that still wait have no label.          *)
LEMMA CloseFunctionStep ==
  ASSUME CheckingOK, CloseFunction
  PROVE  IInv'
<1>1. PICK n \in Nat : Len(open) = n + 1 BY OpenFacts DEF CheckingOK
<1>2. /\ open \in Seq(BlockType) /\ DOMAIN open = 1 .. n + 1
      /\ \A i \in 1 .. n + 1 : open[i] \in BlockType
      /\ size \in Nat /\ nactvar \in Nat /\ loop_depth \in Nat
  BY <1>1, OpenFacts DEF CheckingOK, Types
<1>3. /\ verdict = "checking" /\ Top.kind \in FunctionTops
      /\ verdict' = IF Top.pending # {} THEN "no label"
                    ELSE IF Top.kind = "chunk" THEN "accepted" ELSE verdict
      /\ open' = IF Len(open) > 1 THEN SubSeq(open, 1, Len(open) - 1) ELSE open
      /\ nactvar' = Top.saved_nactvar /\ loop_depth' = Top.saved_loop_depth
      /\ UNCHANGED <<size, placed, jumps>>
  BY DEF CloseFunction, CallerLoopDepth
<1>4. /\ n + 1 \in 1 .. n + 1
      /\ \A i \in 1 .. n : i \in 1 .. n + 1 /\ i # n + 1
      /\ \A i \in 1 .. n + 1 : i \notin 1 .. n => i = n + 1
  OBVIOUS
<1>5. open[n + 1] = Top /\ Top \in BlockType BY <1>1, <1>2, <1>4 DEF Top
<1>6. nactvar' \in Nat /\ loop_depth' \in Nat BY <1>3, <1>5 DEF BlockType
<1>7. n > 0 => open' \in Seq(BlockType) /\ Len(open') = n /\ \A i \in 1 .. n : open'[i] = open[i]
  <2>1. n > 0 => Len(open) > 1 BY <1>1
  <2>2. n > 0 => open' = SubSeq(open, 1, Len(open) - 1) BY <2>1, <1>3
  <2> QED BY <2>2, <1>1, <1>2, SeqPop
<1>8. n = 0 => open' = open
  <2>1. n = 0 => ~(Len(open) > 1) BY <1>1
  <2> QED BY <2>1, <1>3
<1>9. open' \in Seq(BlockType) /\ open' # <<>>
  <2>1. CASE n = 0 BY <2>1, <1>8 DEF CheckingOK, Types
  <2>2. CASE n > 0 BY <2>2, <1>7
  <2> QED BY <2>1, <2>2
<1>10. Top.kind = "chunk" <=> n = 0
  <2>1. open[n + 1].kind = "chunk" <=> n + 1 = 1 BY <1>2, <1>4 DEF CheckingOK, Nested
  <2> QED BY <2>1, <1>5
<1>11. /\ Top.pending # {} => verdict' = "no label"
       /\ Top.pending = {} /\ n = 0 => verdict' = "accepted"
       /\ Top.pending = {} /\ n # 0 => verdict' = "checking"
  <2>1. Top.pending # {} => verdict' = "no label" BY <1>3
  <2>2. Top.pending = {} /\ Top.kind = "chunk" => verdict' = "accepted" BY <1>3
  <2>3. Top.pending = {} /\ Top.kind # "chunk" => verdict' = "checking" BY <1>3
  <2> QED BY <2>1, <2>2, <2>3, <1>10
<1>12. Types' BY <1>3, <1>6, <1>9, <1>11 DEF CheckingOK, Types
<1>13. ASSUME n > 0
       PROVE  Carried(n) /\ LoopsCounted'
  <2>1. n \in 1 .. n /\ n # n + 1 /\ n \in 1 .. n + 1 BY <1>13
  <2>2. Level(n) = Top.saved_nactvar BY <2>1, <1>1, <1>3, <1>5 DEF Level
  <2>3. Level(n)' = Top.saved_nactvar BY <1>3, <1>7, <1>13 DEF Level
  <2>4. Level(n) \in open[n].base .. size + 1 BY <2>1, <1>2 DEF CheckingOK, Nested
  <2>5. open[n].base \in Nat BY <2>1, <1>2 DEF BlockType
  <2>6. Level(n)' \in Level(n) .. size' + 1
    <3>1. \A v, w, x \in Nat : \A z \in v .. w + 1 : x = w => z \in z .. x + 1 OBVIOUS
    <3>2. Level(n) \in Level(n) .. size' + 1 BY <3>1, <2>4, <2>5, <1>2, <1>3
    <3> QED BY <3>2, <2>2, <2>3
  <2>7. \A i \in 1 .. n : SameBlock(open'[i], open[i]) /\ open'[i].own = open[i].own
    BY <1>7, <1>13 DEF SameBlock
  <2>8. n \in 1 .. Len(open) /\ Len(open') # n + 1 BY <2>1, <1>1, <1>7, <1>13
  <2>9. Carried(n) BY <2>1, <2>6, <2>7, <2>8, <1>3, <1>7, <1>13 DEF Carried
  <2>10. loop_depth' = Cardinality(LoopsIn(n))
    <3>1. n + 1 \in DOMAIN open /\ n + 1 > 1 BY <1>2, <1>4, <1>13
    <3>2. open[n + 1].saved_loop_depth = Cardinality(LoopsIn((n + 1) - 1))
      BY <3>1, <1>3, <1>5 DEF CheckingOK, LoopsCounted
    <3>3. (n + 1) - 1 = n OBVIOUS
    <3> QED BY <3>2, <3>3, <1>3, <1>5
  <2> QED BY <2>8, <2>9, <2>10, <1>12, CarriedLoops
<1>14. Numbered'
  <2>1. CASE n = 0 BY <2>1, <1>3, <1>8 DEF CheckingOK, Numbered
  <2>2. CASE n > 0
    <3>1. /\ open'[1].kind = "chunk"
          /\ \A i \in DOMAIN open' : open'[i].id <= size' /\ open'[i].base <= size' + 1
          /\ \A i, k \in DOMAIN open' : i < k => open'[i].id < open'[k].id
      BY <2>2, <1>12, <1>13, CarriedBlocks
    <3> QED BY <3>1, <1>3 DEF CheckingOK, Numbered
  <2> QED BY <2>1, <2>2
<1>15. (\A l, m \in placed : ~Clashing(l, m))' BY <1>3 DEF CheckingOK, Clashing
<1>16. \A j : Candidates(j)' = Candidates(j) BY <1>3 DEF Candidates
<1>17. \A j \in jumps' : Resolved(j)' BY <1>3, <1>16 DEF CheckingOK, Resolved
<1>18. CASE Top.pending # {}
  <2>1. PICK g \in open[n + 1].pending : TRUE BY <1>5, <1>18
  <2>2. PICK j \in jumps : j.target = 0 BY <2>1, <1>2, <1>4 DEF CheckingOK, GotosWait, WaitsIn
  <2>3. Candidates(j)' = {} BY <2>2, <1>16 DEF CheckingOK, GotosWait
  <2>4. LabelErrorsExact' BY <2>2, <2>3, <1>3, <1>11, <1>15, <1>18 DEF LabelErrorsExact
  <2> QED BY <2>4, <1>11, <1>12, <1>14, <1>18 DEF IInv
<1>19. CASE Top.pending = {} /\ n = 0
  <2>1. LabelErrorsExact' BY <1>11, <1>15, <1>19 DEF LabelErrorsExact
  <2>2. ASSUME NEW j \in jumps', j.target = 0 PROVE FALSE
    <3>1. PICK i \in DOMAIN open : \E g \in open[i].pending : g.at = j.at
      BY <2>2, <1>3 DEF CheckingOK, GotosWait
    <3>2. i = n + 1 BY <3>1, <1>2, <1>19
    <3> QED BY <3>1, <3>2, <1>5, <1>19
  <2> QED BY <2>1, <2>2, <1>11, <1>12, <1>14, <1>17, <1>19 DEF IInv
<1>20. CASE Top.pending = {} /\ n # 0
  <2>1. n > 0 BY <1>20
  <2>2. \A i \in 1 .. n : open'[i] = open[i] BY <2>1, <1>7
  <2>3. ASSUME NEW i \in DOMAIN open, NEW g \in open[i].pending, i \notin 1 .. n PROVE FALSE
    <3>1. i = n + 1 BY <2>3, <1>2, <1>4
    <3> QED BY <3>1, <2>3, <1>5, <1>20
  <2>4. CheckingOK' BY <2>1, <2>2, <2>3, <1>3, <1>12, <1>13, CarriedOn
  <2> QED BY <2>4, <1>11, <1>20, Goes
<1> QED BY <1>18, <1>19, <1>20

-----------------------------------------------------------------------------
(* What is seen at the statement that comes next. *)
LEMMA SeenFacts ==
  ASSUME CheckingOK, NEW m \in Nat, Len(open) = m + 1
  PROVE  /\ InFunction = Visible(m + 1) /\ InFunction \subseteq 1 .. m + 1 /\ m + 1 \in InFunction
         /\ DOMAIN open = 1 .. m + 1 /\ open[m + 1] = Top /\ Top \in BlockType
         /\ \A i \in 1 .. m + 1 : open[i] \in BlockType
         /\ Around = Ids(m + 1) /\ Top.id \in Around
         /\ Scope = Outside(m + 1) \cup Top.own
         /\ \A i \in InFunction : Visible(i) \subseteq InFunction
         /\ \A i, k \in InFunction : k <= i => k \in Visible(i)
<1>1. /\ DOMAIN open = 1 .. m + 1 /\ open[m + 1] = Top /\ Top \in BlockType
      /\ \A i \in 1 .. m + 1 : open[i] \in BlockType /\ InFunction = Visible(m + 1)
  BY OpenFacts DEF CheckingOK
<1>2. InFunction = Visible(m + 1)
  <2>1. InFunction = Visible(Len(open)) BY OpenFacts DEF CheckingOK
  <2> QED BY <2>1 DEF Visible
<1>3. InFunction \subseteq 1 .. m + 1 /\ m + 1 \in InFunction BY <1>2 DEF Visible
<1>4. Around = Ids(m + 1) /\ Top.id \in Around BY <1>1, <1>2, <1>3 DEF Around, Ids
<1>5. Scope = Outside(m + 1) \cup Top.own BY <1>1, <1>2, <1>3 DEF Scope, Outside
<1>6. ASSUME NEW i \in InFunction, NEW k \in InFunction, k <= i
      PROVE  k \in Visible(i)
  <2>1. k \in 1 .. i /\ \A j \in k + 1 .. i : j \in k + 1 .. m + 1 BY <1>3, <1>6
  <2> QED BY <2>1, <1>2, <1>6 DEF Visible
<1>7. \A i \in InFunction : Visible(i) \subseteq InFunction
  <2>1. \A k \in Visible(m + 1) : Visible(k) \subseteq Visible(m + 1) BY VisibleFacts
  <2> QED BY <2>1, <1>2
<1> QED BY <1>1, <1>2, <1>3, <1>4, <1>5, <1>6, <1>7

LEMMA AroundFacts ==
  ASSUME CheckingOK
  PROVE  /\ Around \subseteq 0 .. size /\ Around \subseteq Nat /\ Scope \subseteq Locals
         /\ \A i \in DOMAIN open : open[i].id \in Around =>
              i \in InFunction /\ {a \in Around : a <= open[i].id} = Ids(i)
<1>1. PICK m \in Nat : Len(open) = m + 1 BY OpenFacts DEF CheckingOK
<1>2. /\ InFunction \subseteq 1 .. m + 1 /\ DOMAIN open = 1 .. m + 1
      /\ \A i \in 1 .. m + 1 : open[i] \in BlockType
      /\ \A i \in InFunction : Visible(i) \subseteq InFunction
      /\ \A i, k \in InFunction : k <= i => k \in Visible(i)
  BY <1>1, SeenFacts
<1>3. size \in Nat BY DEF CheckingOK, Types
<1>4. \A i \in InFunction : open[i].id \in Nat /\ open[i].id <= size /\ open[i].own \subseteq Locals
  BY <1>2 DEF CheckingOK, Numbered, BlockType
<1>5. \A i, k \in DOMAIN open : /\ open[i].id \in Nat /\ open[k].id \in Nat
                                /\ i < k => open[i].id < open[k].id
                                /\ i \in Nat /\ k \in Nat
  BY <1>2 DEF CheckingOK, Numbered, BlockType
<1>6. \A i, k \in DOMAIN open : open[i].id <= open[k].id <=> i <= k BY <1>5
<1>7. ASSUME NEW i \in DOMAIN open, open[i].id \in Around
      PROVE  i \in InFunction /\ {a \in Around : a <= open[i].id} = Ids(i)
  <2>1. PICK k \in InFunction : open[i].id = open[k].id BY <1>7 DEF Around
  <2>2. k \in DOMAIN open BY <1>2
  <2>3. i = k BY <2>1, <2>2, <1>5
  <2>4. i \in InFunction BY <2>3
  <2>5. ASSUME NEW a \in Around, a <= open[i].id PROVE a \in Ids(i)
    <3>1. PICK h \in InFunction : a = open[h].id BY <2>5 DEF Around
    <3>2. h <= i BY <3>1, <2>5, <1>2, <1>6
    <3> QED BY <3>1, <3>2, <2>4, <1>2 DEF Ids
  <2>6. ASSUME NEW a \in Ids(i) PROVE a \in Around /\ a <= open[i].id
    <3>1. PICK h \in Visible(i) : a = open[h].id BY <2>6 DEF Ids
    <3>2. h \in InFunction /\ h \in 1 .. i BY <3>1, <2>4, <1>2 DEF Visible
    <3>3. h \in DOMAIN open /\ h <= i BY <3>2, <1>2
    <3> QED BY <3>1, <3>2, <3>3, <1>6 DEF Around
  <2> QED BY <2>4, <2>5, <2>6
<1>8. Around \subseteq 0 .. size /\ Around \subseteq Nat BY <1>3, <1>4 DEF Around
<1>9. Scope \subseteq Locals BY <1>4 DEF Scope
<1> QED BY <1>7, <1>8, <1>9

LEMMA LabelSeen ==
  ASSUME CheckingOK, NEW l \in placed, l.block \in Around
  PROVE  \E d \in FindLabel(l.name) : d.at = l.at
<1>1. PICK m \in Nat : Len(open) = m + 1 BY OpenFacts DEF CheckingOK
<1>2. InFunction \subseteq 1 .. m + 1 /\ DOMAIN open = 1 .. m + 1 BY <1>1, SeenFacts
<1>3. PICK i \in InFunction : l.block = open[i].id BY DEF Around
<1>4. PICK d \in open[i].labels : d.name = l.name /\ d.at = l.at
  BY <1>2, <1>3 DEF CheckingOK, LabelsKnown
<1> QED BY <1>4 DEF FindLabel, VisibleLabels

LEMMA LabelFound ==
  ASSUME CheckingOK, NEW n, NEW d \in FindLabel(n)
  PROVE  /\ d.name = n
         /\ \E l \in placed : l.name = n /\ l.at = d.at /\ l.block \in Around /\ l.scope \subseteq Scope
         /\ \A e \in FindLabel(n) : e = d
<1>1. PICK m \in Nat : Len(open) = m + 1 BY OpenFacts DEF CheckingOK
<1>2. /\ InFunction \subseteq 1 .. m + 1 /\ DOMAIN open = 1 .. m + 1
      /\ \A i \in InFunction : Visible(i) \subseteq InFunction
      /\ \A i, k \in InFunction : k <= i => k \in Visible(i)
  BY <1>1, SeenFacts
<1>3. d.name = n /\ \E i \in InFunction : d \in open[i].labels BY DEF FindLabel, VisibleLabels
<1>4. PICK i \in InFunction : d \in open[i].labels BY <1>3
<1>5. PICK l \in placed : /\ l.name = d.name /\ l.at = d.at /\ l.block = open[i].id
                          /\ l.scope \subseteq Outside(i) \cup open[i].own
  BY <1>2, <1>4 DEF CheckingOK, LabelsKnown
<1>6. l.block \in Around BY <1>5 DEF Around
<1>7. Outside(i) \cup open[i].own \subseteq Scope BY <1>2 DEF Outside, Scope
<1>8. ASSUME NEW e \in FindLabel(n) PROVE e = d
  <2>1. PICK k \in InFunction : e \in open[k].labels /\ e.name = n
    BY DEF FindLabel, VisibleLabels
  <2>2. i \in DOMAIN open /\ k \in DOMAIN open /\ (k <= i \/ i <= k) BY <1>2
  <2>3. CASE k <= i
    <3>1. k \in Visible(i) BY <2>3, <1>2
    <3> QED BY <3>1, <2>1, <2>2, <1>3, <1>4 DEF CheckingOK, LabelsKnown
  <2>4. CASE i <= k
    <3>1. i \in Visible(k) BY <2>4, <1>2
    <3> QED BY <3>1, <2>1, <2>2, <1>3, <1>4 DEF CheckingOK, LabelsKnown
  <2> QED BY <2>2, <2>3, <2>4
<1> QED BY <1>3, <1>5, <1>6, <1>7, <1>8

-----------------------------------------------------------------------------
(* goto: resolved, it has the only label of its name around, and is in the  *)
(* scope of all that is in scope there; not resolved, it waits here.        *)
LEMMA JumpToStep ==
  ASSUME CheckingOK, NEW n \in Name, JumpTo(n)
  PROVE  IInv'
<1>1. Statement BY DEF JumpTo, Real
<1>2. /\ size \in Nat /\ size' = size + 1 /\ size' \in Nat /\ size' <= MaxSize
      /\ nactvar \in Nat /\ nactvar <= size + 1 /\ verdict = "checking"
  BY <1>1, StatementFacts
<1>3. PICK m \in Nat : Len(open) = m + 1 BY OpenFacts DEF CheckingOK
<1>4. PICK p \in Nat : p = m + 1 BY <1>3
<1>5. /\ InFunction \subseteq 1 .. p /\ p \in InFunction
      /\ DOMAIN open = 1 .. p /\ open[p] = Top /\ Top \in BlockType
      /\ \A i \in 1 .. p : open[i] \in BlockType
      /\ Around = Ids(p) /\ Top.id \in Around /\ Scope = Outside(p) \cup Top.own
  BY <1>3, <1>4, SeenFacts
<1>6. PICK here : here = [name |-> n, nactvar |-> nactvar, at |-> size'] OBVIOUS
<1>7. /\ here \in Description /\ here.name = n /\ here.at = size' /\ here.nactvar = nactvar
  BY <1>2, <1>6 DEF Description
<1>8. PICK target : target = FindLabel(n) OBVIOUS
<1>9. PICK t : t = IF target = {} THEN 0 ELSE (CHOOSE l \in target : TRUE).at OBVIOUS
<1>10. PICK new : new = [name |-> n, at |-> size', around |-> Around, scope |-> Scope, target |-> t] OBVIOUS
<1>11. /\ new.name = n /\ new.at = size' /\ new.around = Around /\ new.scope = Scope /\ new.target = t
  BY <1>10
<1>12. target # {} => \E l \in placed : /\ l.at = t /\ l.at \in 1 .. size /\ l \in Candidates(new)
                                        /\ l.scope \subseteq Scope
                                        /\ \A k \in Candidates(new) : k = l
  <2>1. SUFFICES ASSUME target # {}
                 PROVE  \E l \in placed : /\ l.at = t /\ l.at \in 1 .. size /\ l \in Candidates(new)
                                          /\ l.scope \subseteq Scope
                                          /\ \A k \in Candidates(new) : k = l
    OBVIOUS
  <2>2. PICK d \in FindLabel(n) : t = d.at BY <2>1, <1>8, <1>9
  <2>3. PICK l \in placed : l.name = n /\ l.at = d.at /\ l.block \in Around /\ l.scope \subseteq Scope
    BY LabelFound
  <2>4. l.at \in 1 .. size /\ l \in Candidates(new)
    BY <2>3, <1>11 DEF CheckingOK, Numbered, Candidates
  <2>5. ASSUME NEW k \in Candidates(new) PROVE k = l
    <3>1. k \in placed /\ k.name = n /\ k.block \in Around BY <2>5, <1>11 DEF Candidates
    <3>2. PICK e \in FindLabel(n) : e.at = k.at BY <3>1, LabelSeen
    <3>3. e = d BY LabelFound
    <3> QED BY <3>1, <3>2, <3>3, <2>3 DEF CheckingOK, Numbered
  <2> QED BY <2>2, <2>3, <2>4, <2>5
<1>13. target = {} => t = 0 /\ Candidates(new) = {}
  <2>1. ASSUME target = {}, NEW k \in Candidates(new) PROVE FALSE
    <3>1. k \in placed /\ k.name = n /\ k.block \in Around BY <2>1, <1>11 DEF Candidates
    <3> QED BY <3>1, <2>1, <1>8, LabelSeen
  <2> QED BY <2>1, <1>9
<1>14. t \in Nat /\ t <= size /\ (t = 0 => target = {})
  <2>1. CASE target = {} BY <2>1, <1>2, <1>13
  <2>2. CASE target # {}
    <3>1. PICK l \in placed : l.at = t /\ l.at \in 1 .. size BY <2>2, <1>12
    <3> QED BY <3>1, <2>2, <1>2
  <2> QED BY <2>1, <2>2
<1>15. PICK b : b = [Top EXCEPT !.tail = "free", !.pending = IF target = {} THEN @ \cup {here} ELSE @] OBVIOUS
<1>16. /\ b \in BlockType /\ SameBlock(b, Top) /\ b.own = Top.own /\ b.labels = Top.labels
       /\ b.pending = IF target = {} THEN Top.pending \cup {here} ELSE Top.pending
  BY <1>5, <1>7, <1>15 DEF BlockType, SameBlock
<1>17. /\ ReplaceTop(b) /\ jumps' = jumps \cup {new}
       /\ nactvar' = nactvar /\ loop_depth' = loop_depth /\ placed' = placed
       /\ verdict' \in {"checking", "jump"}
  <2>1. ReplaceTop(b) BY <1>6, <1>8, <1>15 DEF JumpTo
  <2>2. jumps' = jumps \cup {new} BY <1>8, <1>9, <1>10 DEF JumpTo
  <2> QED BY <2>1, <2>2, <1>2 DEF JumpTo
<1>18. Types'
  <2>1. open' \in Seq(BlockType) /\ open' # <<>> BY <1>16, <1>17, ReplacedTypes
  <2>2. new \in [name : Name, at : Nat, around : SUBSET Nat, scope : SUBSET Locals, target : Nat]
    BY <1>2, <1>10, <1>14, AroundFacts
  <2> QED BY <2>1, <2>2, <1>2, <1>17 DEF CheckingOK, Types
<1>19. /\ Carried(p) /\ Len(open') = p /\ open'[p] = b /\ \A i \in 1 .. m : open'[i] = open[i]
  <2>1. nactvar' \in nactvar .. size' + 1 /\ size' \in {size, size + 1} BY <1>2, <1>17
  <2> QED BY <2>1, <1>3, <1>4, <1>16, <1>17, <1>18, TopReplaced
<1>20. p \in 1 .. p /\ p # p + 1 /\ \A i \in 1 .. p : i \in 1 .. m \/ i = p BY <1>4
<1>21. LoopsCounted'
  <2>1. loop_depth' = Cardinality(LoopsIn(p)) BY <1>3, <1>4, <1>17 DEF CheckingOK, LoopsCounted
  <2>2. Len(open') # p + 1 BY <1>19, <1>20
  <2> QED BY <2>1, <2>2, <1>18, <1>19, CarriedLoops
<1>22. \A i \in 1 .. p : /\ open'[i].labels = open[i].labels /\ open[i].pending \subseteq open'[i].pending
                         /\ open'[i].id = open[i].id /\ open'[i].own = open[i].own
                         /\ \A g \in open'[i].pending : g \in open[i].pending \/ (i = p /\ g = here /\ target = {})
  BY <1>5, <1>16, <1>19, <1>20 DEF SameBlock
<1>23. LabelsKnown' BY <1>17, <1>18, <1>19, <1>22, CarriedLabels
<1>24. Nested' BY <1>18, <1>19, CarriedBlocks
<1>25. DOMAIN open' = 1 .. p
  <2>1. open' \in Seq(BlockType) BY <1>18 DEF Types
  <2> QED BY <2>1, <1>19
<1>26. Numbered'
  <2>1. /\ \A l \in placed : l.at \in 1 .. size' /\ l.block <= size'
        /\ \A l, k \in placed : l.at = k.at => l = k
    <3>1. /\ \A l \in placed : l.at \in 1 .. size /\ l.block <= size /\ l.block \in Nat
          /\ \A l, k \in placed : l.at = k.at => l = k
      BY DEF CheckingOK, Numbered, Types
    <3> QED BY <3>1, <1>2
  <2>2. \A j \in jumps : j.at \in 1 .. size /\ j.target <= size /\ j.target \in Nat /\ j.around \subseteq 0 .. size
    BY DEF CheckingOK, Numbered, Types
  <2>3. \A j \in jumps : j.at \in 1 .. size' /\ j.target <= size' /\ j.around \subseteq 0 .. size' /\ j.at # size'
    BY <2>2, <1>2
  <2>4. new.at \in 1 .. size' /\ new.target <= size' /\ new.around \subseteq 0 .. size'
    <3>1. Around \subseteq 0 .. size BY AroundFacts
    <3> QED BY <3>1, <1>2, <1>11, <1>14
  <2>5. \A j, h \in jumps' : j.at = h.at => j = h
    BY <2>3, <1>11, <1>17 DEF CheckingOK, Numbered
  <2>6. /\ open'[1].kind = "chunk"
        /\ \A i \in DOMAIN open' : open'[i].id <= size' /\ open'[i].base <= size' + 1
        /\ \A i, k \in DOMAIN open' : i < k => open'[i].id < open'[k].id
    BY <1>18, <1>19, CarriedBlocks
  <2> QED BY <2>1, <2>3, <2>4, <2>5, <2>6, <1>17 DEF Numbered
<1>27. \A j : Candidates(j)' = Candidates(j) BY <1>17 DEF Candidates
<1>28. GotosWait'
  <2>1. ASSUME NEW i \in 1 .. p, NEW g \in open'[i].pending
        PROVE  \E j \in jumps' : WaitsIn(i, g, j)'
    <3>1. CASE g \in open[i].pending
      <4>1. g \in Description BY <3>1, <1>5 DEF BlockType
      <4>2. PICK j \in jumps : WaitsIn(i, g, j) BY <3>1, <1>5 DEF CheckingOK, GotosWait
      <4>3. WaitsIn(i, g, j)' BY <4>1, <4>2, <1>18, <1>19, CarriedWaits
      <4> QED BY <4>3, <1>17
    <3>2. CASE i = p /\ g = here /\ target = {}
      <4>1. open'[p].id \in new.around BY <1>5, <1>11, <1>20, <1>22
      <4>2. Outside(p)' = Outside(p) BY <1>18, <1>19, <1>20, Carry DEF CheckingOK
      <4>3. Outside(p)' \subseteq new.scope /\ open'[p].own \subseteq new.scope
        BY <4>2, <1>5, <1>11, <1>20, <1>22
      <4>4. Level(p)' = nactvar BY <1>17, <1>19 DEF Level
      <4>5. \A k \in p + 1 .. Len(open') : open'[k].id \notin new.around BY <1>19
      <4>6. WaitsIn(p, here, new)'
        BY <4>1, <4>3, <4>4, <4>5, <3>2, <1>2, <1>7, <1>11, <1>13 DEF WaitsIn
      <4> QED BY <4>6, <3>2, <1>17
    <3> QED BY <3>1, <3>2, <2>1, <1>22
  <2>2. ASSUME NEW j \in jumps', j.target = 0
        PROVE  /\ Candidates(j)' = {}
               /\ \E i \in 1 .. p : \E g \in open'[i].pending : g.at = j.at
    <3>1. CASE j \in jumps
      <4>1. PICK i \in 1 .. p : \E g \in open[i].pending : g.at = j.at
        BY <2>2, <3>1, <1>5 DEF CheckingOK, GotosWait
      <4>2. Candidates(j) = {} BY <2>2, <3>1 DEF CheckingOK, GotosWait
      <4> QED BY <4>1, <4>2, <1>22, <1>27
    <3>2. CASE j = new
      <4>1. target = {} BY <2>2, <3>2, <1>11, <1>14
      <4>2. here \in open'[p].pending /\ here.at = j.at BY <4>1, <3>2, <1>7, <1>11, <1>16, <1>19
      <4> QED BY <4>1, <4>2, <3>2, <1>13, <1>20, <1>27
    <3> QED BY <3>1, <3>2, <2>2, <1>17
  <2>3. ASSUME NEW j \in jumps', NEW i \in 1 .. p, open'[i].id \in j.around
        PROVE  {a \in j.around : a <= open'[i].id} = Ids(i)'
    <3>1. CASE j \in jumps BY <3>1, <2>3, <1>18, <1>19, <1>25, CarriedAround
    <3>2. CASE j = new
      <4>1. i \in DOMAIN open /\ open'[i].id = open[i].id BY <1>5, <1>22
      <4>2. {a \in Around : a <= open[i].id} = Ids(i) BY <4>1, <3>2, <2>3, <1>11, AroundFacts
      <4>3. Ids(i)' = Ids(i) BY <1>18, <1>19, Carry DEF CheckingOK
      <4> QED BY <4>1, <4>2, <4>3, <3>2, <1>11
    <3> QED BY <3>1, <3>2, <2>3, <1>17
  <2> QED BY <2>1, <2>2, <2>3, <1>25 DEF GotosWait
<1>29. ASSUME NEW j \in jumps' PROVE Resolved(j)'
  <2>1. CASE j \in jumps BY <2>1, <1>27 DEF CheckingOK, Resolved
  <2>2. CASE j = new /\ j.target # 0
    <3>1. target # {} BY <2>2, <1>11, <1>13
    <3>2. PICK l \in Candidates(new) :
            l.at = t /\ l.scope \subseteq Scope /\ \A k \in Candidates(new) : k = l
      BY <3>1, <1>12
    <3> QED BY <3>2, <2>2, <1>11, <1>27 DEF Resolved
  <2>3. CASE j = new /\ j.target = 0 BY <2>3 DEF Resolved
  <2> QED BY <2>1, <2>2, <2>3, <1>17, <1>29
<1>30. (\A l, k \in placed : ~Clashing(l, k))' BY <1>17 DEF CheckingOK, Clashing
<1>31. CheckingOK'
  BY <1>18, <1>21, <1>23, <1>24, <1>26, <1>28, <1>29, <1>30 DEF CheckingOK
<1> QED BY <1>17, <1>31, Goes

-----------------------------------------------------------------------------
(* The label that a statement ::n:: adds to the program. *)
NewLabel(n, at_end) ==
  [name |-> n, at |-> size', block |-> Top.id, around |-> Around,
   scope |-> IF at_end THEN Scope \ Top.own ELSE Scope]

LEMMA NewLabelFacts ==
  ASSUME CheckingOK, NEW n \in Name, NEW at_end \in BOOLEAN, PlaceLabel(n, at_end),
         NEW lab, lab = NewLabel(n, at_end)
  PROVE  /\ placed' = placed \cup {lab} /\ nactvar' = nactvar /\ loop_depth' = loop_depth
         /\ lab.name = n /\ lab.at = size' /\ lab.block = Top.id /\ lab.around = Around
         /\ lab.scope = IF at_end THEN Scope \ Top.own ELSE Scope
         /\ lab \in [name : Name, at : Nat, block : Nat, around : SUBSET Nat, scope : SUBSET Locals]
         /\ \A l \in placed' : l.at \in 1 .. size' /\ l.block <= size'
         /\ \A l, k \in placed' : l.at = k.at => l = k
         /\ \A j \in jumps : /\ j.at \in 1 .. size' /\ j.target <= size' /\ j.around \subseteq 0 .. size'
                             /\ j.at \in Nat
         /\ FindLabel(n) = {} => ~\E l, k \in placed' : Clashing(l, k)
         /\ FindLabel(n) # {} => \E l, k \in placed' : Clashing(l, k)
<1>1. Statement BY DEF PlaceLabel
<1>2. size \in Nat /\ size' = size + 1 /\ size' \in Nat BY <1>1, StatementFacts
<1>3. placed' = placed \cup {lab} /\ nactvar' = nactvar /\ loop_depth' = loop_depth
  BY DEF PlaceLabel, NewLabel
<1>4. /\ lab.name = n /\ lab.at = size' /\ lab.block = Top.id /\ lab.around = Around
      /\ lab.scope = IF at_end THEN Scope \ Top.own ELSE Scope
  BY DEF NewLabel
<1>5. PICK m \in Nat : Len(open) = m + 1 BY OpenFacts DEF CheckingOK
<1>6. /\ m + 1 \in DOMAIN open /\ Top = open[m + 1] /\ Top \in BlockType
  <2>1. DOMAIN open = 1 .. m + 1 /\ m + 1 \in 1 .. m + 1 BY <1>5, SeenFacts
  <2> QED BY <2>1, <1>5, SeenFacts
<1>7. Top.id \in Nat /\ Top.id <= size BY <1>6 DEF CheckingOK, Numbered, BlockType
<1>8. Around \subseteq Nat /\ Scope \subseteq Locals BY AroundFacts
<1>9. lab \in [name : Name, at : Nat, block : Nat, around : SUBSET Nat, scope : SUBSET Locals]
  BY <1>2, <1>7, <1>8 DEF NewLabel
<1>10. /\ \A l \in placed : l.at \in 1 .. size /\ l.block <= size /\ l.block \in Nat
       /\ \A l, k \in placed : l.at = k.at => l = k
       /\ \A j \in jumps : /\ j.at \in 1 .. size /\ j.target <= size /\ j.target \in Nat
                           /\ j.around \subseteq 0 .. size
  BY DEF CheckingOK, Numbered, Types
<1>11. \A l \in placed : l.at \in 1 .. size' /\ l.block <= size' /\ l.at # size' /\ l.at < size'
  BY <1>2, <1>10
<1>12. lab.at \in 1 .. size' /\ lab.block <= size' BY <1>2, <1>4, <1>7
<1>13. \A l, k \in placed' : l.at = k.at => l = k BY <1>3, <1>4, <1>10, <1>11
<1>14. \A j \in jumps : /\ j.at \in 1 .. size' /\ j.target <= size' /\ j.around \subseteq 0 .. size'
                        /\ j.at \in Nat
  BY <1>2, <1>10
<1>15. ASSUME FindLabel(n) = {}, NEW l \in placed', NEW k \in placed', Clashing(l, k) PROVE FALSE
  <2>1. /\ l.at # k.at /\ l.name = k.name /\ l.block \in k.around /\ l.at < k.at BY <1>15 DEF Clashing
  <2>2. k \notin placed \/ l \notin placed BY <1>15 DEF CheckingOK
  <2>3. CASE k = lab
    <3>1. l \in placed BY <2>1, <2>3, <1>3
    <3>2. l.name = n /\ l.block \in Around BY <2>1, <2>3, <1>4
    <3> QED BY <3>1, <3>2, <1>15, LabelSeen
  <2>4. CASE l = lab /\ k \in placed
    <3>1. size' < k.at /\ k.at \in 1 .. size' BY <2>1, <2>4, <1>4, <1>11
    <3> QED BY <3>1, <1>2
  <2> QED BY <2>2, <2>3, <2>4, <1>3
<1>16. ASSUME FindLabel(n) # {} PROVE \E l, k \in placed' : Clashing(l, k)
  <2>1. PICK d \in FindLabel(n) : TRUE BY <1>16
  <2>2. PICK l \in placed : l.name = n /\ l.block \in Around BY LabelFound
  <2>3. Clashing(l, lab) BY <2>2, <1>4, <1>11 DEF Clashing
  <2> QED BY <2>2, <2>3, <1>3
<1> QED BY <1>3, <1>4, <1>9, <1>11, <1>12, <1>13, <1>14, <1>15, <1>16

(* A second label of a name that is visible. *)
LEMMA DuplicateStep ==
  ASSUME CheckingOK, NEW n \in Name, NEW at_end \in BOOLEAN, PlaceLabel(n, at_end),
         FindLabel(n) # {}
  PROVE  IInv'
<1>1. Statement BY DEF PlaceLabel
<1>2. size \in Nat /\ size' = size + 1 /\ size' \in Nat /\ size' <= MaxSize BY <1>1, StatementFacts
<1>3. verdict' = "duplicate" /\ open' = open /\ jumps' = jumps BY DEF PlaceLabel
<1>4. PICK lab : lab = NewLabel(n, at_end) OBVIOUS
<1>5. /\ placed' = placed \cup {lab} /\ nactvar' = nactvar /\ loop_depth' = loop_depth
      /\ lab \in [name : Name, at : Nat, block : Nat, around : SUBSET Nat, scope : SUBSET Locals]
      /\ \A l \in placed' : l.at \in 1 .. size' /\ l.block <= size'
      /\ \A l, k \in placed' : l.at = k.at => l = k
      /\ \A j \in jumps : j.at \in 1 .. size' /\ j.target <= size' /\ j.around \subseteq 0 .. size'
      /\ \E l, k \in placed' : Clashing(l, k)
  BY <1>4, NewLabelFacts
<1>6. Types' BY <1>2, <1>3, <1>5 DEF CheckingOK, Types
<1>7. Numbered'
  <2>1. \A i \in DOMAIN open : /\ open[i].id <= size /\ open[i].base <= size + 1
                               /\ open[i].id \in Nat /\ open[i].base \in Nat
    BY OpenFacts DEF CheckingOK, Numbered, BlockType
  <2>2. \A i \in DOMAIN open : open[i].id <= size' /\ open[i].base <= size' + 1 BY <2>1, <1>2
  <2> QED BY <2>2, <1>3, <1>5 DEF CheckingOK, Numbered
<1>8. LabelErrorsExact'
  <2>1. (\E l, k \in placed : Clashing(l, k))' BY <1>5 DEF Clashing
  <2> QED BY <2>1, <1>3 DEF LabelErrorsExact
<1> QED BY <1>3, <1>6, <1>7, <1>8 DEF IInv

(* A goto that a label resolves, or leaves as it is. *)
LEMMA LandedFacts ==
  ASSUME CheckingOK, NEW resolved, NEW s \in Nat, NEW j \in Landed(jumps, resolved, s)
  PROVE  \E h \in jumps : /\ j.at = h.at /\ j.name = h.name /\ j.around = h.around /\ j.scope = h.scope
                          /\ h.at \in resolved => j.target = s
                          /\ h.at \notin resolved => j = h
                          /\ j \in [name : Name, at : Nat, around : SUBSET Nat, scope : SUBSET Locals, target : Nat]
<1>1. PICK h \in jumps : j = IF h.at \in resolved THEN [h EXCEPT !.target = s] ELSE h BY DEF Landed
<1>2. h \in [name : Name, at : Nat, around : SUBSET Nat, scope : SUBSET Locals, target : Nat]
  BY DEF CheckingOK, Types
<1> QED BY <1>1, <1>2

(* A label of a new name: the gotos of its block that wait for it and are   *)
(* not before the declaration of a local that it sees land there.  Those    *)
(* that are resolved keep their labels, which are nearer.                   *)
LEMMA LabelStep ==
  ASSUME CheckingOK, NEW n \in Name, NEW at_end \in BOOLEAN, PlaceLabel(n, at_end),
         FindLabel(n) = {}
  PROVE  IInv'
<1>1. Statement BY DEF PlaceLabel
<1>2. /\ size \in Nat /\ size' = size + 1 /\ size' \in Nat /\ size' <= MaxSize /\ size' # 0
      /\ nactvar \in Nat /\ nactvar <= size + 1 /\ verdict = "checking"
  BY <1>1, StatementFacts
<1>3. PICK m \in Nat : Len(open) = m + 1 BY OpenFacts DEF CheckingOK
<1>4. PICK p \in Nat : p = m + 1 BY <1>3
<1>5. /\ InFunction \subseteq 1 .. p /\ p \in InFunction /\ InFunction = Visible(p)
      /\ DOMAIN open = 1 .. p /\ open[p] = Top /\ Top \in BlockType
      /\ \A i \in 1 .. p : open[i] \in BlockType
      /\ Around = Ids(p) /\ Top.id \in Around /\ Scope = Outside(p) \cup Top.own
  BY <1>3, <1>4, SeenFacts
<1>6. PICK lab : lab = NewLabel(n, at_end) OBVIOUS
<1>7. /\ placed' = placed \cup {lab} /\ nactvar' = nactvar /\ loop_depth' = loop_depth
      /\ lab.name = n /\ lab.at = size' /\ lab.block = Top.id /\ lab.around = Around
      /\ lab.scope = IF at_end THEN Scope \ Top.own ELSE Scope
      /\ lab \in [name : Name, at : Nat, block : Nat, around : SUBSET Nat, scope : SUBSET Locals]
      /\ \A l \in placed' : l.at \in 1 .. size' /\ l.block <= size'
      /\ \A l, k \in placed' : l.at = k.at => l = k
      /\ \A j \in jumps : /\ j.at \in 1 .. size' /\ j.target <= size' /\ j.around \subseteq 0 .. size'
                          /\ j.at \in Nat
      /\ ~\E l, k \in placed' : Clashing(l, k)
  <2>1. /\ placed' = placed \cup {lab} /\ nactvar' = nactvar /\ loop_depth' = loop_depth
        /\ lab.name = n /\ lab.at = size' /\ lab.block = Top.id /\ lab.around = Around
        /\ lab.scope = IF at_end THEN Scope \ Top.own ELSE Scope
    BY <1>6 DEF NewLabel, PlaceLabel
  <2>2. /\ lab \in [name : Name, at : Nat, block : Nat, around : SUBSET Nat, scope : SUBSET Locals]
        /\ \A l \in placed' : l.at \in 1 .. size' /\ l.block <= size'
        /\ \A l, k \in placed' : l.at = k.at => l = k
    BY <1>6, NewLabelFacts
  <2>3. \A j \in jumps : /\ j.at \in 1 .. size' /\ j.target <= size' /\ j.around \subseteq 0 .. size'
                         /\ j.at \in Nat
    BY <1>6, NewLabelFacts
  <2>4. ~\E l, k \in placed' : Clashing(l, k) BY <1>6, NewLabelFacts
  <2> QED BY <2>1, <2>2, <2>3, <2>4
<1>8. PICK here : here = [name |-> n, nactvar |-> LabelDepth(at_end), at |-> size'] OBVIOUS
<1>9. /\ here \in Description /\ here.name = n /\ here.at = size' /\ here.nactvar = LabelDepth(at_end)
  <2>1. LabelDepth(at_end) \in Nat BY <1>2, <1>5 DEF LabelDepth, BlockType
  <2> QED BY <2>1, <1>2, <1>8 DEF Description
<1>10. PICK waiting : waiting = {g \in Top.pending : g.name = n} OBVIOUS
<1>11. PICK resolved : resolved = {g.at : g \in waiting} OBVIOUS
<1>12. PICK tail : tail = CASE Top.kind = "repeat" -> "free" [] at_end -> "void" [] OTHER -> "due" OBVIOUS
<1>13. tail \in {"free", "void", "due"} BY <1>12
<1>14. PICK b : b = [Top EXCEPT !.labels = @ \cup {here}, !.pending = @ \ waiting, !.tail = tail] OBVIOUS
<1>15. /\ b \in BlockType /\ SameBlock(b, Top) /\ b.own = Top.own
       /\ b.labels = Top.labels \cup {here} /\ b.pending = Top.pending \ waiting
  BY <1>5, <1>9, <1>13, <1>14 DEF BlockType, SameBlock
<1>16. /\ ReplaceTop(b) /\ jumps' = Landed(jumps, resolved, size')
       /\ verdict' = IF \E g \in waiting : JumpsIn(g, here) THEN "jump" ELSE "checking"
  <2>1. ReplaceTop(b) BY <1>8, <1>10, <1>12, <1>14 DEF PlaceLabel
  <2>2. jumps' = Landed(jumps, resolved, size') BY <1>10, <1>11 DEF PlaceLabel
  <2>3. verdict' = IF \E g \in waiting : JumpsIn(g, here) THEN "jump" ELSE "checking"
    BY <1>2, <1>8, <1>10 DEF PlaceLabel
  <2> QED BY <2>1, <2>2, <2>3
<1>17. \A j \in jumps' : \E h \in jumps :
         /\ j.at = h.at /\ j.name = h.name /\ j.around = h.around /\ j.scope = h.scope
         /\ h.at \in resolved => j.target = size'
         /\ h.at \notin resolved => j = h
         /\ j \in [name : Name, at : Nat, around : SUBSET Nat, scope : SUBSET Locals, target : Nat]
  BY <1>2, <1>16, LandedFacts
<1>18. \A h \in jumps : h.at \notin resolved => h \in jumps' BY <1>16 DEF Landed
<1>19. Types'
  <2>1. open' \in Seq(BlockType) /\ open' # <<>> BY <1>15, <1>16, ReplacedTypes
  <2>2. jumps' \subseteq [name : Name, at : Nat, around : SUBSET Nat, scope : SUBSET Locals, target : Nat]
    BY <1>17
  <2>3. placed' \subseteq [name : Name, at : Nat, block : Nat, around : SUBSET Nat, scope : SUBSET Locals]
    BY <1>7 DEF CheckingOK, Types
  <2> QED BY <2>1, <2>2, <2>3, <1>2, <1>7, <1>16 DEF CheckingOK, Types
<1>20. /\ Carried(p) /\ Len(open') = p /\ open'[p] = b /\ \A i \in 1 .. m : open'[i] = open[i]
  <2>1. nactvar' \in nactvar .. size' + 1 /\ size' \in {size, size + 1} BY <1>2, <1>7
  <2> QED BY <2>1, <1>3, <1>4, <1>15, <1>16, <1>19, TopReplaced
<1>21. p \in 1 .. p /\ p # p + 1 /\ \A i \in 1 .. p : i \in 1 .. m \/ i = p BY <1>4
<1>22. DOMAIN open' = 1 .. p
  <2>1. open' \in Seq(BlockType) BY <1>19 DEF Types
  <2> QED BY <2>1, <1>20
<1>23. Numbered'
  <2>1. ASSUME NEW j \in jumps' PROVE j.at \in 1 .. size' /\ j.target <= size' /\ j.around \subseteq 0 .. size'
    <3>1. PICK h \in jumps : /\ j.at = h.at /\ j.around = h.around
                             /\ h.at \in resolved => j.target = size'
                             /\ h.at \notin resolved => j = h
      BY <1>17
    <3> QED BY <3>1, <1>2, <1>7
  <2>2. ASSUME NEW j \in jumps', NEW k \in jumps', j.at = k.at PROVE j = k
    <3>1. PICK h \in jumps : j = IF h.at \in resolved THEN [h EXCEPT !.target = size'] ELSE h
      BY <1>16 DEF Landed
    <3>2. PICK i \in jumps : k = IF i.at \in resolved THEN [i EXCEPT !.target = size'] ELSE i
      BY <1>16 DEF Landed
    <3>3. h \in [name : Name, at : Nat, around : SUBSET Nat, scope : SUBSET Locals, target : Nat]
          /\ i \in [name : Name, at : Nat, around : SUBSET Nat, scope : SUBSET Locals, target : Nat]
      BY DEF CheckingOK, Types
    <3>4. h.at = j.at /\ i.at = k.at BY <3>1, <3>2, <3>3
    <3>5. h = i BY <3>4, <2>2 DEF CheckingOK, Numbered
    <3> QED BY <3>1, <3>2, <3>5
  <2>3. /\ open'[1].kind = "chunk"
        /\ \A i \in DOMAIN open' : open'[i].id <= size' /\ open'[i].base <= size' + 1
        /\ \A i, k \in DOMAIN open' : i < k => open'[i].id < open'[k].id
    BY <1>19, <1>20, CarriedBlocks
  <2> QED BY <2>1, <2>2, <2>3, <1>7 DEF Numbered
<1>24. (\A l, k \in placed : ~Clashing(l, k))' BY <1>7 DEF Clashing
<1>25. LabelErrorsExact' BY <1>16, <1>24 DEF LabelErrorsExact
<1>26. CASE \E g \in waiting : JumpsIn(g, here)
  <2>1. verdict' = "jump" BY <1>16, <1>26
  <2> QED BY <2>1, <1>19, <1>23, <1>25 DEF IInv
<1>27. CASE ~\E g \in waiting : JumpsIn(g, here)
  <2>a. \A h \in jumps : h.at \in resolved => \E g \in waiting : WaitsIn(p, g, h)
    <3>1. SUFFICES ASSUME NEW h \in jumps, NEW g \in waiting, g.at = h.at PROVE WaitsIn(p, g, h)
      BY <1>11
    <3>2. g \in open[p].pending BY <1>5, <1>10
    <3>3. PICK k \in jumps : WaitsIn(p, g, k) BY <3>2, <1>5, <1>21 DEF CheckingOK, GotosWait
    <3>4. k.at = h.at BY <3>1, <3>3 DEF WaitsIn
    <3>5. k = h BY <3>4 DEF CheckingOK, Numbered
    <3> QED BY <3>3, <3>5
  <2>b. \A i \in 1 .. p : /\ open'[i].id = open[i].id /\ open'[i].own = open[i].own
                          /\ Visible(i)' = Visible(i) /\ Outside(i)' = Outside(i) /\ Ids(i)' = Ids(i)
                          /\ open'[i].pending \subseteq open[i].pending
                          /\ i # p => open'[i].labels = open[i].labels /\ open'[i].pending = open[i].pending
                          /\ Visible(i) \subseteq 1 .. i
    <3>1. \A i \in 1 .. p : Visible(i)' = Visible(i) /\ Outside(i)' = Outside(i) /\ Ids(i)' = Ids(i)
      BY <1>19, <1>20, Carry DEF CheckingOK
    <3>2. \A i \in 1 .. p : Visible(i) \subseteq 1 .. i BY DEF Visible
    <3>3. \A i \in 1 .. m : open'[i] = open[i] BY <1>20
    <3>4. /\ open'[p].id = open[p].id /\ open'[p].own = open[p].own
          /\ open'[p].pending \subseteq open[p].pending
      BY <1>5, <1>15, <1>20 DEF SameBlock
    <3> QED BY <3>1, <3>2, <3>3, <3>4, <1>21
  <2>c. open'[p].labels = open[p].labels \cup {here} /\ open'[p].pending = open[p].pending \ waiting
    BY <1>5, <1>15, <1>20
  <2>1. LabelsKnown'
    <3>1. ASSUME NEW i \in 1 .. p, NEW d \in open'[i].labels
          PROVE  \E l \in placed' : /\ l.name = d.name /\ l.at = d.at /\ l.block = open'[i].id
                                    /\ l.scope \subseteq Outside(i)' \cup open'[i].own
      <4>1. CASE d \in open[i].labels
        <5>1. PICK l \in placed : /\ l.name = d.name /\ l.at = d.at /\ l.block = open[i].id
                                  /\ l.scope \subseteq Outside(i) \cup open[i].own
          BY <4>1, <1>5 DEF CheckingOK, LabelsKnown
        <5> QED BY <5>1, <2>b, <1>7
      <4>2. CASE i = p /\ d = here
        <5>1. lab.scope \subseteq Outside(p) \cup open[p].own BY <1>5, <1>7
        <5>2. lab.name = d.name /\ lab.at = d.at /\ lab.block = open'[p].id /\ lab \in placed'
          BY <4>2, <2>b, <1>5, <1>7, <1>9, <1>21
        <5> QED BY <4>2, <5>1, <5>2, <2>b, <1>21
      <4> QED BY <3>1, <4>1, <4>2, <2>b, <2>c
    <3>2. ASSUME NEW i \in 1 .. p, NEW l \in placed', l.block = open'[i].id
          PROVE  \E d \in open'[i].labels : d.name = l.name /\ d.at = l.at
      <4>1. CASE l \in placed
        <5>1. PICK d \in open[i].labels : d.name = l.name /\ d.at = l.at
          BY <4>1, <3>2, <2>b, <1>5 DEF CheckingOK, LabelsKnown
        <5>2. d \in open'[i].labels BY <2>b, <2>c
        <5> QED BY <5>1, <5>2
      <4>2. CASE l = lab
        <5>1. open[i].id = open[p].id BY <4>2, <3>2, <2>b, <1>5, <1>7
        <5>2. ~(open[i].id < open[p].id)
          <6>1. open[p].id \in Nat BY <1>5, <1>21 DEF BlockType
          <6> QED BY <5>1, <6>1
        <5>3. i = p
          <6>1. i \in Nat /\ p \in DOMAIN open /\ i \in DOMAIN open /\ (i < p \/ i = p) BY <1>5, <1>21
          <6> QED BY <5>2, <6>1 DEF CheckingOK, Numbered
        <5> QED BY <4>2, <5>3, <2>c, <1>7, <1>9
      <4> QED BY <3>2, <4>1, <4>2, <1>7
    <3>3. \A i \in InFunction : \A d \in open[i].labels : d.name # n
      BY DEF FindLabel, VisibleLabels
    <3>4. ASSUME NEW i \in 1 .. p, NEW k \in Visible(i)',
                 NEW d \in open'[i].labels, NEW e \in open'[k].labels, d.name = e.name
          PROVE  d = e
      <4>1. k \in Visible(i) /\ k \in 1 .. p
        <5>1. k \in Visible(i) /\ k \in 1 .. i BY <2>b
        <5> QED BY <5>1
      <4>2. CASE d \in open[i].labels /\ e \in open[k].labels
        BY <4>1, <4>2, <3>4, <1>5 DEF CheckingOK, LabelsKnown
      <4>3. CASE i = p /\ d = here
        <5>1. k \in InFunction BY <4>1, <4>3, <1>5
        <5>2. e = here \/ e \in open[k].labels BY <4>1, <2>b, <2>c
        <5> QED BY <5>1, <5>2, <4>3, <3>3, <3>4, <1>9
      <4>4. CASE i = p /\ k = p /\ e = here
        <5>1. d = here \/ d \in open[p].labels BY <4>4, <2>c
        <5> QED BY <5>1, <4>4, <3>3, <3>4, <1>5, <1>9
      <4>5. i # p => k # p
        <5>1. k \in 1 .. i BY <4>1, <2>b
        <5> QED BY <5>1, <4>1
      <4>6. d \in open[i].labels \/ (i = p /\ d = here) BY <2>b, <2>c
      <4>7. e \in open[k].labels \/ (k = p /\ e = here) BY <4>1, <2>b, <2>c
      <4> QED BY <4>2, <4>3, <4>4, <4>5, <4>6, <4>7
    <3> QED BY <3>1, <3>2, <3>4, <1>22 DEF LabelsKnown
  <2>d. \A i \in 1 .. p : i \notin p + 1 .. p /\ (i # p => p \in i + 1 .. Len(open))
    <3>1. Len(open) = p BY <1>3, <1>4
    <3>2. \A i \in 1 .. p : i # p => p \in i + 1 .. p OBVIOUS
    <3>3. \A i \in 1 .. p : i \notin p + 1 .. p OBVIOUS
    <3> QED BY <3>1, <3>2, <3>3
  <2>e. ASSUME NEW i \in 1 .. p, NEW g \in open[i].pending, NEW h \in jumps, WaitsIn(i, g, h),
               open[p].id \in h.around
        PROVE  i = p
    BY <2>d, <2>e DEF WaitsIn
  <2>f. ASSUME NEW i \in 1 .. p, NEW g \in open'[i].pending, NEW h \in jumps, WaitsIn(i, g, h)
        PROVE  h.at \notin resolved
    <3>1. ASSUME h.at \in resolved PROVE FALSE
      <4>1. PICK k \in waiting : WaitsIn(p, k, h) BY <3>1, <2>a
      <4>2. open[p].id \in h.around BY <4>1 DEF WaitsIn
      <4>3. g \in open[i].pending BY <2>b
      <4>4. i = p BY <4>2, <4>3, <2>e, <2>f
      <4>5. g.name = n BY <4>1, <2>f, <1>10 DEF WaitsIn
      <4>6. g \in waiting BY <4>3, <4>4, <4>5, <1>5, <1>10
      <4> QED BY <4>4, <4>6, <2>c
    <3> QED BY <3>1
  <2>g. \A h \in jumps : {a \in h.around : a <= open[p].id} = Ids(p) \/ open[p].id \notin h.around
    BY <1>5, <1>21 DEF CheckingOK, GotosWait
  <2>2. GotosWait'
    <3>1. ASSUME NEW i \in 1 .. p, NEW g \in open'[i].pending
          PROVE  \E j \in jumps' : WaitsIn(i, g, j)'
      <4>1. g \in open[i].pending BY <2>b
      <4>2. g \in Description BY <4>1, <1>5 DEF BlockType
      <4>3. PICK h \in jumps : WaitsIn(i, g, h) BY <4>1, <1>5 DEF CheckingOK, GotosWait
      <4>4. h \in jumps' BY <4>3, <2>f, <1>18
      <4>5. WaitsIn(i, g, h)' BY <4>2, <4>3, <1>19, <1>20, CarriedWaits
      <4> QED BY <4>4, <4>5
    <3>2. ASSUME NEW j \in jumps', j.target = 0
          PROVE  /\ Candidates(j)' = {}
                 /\ \E i \in 1 .. p : \E g \in open'[i].pending : g.at = j.at
      <4>1. j \in jumps /\ j.at \notin resolved BY <3>2, <1>2, <1>17
      <4>2. PICK i \in 1 .. p : \E g \in open[i].pending : g.at = j.at
        BY <4>1, <3>2, <1>5 DEF CheckingOK, GotosWait
      <4>3. PICK g \in open[i].pending : g.at = j.at BY <4>2
      <4>4. g \notin waiting BY <4>1, <4>3, <1>11
      <4>5. g \in open'[i].pending BY <4>4, <2>b, <2>c
      <4>6. PICK h \in jumps : WaitsIn(i, g, h) BY <4>3, <1>5 DEF CheckingOK, GotosWait
      <4>7. h = j
        <5>1. h.at = j.at BY <4>3, <4>6 DEF WaitsIn
        <5> QED BY <5>1, <4>1 DEF CheckingOK, Numbered
      <4>8. lab \notin Candidates(j)'
        <5>1. ASSUME j.name = n, Top.id \in j.around PROVE FALSE
          <6>1. i = p BY <5>1, <4>6, <4>7, <2>e, <1>5
          <6>2. g.name = n BY <5>1, <4>6, <4>7 DEF WaitsIn
          <6> QED BY <6>1, <6>2, <4>3, <4>4, <1>5, <1>10
        <5> QED BY <5>1, <1>7 DEF Candidates
      <4>9. Candidates(j) = {} BY <4>1, <3>2 DEF CheckingOK, GotosWait
      <4>10. Candidates(j)' = {} BY <4>8, <4>9, <1>7 DEF Candidates
      <4> QED BY <4>3, <4>5, <4>10
    <3>3. ASSUME NEW j \in jumps', NEW i \in 1 .. p, open'[i].id \in j.around
          PROVE  {a \in j.around : a <= open'[i].id} = Ids(i)'
      <4>1. PICK h \in jumps : j.around = h.around BY <1>17
      <4>2. {a \in h.around : a <= open'[i].id} = Ids(i)'
        BY <4>1, <3>3, <1>19, <1>20, <1>22, CarriedAround
      <4> QED BY <4>1, <4>2
    <3> QED BY <3>1, <3>2, <3>3, <1>22 DEF GotosWait
  <2>3. \A j \in jumps' : Resolved(j)'
    <3>1. SUFFICES ASSUME NEW j \in jumps', j.target # 0 PROVE Resolved(j)'
      BY DEF Resolved
    <3>2. PICK h \in jumps :
            /\ j.at = h.at /\ j.name = h.name /\ j.around = h.around /\ j.scope = h.scope
            /\ h.at \in resolved => j.target = size'
            /\ h.at \notin resolved => j = h
      BY <1>17
    <3>3. /\ \A l : l \in Candidates(j)' => l \in Candidates(h) \/ l = lab
          /\ Candidates(h) \subseteq Candidates(j)'
          /\ lab \in Candidates(j)' <=> j.name = n /\ Top.id \in j.around
      <4>1. lab \in placed' /\ placed \subseteq placed' BY <1>7
      <4> QED BY <4>1, <3>2, <1>7 DEF Candidates
    <3>4. CASE h.at \in resolved
      <4>1. PICK g \in waiting : WaitsIn(p, g, h) BY <3>4, <2>a
      <4>2. g.name = n /\ g \in Top.pending /\ g \in Description
        <5>1. g.name = n /\ g \in Top.pending BY <1>10
        <5> QED BY <5>1, <1>5 DEF BlockType
      <4>3. h.name = n /\ Top.id \in h.around /\ h.target = 0 /\ Outside(p) \subseteq h.scope
        BY <4>1, <4>2, <1>5 DEF WaitsIn
      <4>4. Candidates(h) = {} BY <4>3 DEF CheckingOK, GotosWait
      <4>5. lab \in Candidates(j)' /\ \A l \in Candidates(j)' : l = lab BY <4>3, <4>4, <3>2, <3>3
      <4>6. lab.scope \subseteq h.scope
        <5>1. CASE at_end BY <5>1, <4>3, <1>5, <1>7
        <5>2. CASE ~at_end
          <6>1. ~(g.nactvar < nactvar) BY <5>2, <1>9, <1>27 DEF JumpsIn, LabelDepth
          <6>2. Level(p) = nactvar BY <1>3, <1>4 DEF Level
          <6>3. g.nactvar <= nactvar BY <6>2, <4>1 DEF WaitsIn
          <6>4. g.nactvar \in Nat BY <4>2 DEF Description
          <6>5. g.nactvar = Level(p) BY <6>1, <6>2, <6>3, <6>4, <1>2
          <6>6. open[p].own \subseteq h.scope BY <6>5, <4>1 DEF WaitsIn
          <6> QED BY <5>2, <6>6, <4>3, <1>5, <1>7
        <5> QED BY <5>1, <5>2
      <4>7. lab.at = j.target BY <3>2, <3>4, <1>7
      <4> QED BY <4>5, <4>6, <4>7, <3>2 DEF Resolved
    <3>5. CASE h.at \notin resolved
      <4>1. j = h BY <3>2, <3>5
      <4>2. PICK l \in Candidates(h) :
              /\ l.at = h.target /\ l.scope \subseteq h.scope
              /\ \A k \in Candidates(h) : k = l \/ k.block < l.block
        BY <4>1, <3>1 DEF CheckingOK, Resolved
      <4>3. lab \in Candidates(j)' => lab.block < l.block
        <5>1. SUFFICES ASSUME j.name = n, Top.id \in j.around PROVE Top.id < l.block BY <3>3, <1>7
        <5>2. l \in placed /\ l.name = n /\ l.block \in h.around /\ l.block \in Nat
          BY <5>1, <4>1, <4>2 DEF Candidates, CheckingOK, Types
        <5>3. Top.id \in Nat BY <1>5 DEF BlockType
        <5>4. {a \in h.around : a <= open[p].id} = Ids(p) BY <5>1, <4>1, <2>g, <1>5
        <5>5. ~(l.block <= Top.id)
          <6>1. ASSUME l.block <= Top.id PROVE FALSE
            <7>1. l.block \in Around BY <6>1, <5>2, <5>4, <1>5
            <7> QED BY <7>1, <5>2, LabelSeen
          <6> QED BY <6>1
        <5> QED BY <5>2, <5>3, <5>5
      <4>4. l \in Candidates(j)' /\ \A k \in Candidates(j)' : k = l \/ k.block < l.block
        BY <4>2, <4>3, <3>3
      <4> QED BY <4>1, <4>2, <4>4 DEF Resolved
    <3> QED BY <3>4, <3>5
  <2>4. LoopsCounted'
    <3>1. loop_depth' = Cardinality(LoopsIn(p)) BY <1>3, <1>4, <1>7 DEF CheckingOK, LoopsCounted
    <3>2. Len(open') # p + 1 BY <1>20, <1>21
    <3> QED BY <3>1, <3>2, <1>19, <1>20, CarriedLoops
  <2>5. Nested' BY <1>19, <1>20, CarriedBlocks
  <2>6. CheckingOK' BY <2>1, <2>2, <2>3, <2>4, <2>5, <1>19, <1>23, <1>24 DEF CheckingOK
  <2>7. verdict' = "checking" BY <1>16, <1>27
  <2> QED BY <2>6, <2>7, Goes
<1> QED BY <1>26, <1>27

-----------------------------------------------------------------------------
LEMMA Start ==
  ASSUME Init
  PROVE  IInv
<1>1. PICK b : b = [id |-> 0, kind |-> "chunk", base |-> 0, labels |-> {}, pending |-> {},
                    saved_nactvar |-> 0, saved_loop_depth |-> 0, tail |-> "free", own |-> {}]
  OBVIOUS
<1>2. /\ open = <<b>> /\ nactvar = 0 /\ loop_depth = 0 /\ verdict = "checking"
      /\ size = 0 /\ placed = {} /\ jumps = {}
  BY <1>1 DEF Init
<1>3. /\ b \in BlockType /\ b.id = 0 /\ b.base = 0 /\ b.kind = "chunk"
      /\ b.labels = {} /\ b.pending = {}
  BY <1>1 DEF BlockType, Kinds, FunctionTops
<1>4. /\ Len(open) = 1 /\ DOMAIN open = {1} /\ open[1] = b /\ open \in Seq(BlockType) /\ open # <<>>
  BY <1>2, <1>3
<1>5. Types BY <1>2, <1>4, SizeBound DEF Types
<1>6. Numbered BY <1>2, <1>3, <1>4 DEF Numbered
<1>7. Nested
  <2>1. Level(1) = 0 BY <1>2, <1>4 DEF Level
  <2> QED BY <2>1, <1>2, <1>3, <1>4 DEF Nested
<1>8. LabelsKnown BY <1>2, <1>3, <1>4 DEF LabelsKnown
<1>9. GotosWait BY <1>2, <1>3, <1>4 DEF GotosWait
<1>10. LoopsCounted
  <2>1. LoopsIn(Len(open)) = {}
    <3>1. Visible(Len(open)) \subseteq {1} BY <1>4 DEF Visible
    <3> QED BY <3>1, <1>3, <1>4 DEF LoopsIn, Loops
  <2> QED BY <2>1, <1>2, <1>4, FS_EmptySet DEF LoopsCounted
<1>11. LabelErrorsExact BY <1>2 DEF LabelErrorsExact
<1> QED BY <1>2, <1>5, <1>6, <1>7, <1>8, <1>9, <1>10, <1>11 DEF IInv

LEMMA Step ==
  ASSUME IInv, [Next]_vars
  PROVE  IInv'
<1>1. CASE Next
  <2>1. verdict = "checking"
    BY <1>1 DEF Next, JumpTo, PlaceLabel, BreakOut, DeclareLocal, Plain, OpenBlock, OpenFor,
                OpenFunction, OpenLocalFunction, CloseBlock, CloseFunction, Real, Statement
  <2>2. CheckingOK BY <2>1, Checking
  <2>3. ASSUME NEW n \in Name, JumpTo(n) PROVE IInv' BY <2>2, <2>3, JumpToStep
  <2>4. ASSUME NEW n \in Name, NEW at_end \in BOOLEAN, PlaceLabel(n, at_end) PROVE IInv'
    BY <2>2, <2>4, DuplicateStep, LabelStep
  <2>5. CASE BreakOut \/ DeclareLocal \/ Plain BY <2>2, <2>5, PlainStep
  <2>6. CASE (\E k \in {"do", "while", "repeat"} : OpenBlock(k)) \/ OpenFor \/ OpenFunction
    BY <2>2, <2>6, OpenStep
  <2>7. CASE OpenLocalFunction BY <2>2, <2>7, OpenLocalFunctionStep
  <2>8. CASE CloseBlock BY <2>2, <2>8, CloseBlockStep
  <2>9. CASE CloseFunction BY <2>2, <2>9, CloseFunctionStep
  <2> QED BY <1>1, <2>3, <2>4, <2>5, <2>6, <2>7, <2>8, <2>9 DEF Next
<1>2. CASE UNCHANGED vars
  <2>1. /\ open' = open /\ nactvar' = nactvar /\ loop_depth' = loop_depth /\ verdict' = verdict
        /\ size' = size /\ placed' = placed /\ jumps' = jumps
    BY <1>2 DEF vars
  <2>2. Types' /\ Numbered' /\ LabelErrorsExact'
    BY <2>1 DEF IInv, Types, Numbered, LabelErrorsExact, Clashing, Candidates
  <2>3. \A i : Level(i)' = Level(i) /\ Visible(i)' = Visible(i) BY <2>1 DEF Level, Visible
  <2>4. \A i : Ids(i)' = Ids(i) /\ Outside(i)' = Outside(i) /\ LoopsIn(i)' = LoopsIn(i)
    BY <2>1, <2>3 DEF Ids, Outside, LoopsIn
  <2>5. Nested' <=> Nested BY <2>1, <2>3 DEF Nested
  <2>6. LabelsKnown' <=> LabelsKnown BY <2>1, <2>3, <2>4 DEF LabelsKnown
  <2>7. \A i, g, j : WaitsIn(i, g, j)' <=> WaitsIn(i, g, j) BY <2>1, <2>3, <2>4 DEF WaitsIn
  <2>8. \A j : Candidates(j)' = Candidates(j) BY <2>1 DEF Candidates
  <2>9. GotosWait' <=> GotosWait BY <2>1, <2>4, <2>7, <2>8 DEF GotosWait
  <2>10. \A j : Resolved(j)' <=> Resolved(j) BY <2>8 DEF Resolved
  <2>11. LoopsCounted' <=> LoopsCounted
    <3>1. LoopsIn(Len(open))' = LoopsIn(Len(open)) BY <2>1 DEF LoopsIn, Visible
    <3> QED BY <3>1, <2>1, <2>4 DEF LoopsCounted
  <2> QED BY <2>1, <2>2, <2>5, <2>6, <2>9, <2>10, <2>11 DEF IInv
<1> QED BY <1>1, <1>2

(* The inductive invariant, for programs of any length.                     *)
THEOREM Invariance == Spec => []IInv
<1>1. Init => IInv BY Start
<1>2. IInv /\ [Next]_vars => IInv' BY Step
<1> QED BY <1>1, <1>2, PTL DEF Spec

LEMMA LandsThere ==
  ASSUME IInv, verdict = "accepted", NEW j \in jumps
  PROVE  Candidates(j) # {} /\ Landing(j).at = j.target /\ Landing(j).scope \subseteq j.scope
<1>1. PICK l \in Candidates(j) :
        /\ l.at = j.target /\ l.scope \subseteq j.scope
        /\ \A k \in Candidates(j) : k = l \/ k.block < l.block
  BY DEF IInv, Resolved
<1>2. \A k \in Candidates(j) : k.block \in Nat BY DEF Candidates, IInv, Types
<1>3. \A k \in Candidates(j) : k.block <= l.block BY <1>1, <1>2
<1>4. \A x \in Candidates(j) : (\A k \in Candidates(j) : k.block <= x.block) => x = l
  BY <1>1, <1>2
<1>5. Landing(j) = l BY <1>3, <1>4 DEF Landing
<1> QED BY <1>1, <1>5

(* Every goto of an accepted program finds the label the pass resolved it   *)
(* to when eval_block looks for it, and enters the scope of no local.       *)
THEOREM GotosSound == Spec => []AcceptedGotosSound
<1>1. ASSUME IInv PROVE AcceptedGotosSound
  <2>1. TypeOK
    <3>1. Types /\ Numbered BY <1>1 DEF IInv
    <3>2. DOMAIN open = 1 .. Len(open) /\ \A i \in 1 .. Len(open) : open[i] \in BlockType
      BY <3>1, OpenFacts
    <3>3. \A i \in DOMAIN open : open[i].base \in Nat /\ open[i].own \subseteq Locals
      BY <3>2 DEF BlockType
    <3>4. size \in Nat /\ size <= MaxSize BY <3>1 DEF Types
    <3>5. \A i \in DOMAIN open : open[i].base <= MaxSize + 1
      BY SizeBound, <3>1, <3>3, <3>4 DEF Numbered
    <3>6. \A j \in jumps : j.target \in 0 .. size
      <4>1. \A j \in jumps : j.target \in Nat BY <3>1 DEF Types
      <4>2. \A j \in jumps : j.target <= size BY <3>1 DEF Numbered
      <4> QED BY <4>1, <4>2, <3>4
    <3>7. size \in 0 .. MaxSize BY <3>4
    <3> QED BY <3>1, <3>3, <3>5, <3>6, <3>7 DEF TypeOK, Types, Numbered
  <2>2. AcceptedGotosLand BY <1>1, LandsThere DEF AcceptedGotosLand
  <2>3. NoJumpIntoScope BY <1>1, LandsThere DEF NoJumpIntoScope
  <2> QED BY <2>1, <2>2, <2>3 DEF AcceptedGotosSound
<1> QED BY <1>1, Invariance, PTL

(* The pass accuses a program of breaking the rules on labels when it does, *)
(* and counts the loops that a break can leave.                             *)
THEOREM LabelsAndLoops == Spec => []RefusalsExact
<1>1. ASSUME IInv PROVE RefusalsExact
  <2>1. LabelErrorsExact BY <1>1 DEF IInv
  <2>2. ASSUME verdict = "checking"
        PROVE  loop_depth = Cardinality({i \in InFunction : open[i].kind \in Loops})
    <3>1. CheckingOK BY <1>1, <2>2, Checking
    <3>2. InFunction = Visible(Len(open)) BY <3>1, OpenFacts DEF CheckingOK
    <3>3. {i \in InFunction : open[i].kind \in Loops} = LoopsIn(Len(open)) BY <3>2 DEF LoopsIn
    <3> QED BY <3>1, <3>3 DEF CheckingOK, LoopsCounted
  <2> QED BY <2>1, <2>2 DEF LoopDepthExact, RefusalsExact
<1> QED BY <1>1, Invariance, PTL

-----------------------------------------------------------------------------
LEMMA ChunksStart == ChunksInit => ChunksIInv
<1> SUFFICES ASSUME ChunksInit PROVE ChunksIInv OBVIOUS
<1> USE DEF ChunksInit
<1>1. Retained = {} BY DEF Retained
<1>2. chunks \in Seq(Tree) /\ Len(chunks) = 0 OBVIOUS
<1>3. ChunksTypeOK BY <1>2 DEF ChunksTypeOK
<1> QED BY <1>1, <1>3 DEF ChunksIInv, TreesExist, PointersInVector, LabelCacheFresh

(* The tree a good pointer leads to exists. *)
LEMMA DesignatesTree ==
  ASSUME ChunksIInv, NEW c \in closures, Designates(c) # None
  PROVE  Designates(c) \in Tree /\ home[Designates(c)] # None
<1> USE DEF ChunksIInv
<1>1. c \in [tree : parsed, buffer : Nat, index : Nat] BY DEF ChunksTypeOK
<1>2. CASE c.index = 0
  BY <1>1, <1>2 DEF Designates, ChunksTypeOK
<1>3. CASE c.index # 0
  <2>1. c.index \in 1..Len(chunks) BY <1>1, <1>3 DEF PointersInVector, ChunksTypeOK
  <2>2. Designates(c) = chunks[c.index] BY <1>3 DEF Designates
  <2>3. chunks[c.index] \in Retained /\ chunks[c.index] \in Tree BY <2>1 DEF Retained, ChunksTypeOK
  <2> QED BY <2>2, <2>3 DEF TreesExist
<1> QED BY <1>2, <1>3

(* Evaluating a block that exists: what is cached under its address, now or *)
(* before, was collected from it.                                           *)
LEMMA VisitInv ==
  ASSUME ChunksIInv, NEW t \in Tree, home[t] # None, Visit(t),
         UNCHANGED <<root, home, parsed, chunks, capacity, buffer, closures>>
  PROVE  ChunksIInv'
<1> USE DEF ChunksIInv
<1>1. home[t] \in Addr BY DEF ChunksTypeOK
<1>2. labels' \in [Addr -> Tree \cup {None}] BY DEF Visit, ChunksTypeOK
<1>3. \A a \in Addr : labels'[a] = IF a = home[t] /\ labels[a] = None THEN t ELSE labels[a]
  BY <1>1 DEF Visit, ChunksTypeOK
<1>4. LabelCacheFresh' BY <1>3 DEF LabelCacheFresh
<1>5. ChunksTypeOK' BY <1>2 DEF ChunksTypeOK
<1>6. TreesExist' /\ PointersInVector' BY DEF TreesExist, PointersInVector, Retained
<1> QED BY <1>4, <1>5, <1>6

LEMMA RunInv ==
  ASSUME ChunksIInv, NEW t \in Tree, NEW a \in Addr, Run(t, a)
  PROVE  ChunksIInv'
<1> USE DEF ChunksIInv, Run
<1>0. t # None /\ a # None BY NoneApart
<1>1. ChunksTypeOK' BY DEF ChunksTypeOK, ForgetLabels
<1>2. Retained' = Retained BY DEF Retained
<1>3. \A u \in Tree : home'[u] = IF u = t THEN a ELSE home[u] BY DEF ChunksTypeOK
<1>4. t \notin Retained BY DEF TreesExist
<1>5. Retained \subseteq Tree BY DEF TreesExist, ChunksTypeOK
<1>6. TreesExist' BY <1>0, <1>2, <1>3, <1>4, <1>5 DEF TreesExist
<1>7. PointersInVector' BY <1>2 DEF PointersInVector
<1>8. LabelCacheFresh' BY DEF LabelCacheFresh, ForgetLabels
<1> QED BY <1>1, <1>6, <1>7, <1>8

LEMMA EndRunInv == ChunksIInv /\ EndRun => ChunksIInv'
<1> SUFFICES ASSUME ChunksIInv, EndRun PROVE ChunksIInv' OBVIOUS
<1> USE DEF ChunksIInv, EndRun
<1>1. ChunksTypeOK' BY DEF ChunksTypeOK
<1>2. Retained' = Retained BY DEF Retained
<1>3. \A u \in Tree : home'[u] = IF u = root THEN None ELSE home[u] BY DEF ChunksTypeOK
<1>4. Retained \subseteq Tree BY DEF TreesExist, ChunksTypeOK
<1>5. TreesExist' BY <1>2, <1>3, <1>4 DEF TreesExist
<1>6. PointersInVector' BY <1>2 DEF PointersInVector
<1>7. LabelCacheFresh' BY DEF LabelCacheFresh
<1> QED BY <1>1, <1>5, <1>6, <1>7

(* Nothing is cached for the new tree yet, and the address it takes was     *)
(* nobody's.                                                                *)
LEMMA LoadInv ==
  ASSUME ChunksIInv, NEW t \in Tree, NEW a \in Addr, Load(t, a)
  PROVE  ChunksIInv'
<1> USE DEF ChunksIInv, Load
<1>0. t # None /\ a # None BY NoneApart
<1>1. /\ chunks' = Append(chunks, t) /\ chunks' \in Seq(Tree) /\ Len(chunks') = Len(chunks) + 1
      /\ Len(chunks) \in Nat /\ capacity' \in Nat /\ buffer' \in Nat /\ Len(chunks') <= capacity'
  <2>1. chunks \in Seq(Tree) /\ capacity \in Nat /\ buffer \in Nat /\ Len(chunks) <= capacity
    BY DEF ChunksTypeOK
  <2>2. /\ chunks' = Append(chunks, t)
        /\ IF Len(chunks) = capacity
             THEN buffer' = buffer + 1 /\ capacity' = IF capacity = 0 THEN 1 ELSE 2 * capacity
             ELSE UNCHANGED <<buffer, capacity>>
    BY DEF PushBack
  <2>3. chunks' \in Seq(Tree) /\ Len(chunks') = Len(chunks) + 1 /\ Len(chunks) \in Nat BY <2>1, <2>2
  <2>4. capacity' \in Nat /\ buffer' \in Nat /\ Len(chunks) + 1 <= capacity'
    <3>1. CASE Len(chunks) = capacity BY <2>1, <2>2, <3>1
    <3>2. CASE Len(chunks) # capacity BY <2>1, <2>2, <2>3, <3>2
    <3> QED BY <3>1, <3>2
  <2> QED BY <2>2, <2>3, <2>4
<1>2. Retained' = Retained \cup {t}
  <2>1. chunks \in Seq(Tree) BY DEF ChunksTypeOK
  <2>2. DOMAIN chunks' = 1..(Len(chunks) + 1) /\ chunks'[Len(chunks) + 1] = t
        /\ \A i \in 1..Len(chunks) : chunks'[i] = chunks[i]
    BY <1>1, <2>1
  <2>3. DOMAIN chunks = 1..Len(chunks) BY <2>1
  <2>4. \A x \in Retained' : x \in Retained \cup {t} BY <1>1, <2>2, <2>3 DEF Retained
  <2>5. \A x \in Retained : x \in Retained'
    <3>1. TAKE x \in Retained
    <3>2. PICK i \in 1..Len(chunks) : x = chunks[i] BY <2>3 DEF Retained
    <3>3. i \in DOMAIN chunks' /\ chunks'[i] = x BY <1>1, <2>2, <3>2
    <3> QED BY <3>3 DEF Retained
  <2>6. t \in Retained' 
    <3>1. Len(chunks) + 1 \in DOMAIN chunks' BY <1>1, <2>2
    <3> QED BY <2>2, <3>1 DEF Retained
  <2> QED BY <2>4, <2>5, <2>6
<1>3. \A u \in Tree : home'[u] = IF u = t THEN a ELSE home[u] BY DEF ChunksTypeOK
<1>4. closures' = closures \cup {[tree |-> t, buffer |-> buffer', index |-> Len(chunks) + 1]}
  BY <1>1 DEF InVector
<1>5. ChunksTypeOK'
  <2>1. home' \in [Tree -> Addr \cup {None}] /\ parsed' \subseteq Tree BY DEF ChunksTypeOK
  <2>2. closures' \subseteq [tree : parsed', buffer : Nat, index : Nat]
    BY <1>1, <1>4 DEF ChunksTypeOK
  <2> QED BY <1>1, <2>1, <2>2 DEF ChunksTypeOK
<1>6. Retained \subseteq Tree BY DEF TreesExist, ChunksTypeOK
<1>7. home[t] = None BY DEF TreesExist
<1>8. TreesExist' BY <1>0, <1>2, <1>3, <1>6 DEF TreesExist, ChunksTypeOK
<1>9. PointersInVector'
  <2>1. ASSUME NEW c \in closures', c.index # 0 PROVE c.tree \in Retained' /\ c.index <= Len(chunks')
    <3>1. CASE c \in closures
      <4>1. c.index \in Nat /\ c.tree \in Retained /\ c.index <= Len(chunks)
        BY <2>1, <3>1 DEF PointersInVector, ChunksTypeOK
      <4> QED BY <1>1, <1>2, <4>1
    <3>2. CASE c \notin closures BY <1>1, <1>2, <1>4, <3>2
    <3> QED BY <3>1, <3>2
  <2> QED BY <2>1 DEF PointersInVector
<1>10. LabelCacheFresh'
  <2>1. ASSUME NEW b \in Addr, labels[b] # None PROVE home'[labels[b]] = b
    <3>1. labels[b] \in Tree /\ home[labels[b]] = b BY <2>1 DEF LabelCacheFresh, ChunksTypeOK
    <3>2. labels[b] # t BY <1>7, <3>1, NoneApart
    <3> QED BY <1>3, <3>1, <3>2
  <2> QED BY <2>1 DEF LabelCacheFresh
<1> QED BY <1>5, <1>8, <1>9, <1>10

LEMMA DefineInv ==
  ASSUME ChunksIInv, NEW t \in Tree, Define(t)
  PROVE  ChunksIInv'
<1> USE DEF ChunksIInv, Define
<1>1. t \in parsed BY DEF TreesExist
<1>2. ChunksTypeOK' BY <1>1 DEF ChunksTypeOK, InTree
<1>3. TreesExist' /\ LabelCacheFresh' BY DEF TreesExist, LabelCacheFresh, Retained
<1>4. PointersInVector'
  <2>1. Retained' = Retained BY DEF Retained
  <2> QED BY <2>1 DEF PointersInVector, InTree
<1> QED BY <1>2, <1>3, <1>4

LEMMA ChunksStep == ChunksIInv /\ [ChunksNext]_chunksVars => ChunksIInv'
<1> SUFFICES ASSUME ChunksIInv, [ChunksNext]_chunksVars PROVE ChunksIInv' OBVIOUS
<1>1. CASE \E t \in Tree, a \in Addr : Run(t, a) \/ Load(t, a) BY <1>1, RunInv, LoadInv
<1>2. CASE EndRun BY <1>2, EndRunInv
<1>3. CASE EvalRoot
  <2>1. root \in Tree /\ home[root] # None BY <1>3 DEF EvalRoot, ChunksIInv, ChunksTypeOK, TreesExist
  <2> QED BY <1>3, <2>1, VisitInv DEF EvalRoot
<1>4. CASE \E t \in Tree : Define(t) BY <1>4, DefineInv
<1>5. CASE \E c \in closures : Call(c)
  <2>1. PICK c \in closures : Call(c) BY <1>5
  <2>2. Designates(c) \in Tree /\ home[Designates(c)] # None BY <2>1, DesignatesTree DEF Call
  <2> QED BY <2>1, <2>2, VisitInv DEF Call
<1>6. CASE UNCHANGED chunksVars
  BY <1>6 DEF chunksVars, ChunksIInv, ChunksTypeOK, TreesExist, PointersInVector, LabelCacheFresh, Retained
<1> QED BY <1>1, <1>2, <1>3, <1>4, <1>5, <1>6 DEF ChunksNext

THEOREM ChunksInvariance == ChunksSpec => []ChunksIInv
BY ChunksStart, ChunksStep, PTL DEF ChunksSpec

-----------------------------------------------------------------------------
(* While a run lasts, m_labels answers only for blocks that lie where they  *)
(* were cached, although it is keyed by addresses that are reused: what     *)
(* could move or free a block of the run or of a retained tree comes after  *)
(* its end, and Evaluator::run clears the cache first.                      *)
THEOREM LabelsFresh == ChunksSpec => []LabelCacheFresh
<1>1. ChunksIInv => LabelCacheFresh BY DEF ChunksIInv
<1> QED BY <1>1, ChunksInvariance, PTL

(* A tree that load returned a closure of exists for as long as the         *)
(* evaluator does.                                                          *)
THEOREM TreesKept == ChunksSpec => []LoadedTreesKept
<1>1. ChunksIInv => LoadedTreesKept BY DEF ChunksIInv, LoadedTreesKept, PointersInVector, TreesExist
<1> QED BY <1>1, ChunksInvariance, PTL
=============================================================================
