--------------------------- MODULE ByteSliceProofs ---------------------------
(***************************************************************************)
(* What holds of ByteSlice for any number of slices, buffers and counters: *)
(* reference counts are exact, no buffer leaks or dangles, and unique()    *)
(* means sole owner.                                                       *)
(*                                                                         *)
(* The argument: every operation first takes one slice s out of the        *)
(* picture (CountWithout, SizeWithout) and then puts it back in one of a   *)
(* few ways.  Lemma Rest says that what is left without s is consistent by *)
(* itself; one lemma for each way of putting s back restores the           *)
(* invariant.                                                              *)
(***************************************************************************)
EXTENDS ByteSlice, FiniteSetTheorems, TLAPS

\* The pointers of a slice are in order, and null together.
InBounds ==
  \A s \in Slice : /\ head[s] <= tail[s] /\ tail[s] <= cap[s]
                   /\ base[s] = Null => cap[s] = 0

\* An object that does not exist points to nothing.
GhostsEmpty == \A s \in Slice \ alive : base[s] = Null /\ cell[s] = Null

Shape ==
  /\ alive \in SUBSET Slice
  /\ base \in [Slice -> Block \cup {Null}]
  /\ head \in [Slice -> Offset]
  /\ tail \in [Slice -> Offset]
  /\ cap \in [Slice -> Offset]
  /\ cell \in [Slice -> Cell \cup {Null}]
  /\ count \in [Cell -> Nat]
  /\ size \in [Block -> Offset]

Links == /\ CountsReferences
         /\ BuffersOwned
         /\ SharedTogether
         /\ GhostsEmpty
         /\ InBounds

SliceInv == Shape /\ Links

-----------------------------------------------------------------------------
(* Sets of references.                                                     *)

LEMMA RefsFinite ==
  ASSUME alive \in SUBSET Slice, NEW c
  PROVE  IsFiniteSet(Refs(c)) /\ Cardinality(Refs(c)) \in Nat
<1>1. Refs(c) \in SUBSET Slice
  BY DEF Refs
<1>2. IsFiniteSet(Refs(c))
  BY <1>1, FS_Subset, ByteSliceAssumption
<1> QED
  BY <1>2, FS_CardinalityType

\* What unique() tells: nobody else has the counter.
LEMMA UniqueMeansAlone ==
  ASSUME SliceInv, NEW s \in alive, Unique(s), NEW o \in alive, cell[o] = cell[s]
  PROVE  o = s
<1>1. cell[s] \in Cell
  BY DEF SliceInv, Shape, Unique
<1>2. Cardinality(Refs(cell[s])) = 1
  BY <1>1 DEF SliceInv, Links, CountsReferences, Unique
<1>3. \E x : Refs(cell[s]) = {x}
  BY <1>2, RefsFinite, FS_Singleton DEF SliceInv, Shape
<1>4. s \in Refs(cell[s]) /\ o \in Refs(cell[s])
  BY DEF Refs
<1> QED
  BY <1>3, <1>4

\* What its negation tells: somebody else has it.
LEMMA SharedMeansOther ==
  ASSUME SliceInv, NEW s \in alive, cell[s] # Null, ~Unique(s)
  PROVE  \E o \in alive \ {s} : cell[o] = cell[s]
<1>1. cell[s] \in Cell
  BY DEF SliceInv, Shape
<1>2. Cardinality(Refs(cell[s])) # 1
  BY <1>1 DEF SliceInv, Links, CountsReferences, Unique
<1>3. Refs(cell[s]) # {s}
  BY <1>2, FS_Singleton
<1>4. s \in Refs(cell[s])
  BY DEF Refs
<1> QED
  BY <1>3, <1>4 DEF Refs

-----------------------------------------------------------------------------
\* decrease_and_try_release leaves the counter at the number of the others.
LEMMA CountRest ==
  ASSUME SliceInv, NEW s \in Slice
  PROVE  /\ CountWithout(s) \in [Cell -> Nat]
         /\ \A c \in Cell : CountWithout(s)[c] = Cardinality(Refs(c) \ {s})
<1>1. CASE cell[s] = Null
  <2>1. CountWithout(s) = count
    BY <1>1 DEF CountWithout
  <2>2. \A c \in Cell : Refs(c) \ {s} = Refs(c)
    BY <1>1, ByteSliceAssumption DEF Refs
  <2> QED
    BY <2>1, <2>2 DEF SliceInv, Shape, Links, CountsReferences
<1>2. CASE cell[s] # Null
  <2>1. cell[s] \in Cell /\ s \in alive
    BY <1>2 DEF SliceInv, Shape, Links, GhostsEmpty
  <2>2. CountWithout(s) = [count EXCEPT ![cell[s]] = count[cell[s]] - 1]
    BY <1>2 DEF CountWithout
  <2>3. s \in Refs(cell[s])
    BY <2>1 DEF Refs
  <2>4. /\ count[cell[s]] = Cardinality(Refs(cell[s]))
        /\ count[cell[s]] \in Nat
    BY <2>1 DEF SliceInv, Shape, Links, CountsReferences
  <2>5. /\ Cardinality(Refs(cell[s]) \ {s}) = count[cell[s]] - 1
        /\ IsFiniteSet(Refs(cell[s]) \ {s})
    BY <2>3, <2>4, RefsFinite, FS_RemoveElement DEF SliceInv, Shape
  <2>6. count[cell[s]] - 1 \in Nat
    BY <2>5, FS_CardinalityType
  <2>7. CountWithout(s) \in [Cell -> Nat]
    BY <2>1, <2>2, <2>6 DEF SliceInv, Shape
  <2>8. ASSUME NEW c \in Cell
        PROVE  CountWithout(s)[c] = Cardinality(Refs(c) \ {s})
    <3>1. CASE c = cell[s]
      BY <2>1, <2>2, <2>5, <3>1 DEF SliceInv, Shape
    <3>2. CASE c # cell[s]
      <4>1. Refs(c) \ {s} = Refs(c)
        BY <3>2 DEF Refs
      <4>2. CountWithout(s)[c] = count[c]
        BY <2>1, <2>2, <3>2 DEF SliceInv, Shape
      <4> QED
        BY <4>1, <4>2 DEF SliceInv, Links, CountsReferences
    <3> QED
      BY <3>1, <3>2
  <2> QED
    BY <2>7, <2>8
<1> QED
  BY <1>1, <1>2

\* try_deallocate leaves the buffers of the others, and nothing else.
LEMMA SizeRest ==
  ASSUME SliceInv, NEW s \in Slice
  PROVE  /\ SizeWithout(s) \in [Block -> Offset]
         /\ \A b \in Block : SizeWithout(s)[b] = size[b] \/ SizeWithout(s)[b] = 0
         /\ \A o \in alive \ {s} :
              base[o] # Null => SizeWithout(s)[base[o]] = cap[o]
         /\ \A b \in Block :
              SizeWithout(s)[b] > 0 => \E o \in alive \ {s} : base[o] = b
<1>1. CASE FreesBlock(s)
  <2>1. base[s] \in Block /\ s \in alive /\ Unique(s)
    BY <1>1 DEF FreesBlock, SliceInv, Shape, Links, GhostsEmpty
  <2>2. SizeWithout(s) = [size EXCEPT ![base[s]] = 0]
    BY <1>1 DEF SizeWithout
  <2>3. 0 \in Offset
    BY ByteSliceAssumption DEF Offset
  <2>4. \A o \in alive \ {s} : base[o] # base[s]
    BY <2>1, UniqueMeansAlone, ByteSliceAssumption
       DEF SliceInv, Shape, Links, SharedTogether
  <2>5. \A o \in alive \ {s} : base[o] # Null =>
          base[o] \in Block /\ size[base[o]] = cap[o]
    BY DEF SliceInv, Shape, Links, BuffersOwned
  <2>6. \A o \in alive \ {s} : base[o] # Null => SizeWithout(s)[base[o]] = cap[o]
    BY <2>2, <2>4, <2>5 DEF SliceInv, Shape
  <2>7. ASSUME NEW b \in Block, SizeWithout(s)[b] > 0
        PROVE  \E o \in alive \ {s} : base[o] = b
    <3>1. b # base[s]
      BY <2>2, <2>7 DEF SliceInv, Shape
    <3>2. size[b] > 0
      BY <2>2, <2>7, <3>1 DEF SliceInv, Shape
    <3> QED
      BY <3>1, <3>2 DEF SliceInv, Links, BuffersOwned
  <2> QED
    BY <2>1, <2>2, <2>3, <2>6, <2>7 DEF SliceInv, Shape
<1>2. CASE ~FreesBlock(s)
  <2>1. SizeWithout(s) = size
    BY <1>2 DEF SizeWithout
  <2>2. \A o \in alive \ {s} : base[o] # Null => size[base[o]] = cap[o]
    BY DEF SliceInv, Links, BuffersOwned
  <2>3. ASSUME NEW b \in Block, size[b] > 0
        PROVE  \E o \in alive \ {s} : base[o] = b
    <3>1. PICK o \in alive : base[o] = b
      BY <2>3 DEF SliceInv, Links, BuffersOwned
    <3>2. CASE o # s
      BY <3>1, <3>2
    <3>3. CASE o = s
      <4>1. base[s] # Null
        BY <3>1, <3>3, ByteSliceAssumption
      <4>2. cell[s] # Null
        BY <3>3, <4>1 DEF SliceInv, Links, SharedTogether
      <4>3. PICK u \in alive \ {s} : cell[u] = cell[s]
        BY <1>2, <3>3, <4>1, <4>2, SharedMeansOther DEF FreesBlock
      <4>4. base[u] = base[s]
        BY <3>3, <4>2, <4>3 DEF SliceInv, Links, SharedTogether
      <4> QED
        BY <3>1, <3>3, <4>3, <4>4
    <3> QED
      BY <3>2, <3>3
  <2> QED
    BY <2>1, <2>2, <2>3 DEF SliceInv, Shape
<1> QED
  BY <1>1, <1>2

-----------------------------------------------------------------------------
(* The ways of putting s back.                                             *)

\* The counters agree again once the sets of references have changed by s.
LEMMA CountsAgain ==
  ASSUME SliceInv, NEW s \in Slice, NEW d \in Cell,
         count' = [CountWithout(s) EXCEPT ![d] = CountWithout(s)[d] + 1],
         Refs(d)' = (Refs(d) \ {s}) \cup {s},
         \A c \in Cell \ {d} : Refs(c)' = Refs(c) \ {s}
  PROVE  CountsReferences' /\ count' \in [Cell -> Nat]
<1>1. CountWithout(s) \in [Cell -> Nat]
  BY CountRest
<1>2. \A c \in Cell \ {d} : count'[c] = Cardinality(Refs(c)')
  BY <1>1, CountRest
<1>3. IsFiniteSet(Refs(d) \ {s})
  BY RefsFinite, FS_RemoveElement DEF SliceInv, Shape
<1>4. Cardinality((Refs(d) \ {s}) \cup {s}) = Cardinality(Refs(d) \ {s}) + 1
  BY <1>3, FS_AddElement
<1>5. count'[d] = Cardinality(Refs(d)')
  BY <1>1, <1>4, CountRest
<1> QED
  BY <1>1, <1>2, <1>5 DEF CountsReferences

\* s gets a buffer and a counter of its own: construction and growth.
LEMMA PutFresh ==
  ASSUME SliceInv, NEW s \in Slice, NEW b \in Block, NEW c \in Cell,
         NEW k \in Offset, NEW n \in Offset, 0 < k, n <= k,
         size[b] = 0, CountWithout(s)[c] = 0,
         alive' = alive \cup {s},
         size' = [SizeWithout(s) EXCEPT ![b] = k],
         count' = [CountWithout(s) EXCEPT ![c] = 1],
         Becomes(s, b, 0, n, k, c)
  PROVE  SliceInv'
<1> b # Null /\ c # Null
  BY ByteSliceAssumption
<1>1. Shape'
  <2>1. 0 \in Offset
    BY ByteSliceAssumption DEF Offset
  <2> QED
    BY <2>1, CountRest, SizeRest DEF SliceInv, Shape, Becomes
<1>2. /\ base'[s] = b /\ head'[s] = 0 /\ tail'[s] = n /\ cap'[s] = k /\ cell'[s] = c
      /\ \A o \in Slice \ {s} : /\ base'[o] = base[o] /\ head'[o] = head[o]
                                /\ tail'[o] = tail[o] /\ cap'[o] = cap[o]
                                /\ cell'[o] = cell[o]
  BY DEF SliceInv, Shape, Becomes
<1>3. Refs(c) \ {s} = {}
  <2>1. IsFiniteSet(Refs(c) \ {s}) /\ Cardinality(Refs(c) \ {s}) = 0
    BY CountRest, RefsFinite, FS_RemoveElement DEF SliceInv, Shape
  <2> QED
    BY <2>1, FS_EmptySet
<1>4. CountsReferences'
  <2>1. Refs(c)' = (Refs(c) \ {s}) \cup {s}
    BY <1>2 DEF Refs, SliceInv, Shape
  <2>2. \A d \in Cell \ {c} : Refs(d)' = Refs(d) \ {s}
    BY <1>2 DEF Refs, SliceInv, Shape
  <2>3. CountWithout(s)[c] + 1 = 1
    OBVIOUS
  <2>4. count' = [CountWithout(s) EXCEPT ![c] = CountWithout(s)[c] + 1]
    BY <2>3
  <2> QED
    BY <2>1, <2>2, <2>4, CountsAgain
<1>5. BuffersOwned'
  <2>1. \A o \in alive \ {s} : base[o] # Null =>
           base[o] \in Block /\ base[o] # b /\ cap[o] > 0
    BY DEF SliceInv, Shape, Links, BuffersOwned, Offset
  <2>2. \A o \in alive \ {s} : base[o] # Null => size'[base[o]] = cap[o] /\ cap[o] > 0
    BY <2>1, SizeRest
  <2>3. size'[b] = k
    BY SizeRest
  <2>4. \A a \in Block \ {b} : size'[a] > 0 => \E o \in alive \ {s} : base[o] = a
    BY SizeRest
  <2> QED
    BY <1>2, <2>2, <2>3, <2>4 DEF BuffersOwned, SliceInv, Shape
<1>6. SharedTogether'
  <2>1. \A o \in alive \ {s} : base[o] # b /\ cell[o] # c
    BY <1>3 DEF SliceInv, Shape, Links, BuffersOwned, Refs, Offset
  <2> QED
    BY <1>2, <2>1 DEF SharedTogether, SliceInv, Shape, Links
<1>7. GhostsEmpty' /\ InBounds'
  BY <1>2, ByteSliceAssumption DEF GhostsEmpty, InBounds, SliceInv, Shape, Links, Offset
<1> QED
  BY <1>1, <1>4, <1>5, <1>6, <1>7 DEF SliceInv, Links

\* s gets a counter and no buffer: default construction.
LEMMA PutEmpty ==
  ASSUME SliceInv, NEW s \in Slice \ alive, NEW c \in Cell, count[c] = 0,
         alive' = alive \cup {s},
         count' = [count EXCEPT ![c] = 1],
         Becomes(s, Null, 0, 0, 0, c), UNCHANGED size
  PROVE  SliceInv'
<1> c # Null
  BY ByteSliceAssumption
<1>1. CountWithout(s) = count
  BY DEF CountWithout, SliceInv, Links, GhostsEmpty
<1>2. 0 \in Offset
  BY ByteSliceAssumption DEF Offset
<1>3. /\ base'[s] = Null /\ head'[s] = 0 /\ tail'[s] = 0 /\ cap'[s] = 0 /\ cell'[s] = c
      /\ \A o \in Slice \ {s} : /\ base'[o] = base[o] /\ head'[o] = head[o]
                                /\ tail'[o] = tail[o] /\ cap'[o] = cap[o]
                                /\ cell'[o] = cell[o]
  BY <1>2 DEF SliceInv, Shape, Becomes
<1>4. Refs(c) = {}
  <2>1. IsFiniteSet(Refs(c)) /\ Cardinality(Refs(c)) = 0
    BY RefsFinite DEF SliceInv, Shape, Links, CountsReferences
  <2> QED
    BY <2>1, FS_EmptySet
<1>5. CountsReferences' /\ count' \in [Cell -> Nat]
  <2>1. Refs(c)' = (Refs(c) \ {s}) \cup {s}
    BY <1>3 DEF Refs, SliceInv, Shape
  <2>2. \A d \in Cell \ {c} : Refs(d)' = Refs(d) \ {s}
    BY <1>3 DEF Refs, SliceInv, Shape
  <2>3. CountWithout(s)[c] + 1 = 1
    BY <1>1
  <2>4. count' = [CountWithout(s) EXCEPT ![c] = CountWithout(s)[c] + 1]
    BY <1>1, <2>3
  <2> QED
    BY <2>1, <2>2, <2>4, CountsAgain
<1>6. Shape'
  BY <1>2, <1>5 DEF SliceInv, Shape, Becomes
<1>7. BuffersOwned'
  <2>1. \A o \in alive : o # s
    OBVIOUS
  <2> QED
    BY <1>3, <2>1 DEF BuffersOwned, SliceInv, Shape, Links
<1>8. SharedTogether'
  <2>1. \A o \in alive : cell[o] # c
    BY <1>4 DEF Refs
  <2> QED
    BY <1>3, <2>1 DEF SharedTogether, SliceInv, Shape, Links
<1>9. GhostsEmpty' /\ InBounds'
  BY <1>3, ByteSliceAssumption DEF GhostsEmpty, InBounds, SliceInv, Shape, Links, Offset
<1> QED
  BY <1>5, <1>6, <1>7, <1>8, <1>9 DEF SliceInv, Links

\* s becomes an alias of o: copies.
LEMMA PutAlias ==
  ASSUME SliceInv, NEW s \in Slice, NEW o \in alive, s # o, cell[o] # Null,
         alive' = alive \cup {s},
         size' = SizeWithout(s),
         count' = [CountWithout(s) EXCEPT ![cell[o]] = CountWithout(s)[cell[o]] + 1],
         Becomes(s, base[o], head[o], tail[o], cap[o], cell[o])
  PROVE  SliceInv'
<1>1. o \in Slice /\ cell[o] \in Cell
  BY DEF SliceInv, Shape
<1>2. /\ base'[s] = base[o] /\ head'[s] = head[o] /\ tail'[s] = tail[o]
      /\ cap'[s] = cap[o] /\ cell'[s] = cell[o]
      /\ \A u \in Slice \ {s} : /\ base'[u] = base[u] /\ head'[u] = head[u]
                                /\ tail'[u] = tail[u] /\ cap'[u] = cap[u]
                                /\ cell'[u] = cell[u]
  BY DEF SliceInv, Shape, Becomes
<1>3. CountsReferences' /\ count' \in [Cell -> Nat]
  <2>1. PICK d \in Cell : d = cell[o]
    BY <1>1
  <2>2. Refs(d)' = (Refs(d) \ {s}) \cup {s}
    BY <1>1, <1>2, <2>1 DEF Refs, SliceInv, Shape
  <2>3. \A c \in Cell \ {d} : Refs(c)' = Refs(c) \ {s}
    BY <1>2, <2>1 DEF Refs, SliceInv, Shape
  <2>4. count' = [CountWithout(s) EXCEPT ![d] = CountWithout(s)[d] + 1]
    BY <2>1
  <2> QED
    BY <2>2, <2>3, <2>4, CountsAgain
<1>4. Shape'
  BY <1>1, <1>3, SizeRest DEF SliceInv, Shape, Becomes
<1>5. BuffersOwned'
  <2>1. \A u \in alive \ {s} : base[u] # Null => SizeWithout(s)[base[u]] = cap[u] /\ cap[u] > 0
    BY SizeRest DEF SliceInv, Links, BuffersOwned
  <2>2. \A b \in Block : SizeWithout(s)[b] > 0 => \E u \in alive \ {s} : base[u] = b
    BY SizeRest
  <2> QED
    BY <1>1, <1>2, <2>1, <2>2 DEF BuffersOwned, SliceInv, Shape
<1>6. SharedTogether'
  BY <1>1, <1>2 DEF SharedTogether, SliceInv, Shape, Links
<1>7. GhostsEmpty' /\ InBounds'
  BY <1>1, <1>2 DEF GhostsEmpty, InBounds, SliceInv, Shape, Links
<1> QED
  BY <1>3, <1>4, <1>5, <1>6, <1>7 DEF SliceInv, Links

\* s ends up with nothing: destruction, and a move from itself.
LEMMA PutNothing ==
  ASSUME SliceInv, NEW s \in alive,
         alive' = alive \/ alive' = alive \ {s},
         size' = SizeWithout(s),
         count' = CountWithout(s),
         Becomes(s, Null, 0, 0, 0, Null)
  PROVE  SliceInv'
<1>1. s \in Slice /\ 0 \in Offset
  BY ByteSliceAssumption DEF SliceInv, Shape, Offset
<1>2. /\ base'[s] = Null /\ head'[s] = 0 /\ tail'[s] = 0 /\ cap'[s] = 0 /\ cell'[s] = Null
      /\ \A u \in Slice \ {s} : /\ base'[u] = base[u] /\ head'[u] = head[u]
                                /\ tail'[u] = tail[u] /\ cap'[u] = cap[u]
                                /\ cell'[u] = cell[u]
  BY <1>1 DEF SliceInv, Shape, Becomes
<1>3. CountsReferences'
  <2>1. \A d \in Cell : Refs(d)' = Refs(d) \ {s}
    BY <1>2, ByteSliceAssumption DEF Refs, SliceInv, Shape
  <2> QED
    BY <1>1, <2>1, CountRest DEF CountsReferences
<1>4. Shape'
  BY <1>1, CountRest, SizeRest DEF SliceInv, Shape, Becomes
<1>5. BuffersOwned'
  <2>1. \A u \in alive \ {s} : base[u] # Null => SizeWithout(s)[base[u]] = cap[u] /\ cap[u] > 0
    BY <1>1, SizeRest DEF SliceInv, Links, BuffersOwned
  <2>2. \A b \in Block : SizeWithout(s)[b] > 0 => \E u \in alive \ {s} : base[u] = b
    BY <1>1, SizeRest
  <2> QED
    BY <1>1, <1>2, <2>1, <2>2 DEF BuffersOwned, SliceInv, Shape
<1>6. SharedTogether'
  BY <1>2 DEF SharedTogether, SliceInv, Shape, Links
<1>7. GhostsEmpty' /\ InBounds'
  BY <1>1, <1>2 DEF GhostsEmpty, InBounds, SliceInv, Shape, Links, Offset
<1> QED
  BY <1>3, <1>4, <1>5, <1>6, <1>7 DEF SliceInv, Links

\* s takes everything o had: moves.
LEMMA PutMoved ==
  ASSUME SliceInv, NEW s \in Slice, NEW o \in alive, s # o,
         alive' = alive \cup {s},
         size' = SizeWithout(s),
         count' = CountWithout(s),
         Moves(s, o)
  PROVE  SliceInv'
<1>1. o \in Slice /\ 0 \in Offset
  BY ByteSliceAssumption DEF SliceInv, Shape, Offset
<1>2. /\ base'[s] = base[o] /\ head'[s] = head[o] /\ tail'[s] = tail[o]
      /\ cap'[s] = cap[o] /\ cell'[s] = cell[o]
      /\ base'[o] = Null /\ head'[o] = 0 /\ tail'[o] = 0 /\ cap'[o] = 0 /\ cell'[o] = Null
      /\ \A u \in Slice \ {s, o} : /\ base'[u] = base[u] /\ head'[u] = head[u]
                                   /\ tail'[u] = tail[u] /\ cap'[u] = cap[u]
                                   /\ cell'[u] = cell[u]
  BY <1>1 DEF SliceInv, Shape, Moves
<1>3. CountsReferences'
  <2>1. ASSUME NEW d \in Cell
        PROVE  Cardinality(Refs(d)') = Cardinality(Refs(d) \ {s})
    <3>1. CASE d = cell[o]
      <4>1. Refs(d)' = ((Refs(d) \ {s}) \ {o}) \cup {s}
        BY <1>1, <1>2, <3>1, ByteSliceAssumption DEF Refs, SliceInv, Shape
      <4>2. o \in Refs(d) \ {s}
        BY <3>1 DEF Refs
      <4>3. IsFiniteSet(Refs(d) \ {s}) /\ Cardinality(Refs(d) \ {s}) \in Nat
        BY RefsFinite, FS_RemoveElement, FS_CardinalityType DEF SliceInv, Shape
      <4>4. /\ IsFiniteSet((Refs(d) \ {s}) \ {o})
            /\ Cardinality((Refs(d) \ {s}) \ {o}) = Cardinality(Refs(d) \ {s}) - 1
        BY <4>2, <4>3, FS_RemoveElement
      <4>5. Cardinality(((Refs(d) \ {s}) \ {o}) \cup {s})
              = Cardinality((Refs(d) \ {s}) \ {o}) + 1
        BY <4>4, FS_AddElement
      <4> QED
        BY <4>1, <4>3, <4>4, <4>5
    <3>2. CASE d # cell[o]
      <4>1. Refs(d)' = Refs(d) \ {s}
        BY <1>1, <1>2, <3>2, ByteSliceAssumption DEF Refs, SliceInv, Shape
      <4> QED
        BY <4>1
    <3> QED
      BY <3>1, <3>2
  <2> QED
    BY <2>1, CountRest DEF CountsReferences
<1>4. Shape'
  BY <1>1, CountRest, SizeRest DEF SliceInv, Shape, Moves
<1>5. BuffersOwned'
  <2>1. \A u \in alive \ {s} : base[u] # Null => SizeWithout(s)[base[u]] = cap[u] /\ cap[u] > 0
    BY SizeRest DEF SliceInv, Links, BuffersOwned
  <2>2. ASSUME NEW u \in alive', base'[u] # Null
        PROVE  size'[base'[u]] = cap'[u] /\ cap'[u] > 0
    <3>1. u # o
      BY <1>2, <2>2
    <3> QED
      BY <1>2, <2>1, <2>2, <3>1 DEF SliceInv, Shape
  <2>3. ASSUME NEW b \in Block, size'[b] > 0
        PROVE  \E u \in alive' : base'[u] = b
    <3>1. PICK u \in alive \ {s} : base[u] = b
      BY <2>3, SizeRest
    <3>2. CASE u = o
      BY <1>2, <3>1, <3>2
    <3>3. CASE u # o
      BY <1>2, <3>1, <3>3 DEF SliceInv, Shape
    <3> QED
      BY <3>2, <3>3
  <2> QED
    BY <2>2, <2>3 DEF BuffersOwned
<1>6. SharedTogether'
  BY <1>1, <1>2, ByteSliceAssumption DEF SharedTogether, SliceInv, Shape, Links
<1>7. GhostsEmpty' /\ InBounds'
  BY <1>1, <1>2 DEF GhostsEmpty, InBounds, SliceInv, Shape, Links, Offset
<1> QED
  BY <1>3, <1>4, <1>5, <1>6, <1>7 DEF SliceInv, Links

-----------------------------------------------------------------------------
(* Bytes.                                                                  *)

MemShape == mem \in [Block -> [Index -> Byte \cup {Stale}]] /\ fault \in BOOLEAN

\* The bytes a slice shows are as many as its size(), and are bytes of memory.
LEMMA ContentIsSeq ==
  ASSUME SliceInv, MemShape, NEW s \in alive
  PROVE  /\ Content(s) \in Seq(Byte \cup {Stale})
         /\ Len(Content(s)) = tail[s] - head[s]
         /\ tail[s] - head[s] \in Nat
<1>1. /\ head[s] \in Nat /\ tail[s] \in Nat /\ cap[s] \in Nat
      /\ cap[s] <= MaxCap /\ MaxCap \in Nat
      /\ head[s] <= tail[s] /\ tail[s] <= cap[s]
  BY ByteSliceAssumption DEF SliceInv, Shape, Links, InBounds, Offset
<1>2. tail[s] - head[s] \in Nat
  BY <1>1
<1>3. ASSUME NEW i \in 1 .. tail[s] - head[s]
      PROVE  mem[base[s]][head[s] + i - 1] \in Byte \cup {Stale}
  <2>1. head[s] + i - 1 \in Index
    BY <1>1 DEF Index, Offset
  <2>2. cap[s] # 0
    BY <1>1, <1>3
  <2>3. base[s] \in Block
    BY <2>2 DEF SliceInv, Shape, Links, InBounds
  <2> QED
    BY <2>1, <2>3 DEF MemShape
<1>4. Content(s) \in [1 .. tail[s] - head[s] -> Byte \cup {Stale}]
  BY <1>3 DEF Content
<1> QED
  BY <1>2, <1>4

\* A block that is written starts with the given bytes.
LEMMA HoldingShape ==
  ASSUME NEW bytes \in Seq(Byte \cup {Stale})
  PROVE  Holding(bytes) \in [Index -> Byte \cup {Stale}]
<1>1. ASSUME NEW i \in Index, i < Len(bytes)
      PROVE  bytes[i + 1] \in Byte \cup {Stale}
  BY <1>1, ByteSliceAssumption DEF Index, Offset
<1> QED
  BY <1>1 DEF Holding

LEMMA MemRest ==
  ASSUME MemShape, NEW s \in Slice
  PROVE  MemWithout(s) \in [Block -> [Index -> Byte \cup {Stale}]]
BY DEF MemShape, MemWithout, Fresh

-----------------------------------------------------------------------------
(* The operations.                                                         *)

LEMMA GrowKeeps ==
  ASSUME SliceInv, MemShape, NEW s \in alive, NEW k \in Offset,
         NEW bytes \in Seq(Byte \cup {Stale}), 0 < k, Len(bytes) <= k,
         Grow(s, k, bytes), UNCHANGED <<alive, fault>>
  PROVE  SliceInv' /\ MemShape'
<1>1. s \in Slice /\ Len(bytes) \in Offset /\ alive' = alive \cup {s}
  BY ByteSliceAssumption DEF SliceInv, Shape, Offset
<1>2. PICK b \in Block, c \in Cell :
        /\ size[b] = 0
        /\ CountWithout(s)[c] = 0
        /\ size' = [SizeWithout(s) EXCEPT ![b] = k]
        /\ mem' = [MemWithout(s) EXCEPT ![b] = Holding(bytes)]
        /\ count' = [CountWithout(s) EXCEPT ![c] = 1]
        /\ Becomes(s, b, 0, Len(bytes), k, c)
  BY DEF Grow
<1>3. SliceInv'
  BY <1>1, <1>2, PutFresh
<1>4. MemShape'
  BY <1>1, <1>2, MemRest, HoldingShape DEF MemShape
<1> QED
  BY <1>3, <1>4

LEMMA ConstructKeeps ==
  ASSUME SliceInv, MemShape, NEW s \in Slice, NEW bytes \in Contents,
         Construct(s, bytes)
  PROVE  SliceInv' /\ MemShape'
<1>1. bytes \in Seq(Byte \cup {Stale}) /\ Len(bytes) \in Nat
  BY ByteSliceAssumption DEF Contents, Offset
<1>2. PICK k \in Offset, b \in Block, c \in Cell :
        /\ RoundsUp(Len(bytes) + 1, k)
        /\ size[b] = 0 /\ count[c] = 0
        /\ size' = [size EXCEPT ![b] = k]
        /\ mem' = [mem EXCEPT ![b] = Holding(bytes)]
        /\ count' = [count EXCEPT ![c] = 1]
        /\ Becomes(s, b, 0, Len(bytes), k, c)
  BY DEF Construct
<1>3. Len(bytes) + 1 <= k
  BY <1>2 DEF RoundsUp
<1>4. 0 < k /\ Len(bytes) <= k /\ Len(bytes) \in Offset
  BY <1>1, <1>3, ByteSliceAssumption DEF Offset
<1>5. CountWithout(s) = count /\ SizeWithout(s) = size
  BY DEF Construct, CountWithout, SizeWithout, FreesBlock, SliceInv, Links, GhostsEmpty
<1>6. SliceInv'
  BY <1>2, <1>4, <1>5, PutFresh DEF Construct
<1>7. MemShape'
  BY <1>1, <1>2, HoldingShape DEF MemShape, Construct
<1> QED
  BY <1>6, <1>7

\* Only head_ or the bytes change: prefixes, and writes in place.
LEMMA InPlaceKeeps ==
  ASSUME SliceInv, MemShape, NEW s \in alive,
         NEW h \in Offset, NEW t \in Offset, h <= t, t <= cap[s],
         head' = [head EXCEPT ![s] = h], tail' = [tail EXCEPT ![s] = t],
         UNCHANGED <<alive, base, cap, cell, count, size>>
  PROVE  SliceInv'
<1>1. Shape'
  BY DEF SliceInv, Shape
<1>2. CountsReferences' /\ BuffersOwned' /\ SharedTogether' /\ GhostsEmpty'
  BY DEF SliceInv, Links, CountsReferences, Refs, BuffersOwned, SharedTogether, GhostsEmpty
<1>3. InBounds'
  BY DEF SliceInv, Shape, Links, InBounds
<1> QED
  BY <1>1, <1>2, <1>3 DEF SliceInv, Links

LEMMA SliceStep ==
  ASSUME SliceInv, MemShape, SliceNext
  PROVE  SliceInv' /\ MemShape'
<1>1. ASSUME NEW s \in Slice, DefaultConstruct(s)
      PROVE  SliceInv' /\ MemShape'
  BY <1>1, PutEmpty DEF DefaultConstruct, MemShape
<1>2. ASSUME NEW s \in Slice, Destroy(s)
      PROVE  SliceInv' /\ MemShape'
  BY <1>2, PutNothing, MemRest DEF Destroy, MemShape
<1>3. ASSUME NEW s \in Slice, NEW bytes \in Contents, Construct(s, bytes)
      PROVE  SliceInv' /\ MemShape'
  BY <1>3, ConstructKeeps
<1>4. ASSUME NEW s \in Slice, NEW o \in Slice, CopyConstruct(s, o)
      PROVE  SliceInv' /\ MemShape'
  <2>1. s # o /\ o \in alive /\ cell[o] # Null /\ alive' = alive \cup {s}
    BY <1>4 DEF CopyConstruct
  <2>2. CountWithout(s) = count /\ SizeWithout(s) = size
    BY <1>4 DEF CopyConstruct, CountWithout, SizeWithout, FreesBlock, SliceInv, Links,
                GhostsEmpty
  <2>3. SliceInv'
    BY <1>4, <2>1, <2>2, PutAlias DEF CopyConstruct
  <2> QED
    BY <1>4, <2>3 DEF CopyConstruct, MemShape
<1>5. ASSUME NEW s \in Slice, NEW o \in Slice, CopyAssign(s, o)
      PROVE  SliceInv' /\ MemShape'
  <2>1. s # o /\ o \in alive /\ cell[o] # Null /\ alive' = alive \cup {s}
    BY <1>5 DEF CopyAssign
  <2>2. SliceInv'
    BY <1>5, <2>1, PutAlias DEF CopyAssign
  <2> QED
    BY <1>5, <2>2, MemRest DEF CopyAssign, MemShape
<1>6. ASSUME NEW s \in Slice, NEW o \in Slice, MoveConstruct(s, o)
      PROVE  SliceInv' /\ MemShape'
  <2>1. CountWithout(s) = count /\ SizeWithout(s) = size
    BY <1>6 DEF MoveConstruct, CountWithout, SizeWithout, FreesBlock, SliceInv, Links,
                GhostsEmpty
  <2>2. s # o /\ o \in alive /\ alive' = alive \cup {s} /\ Moves(s, o)
    BY <1>6 DEF MoveConstruct
  <2>3. SliceInv'
    BY <1>6, <2>1, <2>2, PutMoved DEF MoveConstruct
  <2> QED
    BY <1>6, <2>3 DEF MoveConstruct, MemShape
<1>7. ASSUME NEW s \in Slice, NEW o \in Slice, MoveAssign(s, o)
      PROVE  SliceInv' /\ MemShape'
  <2>1. MemShape'
    BY <1>7, MemRest DEF MoveAssign, MemShape
  <2>2. CASE s = o
    <3>1. Becomes(s, Null, 0, 0, 0, Null)
      BY <1>7, <2>2 DEF MoveAssign, Moves, Becomes, SliceInv, Shape
    <3> QED
      BY <1>7, <2>1, <3>1, PutNothing DEF MoveAssign
  <2>3. CASE s # o
    <3>1. alive' = alive \cup {s}
      BY <1>7 DEF MoveAssign
    <3> QED
      BY <1>7, <2>1, <2>3, <3>1, PutMoved DEF MoveAssign
  <2> QED
    BY <2>2, <2>3
<1>8. CASE CopyOfMovedFrom
  <2>1. UNCHANGED <<alive, base, head, tail, cap, cell, count, size, mem>> /\ fault' = TRUE
    BY <1>8 DEF CopyOfMovedFrom
  <2> QED
    BY <2>1 DEF SliceInv, Shape, Links, CountsReferences, Refs, BuffersOwned, SharedTogether,
                GhostsEmpty, InBounds, MemShape
<1>9. ASSUME NEW s \in Slice, NEW v \in Byte, AppendGrows(s, v)
      PROVE  SliceInv' /\ MemShape'
  <2> DEFINE k == IF cap[s] = 0 THEN 1 ELSE cap[s] * 2
  <2>1. s \in alive /\ tail[s] = cap[s] /\ k <= MaxCap
    BY <1>9 DEF AppendGrows
  <2>2. /\ head[s] \in Nat /\ cap[s] \in Nat /\ head[s] <= tail[s] /\ MaxCap \in Nat
    BY ByteSliceAssumption DEF SliceInv, Shape, Links, InBounds, Offset
  <2>3. k \in Offset /\ 0 < k /\ cap[s] + 1 <= k
    BY <2>1, <2>2 DEF Offset
  <2>4. /\ Append(Content(s), v) \in Seq(Byte \cup {Stale})
        /\ Len(Append(Content(s), v)) = tail[s] - head[s] + 1
    BY <2>1, ContentIsSeq
  <2>5. Len(Append(Content(s), v)) <= k
    BY <2>1, <2>2, <2>3, <2>4
  <2>6. Grow(s, k, Append(Content(s), v)) /\ UNCHANGED <<alive, fault>>
    BY <1>9 DEF AppendGrows
  <2> HIDE DEF k
  <2> QED
    BY <2>1, <2>3, <2>4, <2>5, <2>6, GrowKeeps
<1>10. ASSUME NEW s \in Slice, NEW v \in Byte, AppendInPlace(s, v)
       PROVE  SliceInv' /\ MemShape'
  <2>1. /\ s \in alive /\ tail[s] < cap[s]
        /\ mem' = [mem EXCEPT ![base[s]] = [mem[base[s]] EXCEPT ![tail[s]] = v]]
        /\ tail' = [tail EXCEPT ![s] = tail[s] + 1]
        /\ UNCHANGED <<alive, base, head, cap, cell, count, size, fault>>
    BY <1>10 DEF AppendInPlace
  <2>2. /\ head[s] \in Offset /\ tail[s] \in Nat /\ cap[s] \in Nat /\ head[s] <= tail[s]
        /\ head[s] \in Nat /\ cap[s] <= MaxCap /\ MaxCap \in Nat
    BY ByteSliceAssumption DEF SliceInv, Shape, Links, InBounds, Offset
  <2>3. tail[s] + 1 \in Offset /\ tail[s] \in Index /\ head[s] <= tail[s] + 1
        /\ tail[s] + 1 <= cap[s]
    BY <2>1, <2>2 DEF Offset, Index
  <2>4. head' = [head EXCEPT ![s] = head[s]]
    BY <2>1 DEF SliceInv, Shape
  <2>5. SliceInv'
    BY <2>1, <2>2, <2>3, <2>4, InPlaceKeeps
  <2>6. base[s] \in Block
    BY <2>1, <2>2 DEF SliceInv, Shape, Links, InBounds
  <2>7. MemShape'
    BY <2>1, <2>3, <2>6 DEF MemShape
  <2> QED
    BY <2>5, <2>7
<1>11. ASSUME NEW s \in Slice, NEW k \in Offset, Reserve(s, k)
       PROVE  SliceInv' /\ MemShape'
  <2>1. /\ s \in alive /\ cap[s] < k
        /\ Grow(s, k, Content(s)) /\ UNCHANGED <<alive, fault>>
    BY <1>11 DEF Reserve
  <2>2. /\ head[s] \in Nat /\ tail[s] \in Nat /\ cap[s] \in Nat /\ k \in Nat
        /\ tail[s] <= cap[s]
    BY ByteSliceAssumption DEF SliceInv, Shape, Links, InBounds, Offset
  <2>3. 0 < k /\ tail[s] - head[s] <= k
    BY <2>1, <2>2
  <2> QED
    BY <2>1, <2>3, ContentIsSeq, GrowKeeps
<1>12. ASSUME NEW s \in Slice, NEW n \in Offset \ {0}, RemovePrefix(s, n)
       PROVE  SliceInv' /\ MemShape'
  <2>1. /\ s \in alive /\ n <= tail[s] - head[s]
        /\ head' = [head EXCEPT ![s] = head[s] + n]
        /\ UNCHANGED <<alive, base, tail, cap, cell, count, size, mem, fault>>
    BY <1>12 DEF RemovePrefix
  <2>2. /\ head[s] \in Nat /\ tail[s] \in Offset /\ tail[s] \in Nat /\ cap[s] \in Nat
        /\ n \in Nat /\ tail[s] <= MaxCap /\ tail[s] <= cap[s] /\ MaxCap \in Nat
    BY ByteSliceAssumption DEF SliceInv, Shape, Links, InBounds, Offset
  <2>3. head[s] + n \in Offset /\ head[s] + n <= tail[s]
    BY <2>1, <2>2 DEF Offset
  <2>4. tail' = [tail EXCEPT ![s] = tail[s]]
    BY <2>1 DEF SliceInv, Shape
  <2>5. SliceInv'
    BY <2>1, <2>2, <2>3, <2>4, InPlaceKeeps
  <2> QED
    BY <2>1, <2>5 DEF MemShape
<1>13. ASSUME NEW s \in Slice, NEW i \in Index, NEW v \in Byte, SetByte(s, i, v)
       PROVE  SliceInv' /\ MemShape'
  <2>1. /\ s \in alive /\ i < tail[s] - head[s]
        /\ mem' = [mem EXCEPT ![base[s]] = [mem[base[s]] EXCEPT ![head[s] + i] = v]]
        /\ UNCHANGED <<alive, base, head, tail, cap, cell, count, size, fault>>
    BY <1>13 DEF SetByte
  <2>2. SliceInv'
    BY <2>1 DEF SliceInv, Shape, Links, CountsReferences, Refs, BuffersOwned,
                SharedTogether, GhostsEmpty, InBounds
  <2> QED
    BY <2>1, <2>2 DEF MemShape
<1> QED
  BY <1>1, <1>2, <1>3, <1>4, <1>5, <1>6, <1>7, <1>8, <1>9, <1>10, <1>11, <1>12, <1>13
     DEF SliceNext

-----------------------------------------------------------------------------
\* The invariant holds in every reachable state, whatever the order in which the
\* slices are constructed, copied, moved, grown and destroyed.
THEOREM SliceInvariance == SliceSpec => [](SliceInv /\ MemShape)
<1>1. SliceInit => SliceInv /\ MemShape
  <2> SUFFICES ASSUME SliceInit
               PROVE  SliceInv /\ MemShape
    OBVIOUS
  <2>1. Shape
    <3>1. 0 \in Offset /\ 0 \in Nat
      BY ByteSliceAssumption DEF Offset
    <3> QED
      BY <3>1 DEF SliceInit, Shape
  <2>2. MemShape
    <3>1. mem \in [Block -> [Index -> Byte \cup {Stale}]]
      BY DEF SliceInit, Fresh
    <3>2. fault \in BOOLEAN
      BY DEF SliceInit
    <3> QED
      BY <3>1, <3>2 DEF MemShape
  <2>3. CountsReferences
    BY FS_EmptySet DEF SliceInit, CountsReferences, Refs
  <2>4. BuffersOwned /\ SharedTogether /\ GhostsEmpty /\ InBounds
    BY DEF SliceInit, BuffersOwned, SharedTogether, GhostsEmpty, InBounds
  <2> QED
    BY <2>1, <2>2, <2>3, <2>4 DEF SliceInv, Links
<1>2. SliceInv /\ MemShape /\ [SliceNext]_sliceVars => SliceInv' /\ MemShape'
  <2>1. SliceInv /\ MemShape /\ UNCHANGED sliceVars => SliceInv' /\ MemShape'
    BY DEF SliceInv, Shape, Links, CountsReferences, Refs, BuffersOwned, SharedTogether,
           GhostsEmpty, InBounds, MemShape, sliceVars
  <2> QED
    BY <2>1, SliceStep
<1> QED
  BY <1>1, <1>2, PTL DEF SliceSpec

\* The members of the slices, counters and buffers have their types (SliceTypeOK).
THEOREM SliceTypeCorrect == SliceSpec => []SliceTypeOK
<1>1. SliceInv /\ MemShape => SliceTypeOK
  BY DEF SliceInv, Shape, MemShape, SliceTypeOK
<1> QED
  BY <1>1, SliceInvariance, PTL

\* Reference counts are exact: the number of slices that hold the counter.
THEOREM CountsAreExact == SliceSpec => []CountsReferences
<1>1. SliceInv => CountsReferences
  BY DEF SliceInv, Links
<1> QED
  BY <1>1, SliceInvariance, PTL

\* No buffer leaks, and no live slice points to one that was freed.
THEOREM NoLeakNoDangling == SliceSpec => []BuffersOwned
<1>1. SliceInv => BuffersOwned
  BY DEF SliceInv, Links
<1> QED
  BY <1>1, SliceInvariance, PTL

\* unique() means sole owner of the buffer.
THEOREM UniqueIsSole == SliceSpec => []SharedTogether
<1>1. SliceInv => SharedTogether
  BY DEF SliceInv, Links
<1> QED
  BY <1>1, SliceInvariance, PTL

-----------------------------------------------------------------------------
(* What slices show.                                                       *)

\* Every byte in [head_, tail_) was written.
Shown(s) == \A j \in Nat : head[s] <= j /\ j < tail[s] => mem[base[s]][j] \in Byte
AllShown == \A s \in alive : Shown(s)

BytesInv == SliceInv /\ MemShape /\ AllShown

\* A buffer that somebody else shows survives when s lets go of its own.
LEMMA MemOfOthers ==
  ASSUME SliceInv, MemShape, NEW s \in Slice, NEW u \in alive \ {s}, base[u] # Null
  PROVE  MemWithout(s)[base[u]] = mem[base[u]]
<1>1. CASE FreesBlock(s)
  <2>1. base[s] \in Block /\ s \in alive /\ Unique(s)
    BY <1>1 DEF FreesBlock, SliceInv, Shape, Links, GhostsEmpty
  <2>2. base[u] # base[s]
    BY <2>1, UniqueMeansAlone DEF SliceInv, Shape, Links, SharedTogether
  <2>3. MemWithout(s) = [mem EXCEPT ![base[s]] = Fresh]
    BY <1>1 DEF MemWithout
  <2>4. base[u] \in Block
    BY DEF SliceInv, Shape
  <2> QED
    BY <2>1, <2>2, <2>3, <2>4 DEF MemShape
<1>2. CASE ~FreesBlock(s)
  BY <1>2 DEF MemWithout
<1> QED
  BY <1>1, <1>2

\* A block that was free is shown by nobody.
LEMMA FreeBlockUnshown ==
  ASSUME SliceInv, NEW b \in Block, size[b] = 0, NEW u \in alive, base[u] # Null
  PROVE  base[u] # b
BY DEF SliceInv, Shape, Links, BuffersOwned, Offset

\* A slice w that shows no more of a buffer than u did shows what was written.
LEMMA ShownKept ==
  ASSUME SliceInv, NEW u \in alive, Shown(u), NEW w,
         base'[w] = base[u], head'[w] \in Nat, tail'[w] \in Nat,
         head[u] <= head'[w], tail'[w] <= tail[u],
         base[u] # Null => mem'[base[u]] = mem[base[u]]
  PROVE  Shown(w)'
<1>1. u \in Slice /\ head[u] \in Nat /\ tail[u] \in Nat /\ cap[u] \in Nat
  BY ByteSliceAssumption DEF SliceInv, Shape, Offset
<1>2. SUFFICES ASSUME NEW j \in Nat, head'[w] <= j, j < tail'[w]
               PROVE  mem'[base'[w]][j] \in Byte
  BY DEF Shown
<1>3. head[u] <= j /\ j < tail[u]
  BY <1>1, <1>2
<1>4. base[u] # Null
  BY <1>1, <1>3 DEF SliceInv, Links, InBounds
<1> QED
  BY <1>3, <1>4 DEF Shown

\* The slices an operation on s leaves alone show what they showed.
LEMMA OthersShown ==
  ASSUME BytesInv, NEW s \in Slice, NEW u \in alive \ {s},
         base'[u] = base[u], head'[u] = head[u], tail'[u] = tail[u],
         base[u] # Null => mem'[base[u]] = MemWithout(s)[base[u]]
  PROVE  Shown(u)'
<1>1. head[u] \in Nat /\ tail[u] \in Nat
  BY ByteSliceAssumption DEF BytesInv, SliceInv, Shape, Offset
<1>2. base[u] # Null => mem'[base[u]] = mem[base[u]]
  BY MemOfOthers DEF BytesInv
<1>3. Shown(u)
  BY DEF BytesInv, AllShown
<1>4. head[u] <= head'[u] /\ tail'[u] <= tail[u]
  BY <1>1
<1> QED
  BY <1>1, <1>2, <1>3, <1>4, ShownKept DEF BytesInv

\* What a slice shows is a sequence of written bytes.
LEMMA ContentWritten ==
  ASSUME BytesInv, NEW s \in alive
  PROVE  /\ Content(s) \in Seq(Byte)
         /\ Len(Content(s)) = tail[s] - head[s]
<1>1. head[s] \in Nat /\ tail[s] \in Nat /\ head[s] <= tail[s]
  BY ByteSliceAssumption DEF BytesInv, SliceInv, Shape, Links, InBounds, Offset
<1>2. ASSUME NEW i \in 1 .. tail[s] - head[s]
      PROVE  mem[base[s]][head[s] + i - 1] \in Byte
  <2>1. head[s] + i - 1 \in Nat /\ head[s] <= head[s] + i - 1 /\ head[s] + i - 1 < tail[s]
    BY <1>1
  <2>2. Shown(s)
    BY DEF BytesInv, AllShown
  <2> QED
    BY <2>1, <2>2 DEF Shown
<1>3. Content(s) \in [1 .. tail[s] - head[s] -> Byte]
  BY <1>2 DEF Content
<1>4. tail[s] - head[s] \in Nat
  BY <1>1
<1> QED
  BY <1>3, <1>4

\* A new block b with the given bytes, which s shows from the first to the last.
LEMMA FreshShown ==
  ASSUME BytesInv, NEW s \in Slice, NEW b \in Block, NEW c, NEW k, NEW bytes \in Seq(Byte),
         Len(bytes) <= MaxCap, size[b] = 0, alive' = alive \cup {s},
         mem' = [MemWithout(s) EXCEPT ![b] = Holding(bytes)],
         Becomes(s, b, 0, Len(bytes), k, c)
  PROVE  AllShown'
<1>1. /\ base'[s] = b /\ head'[s] = 0 /\ tail'[s] = Len(bytes)
      /\ \A u \in Slice \ {s} : /\ base'[u] = base[u] /\ head'[u] = head[u]
                                /\ tail'[u] = tail[u]
  BY DEF BytesInv, SliceInv, Shape, Becomes
<1>2. MemWithout(s) \in [Block -> [Index -> Byte \cup {Stale}]]
  BY MemRest DEF BytesInv
<1>3. mem'[b] = Holding(bytes)
  BY <1>2
<1>4. ASSUME NEW j \in Nat, j < Len(bytes)
      PROVE  Holding(bytes)[j] \in Byte
  <2>1. j \in Index /\ j + 1 \in 1 .. Len(bytes)
    BY <1>4, ByteSliceAssumption DEF Index, Offset
  <2> QED
    BY <1>4, <2>1 DEF Holding
<1>5. Shown(s)'
  BY <1>1, <1>3, <1>4 DEF Shown
<1>6. ASSUME NEW u \in alive \ {s}
      PROVE  Shown(u)'
  <2>1. u \in Slice
    BY DEF BytesInv, SliceInv, Shape
  <2>2. base[u] # Null => base[u] # b /\ base[u] \in Block
    BY FreeBlockUnshown DEF BytesInv, SliceInv, Shape
  <2>3. base[u] # Null => mem'[base[u]] = MemWithout(s)[base[u]]
    BY <1>2, <2>2
  <2> QED
    BY <1>1, <2>1, <2>3, OthersShown
<1> QED
  BY <1>5, <1>6 DEF AllShown

LEMMA GrowShows ==
  ASSUME BytesInv, NEW s \in alive, NEW k, NEW bytes \in Seq(Byte), Len(bytes) <= MaxCap,
         Grow(s, k, bytes), UNCHANGED alive
  PROVE  AllShown'
<1>1. s \in Slice /\ alive' = alive \cup {s}
  BY DEF BytesInv, SliceInv, Shape
<1>2. PICK b \in Block, c \in Cell :
        /\ size[b] = 0
        /\ mem' = [MemWithout(s) EXCEPT ![b] = Holding(bytes)]
        /\ Becomes(s, b, 0, Len(bytes), k, c)
  BY DEF Grow
<1> QED
  BY <1>1, <1>2, FreshShown

LEMMA ConstructShows ==
  ASSUME BytesInv, NEW s \in Slice, NEW bytes \in Contents, Construct(s, bytes)
  PROVE  AllShown'
<1>1. bytes \in Seq(Byte) /\ Len(bytes) <= MaxCap
  BY ByteSliceAssumption DEF Contents, Offset
<1>2. MemWithout(s) = mem
  BY DEF Construct, MemWithout, FreesBlock, BytesInv, SliceInv, Links, GhostsEmpty
<1>3. PICK k \in Offset, b \in Block, c \in Cell :
        /\ size[b] = 0
        /\ mem' = [mem EXCEPT ![b] = Holding(bytes)]
        /\ Becomes(s, b, 0, Len(bytes), k, c)
  BY DEF Construct
<1> QED
  BY <1>1, <1>2, <1>3, FreshShown DEF Construct

\* s becomes an alias of o, or ends up with nothing.
LEMMA PutShows ==
  ASSUME BytesInv, NEW s \in Slice, NEW b, NEW h \in Nat, NEW t \in Nat, NEW k, NEW c,
         Becomes(s, b, h, t, k, c),
         alive' \subseteq alive \cup {s},
         mem' = MemWithout(s),
         h < t => \E o \in alive \ {s} : b = base[o] /\ h = head[o] /\ t = tail[o]
  PROVE  AllShown'
<1>1. /\ base'[s] = b /\ head'[s] = h /\ tail'[s] = t
      /\ \A u \in Slice \ {s} : /\ base'[u] = base[u] /\ head'[u] = head[u]
                                /\ tail'[u] = tail[u]
  BY DEF BytesInv, SliceInv, Shape, Becomes
<1>2. Shown(s)'
  <2>1. CASE h < t
    <3>1. PICK o \in alive \ {s} : b = base[o] /\ h = head[o] /\ t = tail[o]
      BY <2>1
    <3>2. Shown(o)
      BY DEF BytesInv, AllShown
    <3>3. base[o] # Null => mem'[base[o]] = mem[base[o]]
      BY MemOfOthers DEF BytesInv
    <3>4. head[o] <= head'[s] /\ tail'[s] <= tail[o]
      BY <1>1, <3>1
    <3> QED
      BY <1>1, <3>1, <3>2, <3>3, <3>4, ShownKept DEF BytesInv
  <2>2. CASE ~(h < t)
    BY <1>1, <2>2 DEF Shown
  <2> QED
    BY <2>1, <2>2
<1>3. ASSUME NEW u \in alive \ {s}
      PROVE  Shown(u)'
  <2>1. u \in Slice
    BY DEF BytesInv, SliceInv, Shape
  <2> QED
    BY <1>1, <2>1, OthersShown
<1> QED
  BY <1>2, <1>3 DEF AllShown

LEMMA MoveShows ==
  ASSUME BytesInv, NEW s \in Slice, NEW o \in alive, s # o, Moves(s, o),
         alive' \subseteq alive \cup {s},
         mem' = MemWithout(s)
  PROVE  AllShown'
<1>1. o \in Slice /\ head[o] \in Nat /\ tail[o] \in Nat
  BY ByteSliceAssumption DEF BytesInv, SliceInv, Shape, Offset
<1>2. /\ base'[s] = base[o] /\ head'[s] = head[o] /\ tail'[s] = tail[o]
      /\ head'[o] = 0 /\ tail'[o] = 0
      /\ \A u \in Slice \ {s, o} : /\ base'[u] = base[u] /\ head'[u] = head[u]
                                   /\ tail'[u] = tail[u]
  BY <1>1 DEF BytesInv, SliceInv, Shape, Moves
<1>3. Shown(s)'
  <2>1. Shown(o)
    BY DEF BytesInv, AllShown
  <2>2. base[o] # Null => mem'[base[o]] = mem[base[o]]
    BY MemOfOthers DEF BytesInv
  <2>3. head[o] <= head'[s] /\ tail'[s] <= tail[o]
    BY <1>1, <1>2
  <2> QED
    BY <1>1, <1>2, <2>1, <2>2, <2>3, ShownKept DEF BytesInv
<1>4. Shown(o)'
  BY <1>2 DEF Shown
<1>5. ASSUME NEW u \in alive \ {s, o}
      PROVE  Shown(u)'
  <2>1. u \in Slice
    BY DEF BytesInv, SliceInv, Shape
  <2> QED
    BY <1>2, <2>1, OthersShown
<1> QED
  BY <1>3, <1>4, <1>5 DEF AllShown

\* v is stored at offset j of the buffer of s; s may show j from now on.
LEMMA StoreShows ==
  ASSUME BytesInv, NEW s \in alive, NEW j \in Index, NEW v \in Byte, NEW t \in Nat,
         mem' = [mem EXCEPT ![base[s]] = [mem[base[s]] EXCEPT ![j] = v]],
         base[s] \in Block, t <= tail[s] \/ (t = j + 1 /\ j = tail[s]),
         tail' = [tail EXCEPT ![s] = t], UNCHANGED <<alive, base, head>>
  PROVE  AllShown'
<1>1. SUFFICES ASSUME NEW u \in alive, NEW x \in Nat, head[u] <= x, x < tail'[u]
               PROVE  mem'[base[u]][x] \in Byte
  BY DEF AllShown, Shown
<1>2. u \in Slice /\ s \in Slice /\ j \in Nat
  BY ByteSliceAssumption DEF BytesInv, SliceInv, Shape, Index, Offset
<1>3. Shown(u) /\ tail[u] \in Nat /\ tail[u] <= MaxCap /\ cap[u] \in Nat /\ tail[u] <= cap[u]
  BY <1>2, ByteSliceAssumption
     DEF BytesInv, AllShown, SliceInv, Shape, Links, InBounds, Offset
<1>4. CASE x = j /\ base[u] = base[s]
  BY <1>4 DEF BytesInv, MemShape
<1>5. CASE ~(x = j /\ base[u] = base[s])
  <2>1. x < tail[u]
    <3>1. CASE u = s
      <4>1. tail'[u] = t /\ x # j
        BY <1>2, <1>5, <3>1 DEF BytesInv, SliceInv, Shape
      <4> QED
        BY <1>1, <1>2, <1>3, <3>1, <4>1
    <3>2. CASE u # s
      BY <1>1, <1>2, <3>2 DEF BytesInv, SliceInv, Shape
    <3> QED
      BY <3>1, <3>2
  <2>2. mem[base[u]][x] \in Byte
    BY <1>1, <1>3, <2>1 DEF Shown
  <2>3. base[u] \in Block
    BY <1>2, <1>3, <2>1 DEF BytesInv, SliceInv, Shape, Links, InBounds
  <2> QED
    BY <1>5, <2>2, <2>3 DEF BytesInv, MemShape
<1> QED
  BY <1>4, <1>5

LEMMA ShownStep == BytesInv /\ SliceNext => AllShown'
<1> SUFFICES ASSUME BytesInv, SliceNext
             PROVE  AllShown'
  OBVIOUS
<1>0. \A u \in Slice : head[u] \in Nat /\ tail[u] \in Nat /\ cap[u] \in Nat
  BY ByteSliceAssumption DEF BytesInv, SliceInv, Shape, Offset
<1>1. ASSUME NEW s \in Slice, DefaultConstruct(s)
      PROVE  AllShown'
  <2>1. s \notin alive /\ alive' = alive \cup {s} /\ mem' = mem
    BY <1>1 DEF DefaultConstruct
  <2>2. MemWithout(s) = mem
    BY <2>1 DEF MemWithout, FreesBlock, BytesInv, SliceInv, Links, GhostsEmpty
  <2>3. PICK c \in Cell : Becomes(s, Null, 0, 0, 0, c)
    BY <1>1 DEF DefaultConstruct
  <2> QED
    BY <2>1, <2>2, <2>3, PutShows
<1>2. ASSUME NEW s \in Slice, Destroy(s)
      PROVE  AllShown'
  <2>1. /\ alive' \subseteq alive \cup {s} /\ mem' = MemWithout(s)
        /\ Becomes(s, Null, 0, 0, 0, Null)
    BY <1>2 DEF Destroy
  <2> QED
    BY <2>1, PutShows
<1>3. ASSUME NEW s \in Slice, NEW bytes \in Contents, Construct(s, bytes)
      PROVE  AllShown'
  BY <1>3, ConstructShows
<1>4. ASSUME NEW s \in Slice, NEW o \in Slice, CopyConstruct(s, o)
      PROVE  AllShown'
  <2>1. /\ s \notin alive /\ o \in alive \ {s} /\ alive' = alive \cup {s} /\ mem' = mem
        /\ Becomes(s, base[o], head[o], tail[o], cap[o], cell[o])
    BY <1>4 DEF CopyConstruct
  <2>2. MemWithout(s) = mem
    BY <2>1 DEF MemWithout, FreesBlock, BytesInv, SliceInv, Links, GhostsEmpty
  <2> QED
    BY <1>0, <2>1, <2>2, PutShows
<1>5. ASSUME NEW s \in Slice, NEW o \in Slice, CopyAssign(s, o)
      PROVE  AllShown'
  <2>1. /\ o \in alive \ {s} /\ alive' = alive /\ mem' = MemWithout(s)
        /\ Becomes(s, base[o], head[o], tail[o], cap[o], cell[o])
    BY <1>5 DEF CopyAssign
  <2> QED
    BY <1>0, <2>1, PutShows
<1>6. ASSUME NEW s \in Slice, NEW o \in Slice, MoveConstruct(s, o)
      PROVE  AllShown'
  <2>1. /\ s \notin alive /\ o \in alive /\ s # o /\ alive' = alive \cup {s} /\ mem' = mem
        /\ Moves(s, o)
    BY <1>6 DEF MoveConstruct
  <2>2. MemWithout(s) = mem
    BY <2>1 DEF MemWithout, FreesBlock, BytesInv, SliceInv, Links, GhostsEmpty
  <2> QED
    BY <2>1, <2>2, MoveShows
<1>7. ASSUME NEW s \in Slice, NEW o \in Slice, MoveAssign(s, o)
      PROVE  AllShown'
  <2>1. o \in alive /\ alive' = alive /\ mem' = MemWithout(s) /\ Moves(s, o)
    BY <1>7 DEF MoveAssign
  <2>2. CASE s = o
    <3>1. Becomes(s, Null, 0, 0, 0, Null)
      BY <2>1, <2>2 DEF Moves, Becomes, BytesInv, SliceInv, Shape
    <3> QED
      BY <2>1, <3>1, PutShows
  <2>3. CASE s # o
    BY <2>1, <2>3, MoveShows
  <2> QED
    BY <2>2, <2>3
<1>8. CASE CopyOfMovedFrom
  BY <1>8 DEF CopyOfMovedFrom, BytesInv, AllShown, Shown
<1>9. ASSUME NEW s \in Slice, NEW v \in Byte, AppendGrows(s, v)
      PROVE  AllShown'
  <2> DEFINE k == IF cap[s] = 0 THEN 1 ELSE cap[s] * 2
             bytes == Append(Content(s), v)
  <2>1. s \in alive /\ tail[s] = cap[s] /\ k <= MaxCap /\ alive' = alive
        /\ Grow(s, k, bytes)
    BY <1>9 DEF AppendGrows
  <2>2. bytes \in Seq(Byte) /\ Len(bytes) = tail[s] - head[s] + 1
    BY <2>1, ContentWritten
  <2>3. Len(bytes) <= MaxCap
    BY <1>0, <2>1, <2>2, ByteSliceAssumption
  <2> HIDE DEF k, bytes
  <2> QED
    BY <2>1, <2>2, <2>3, GrowShows
<1>10. ASSUME NEW s \in Slice, NEW v \in Byte, AppendInPlace(s, v)
       PROVE  AllShown'
  <2>1. /\ s \in alive /\ tail[s] < cap[s]
        /\ mem' = [mem EXCEPT ![base[s]] = [mem[base[s]] EXCEPT ![tail[s]] = v]]
        /\ tail' = [tail EXCEPT ![s] = tail[s] + 1]
        /\ UNCHANGED <<alive, base, head>>
    BY <1>10 DEF AppendInPlace
  <2>2. tail[s] \in Index /\ base[s] \in Block
    BY <1>0, <2>1, ByteSliceAssumption
       DEF BytesInv, SliceInv, Shape, Links, InBounds, Index, Offset
  <2>3. PICK j \in Index, t \in Nat : j = tail[s] /\ t = j + 1
    BY <1>0, <2>1, <2>2
  <2>4. /\ mem' = [mem EXCEPT ![base[s]] = [mem[base[s]] EXCEPT ![j] = v]]
        /\ tail' = [tail EXCEPT ![s] = t]
    BY <2>1, <2>3
  <2> QED
    BY <2>1, <2>2, <2>3, <2>4, StoreShows
<1>11. ASSUME NEW s \in Slice, NEW k \in Offset, Reserve(s, k)
       PROVE  AllShown'
  <2>1. s \in alive /\ cap[s] < k /\ Grow(s, k, Content(s)) /\ UNCHANGED alive
    BY <1>11 DEF Reserve
  <2>2. Content(s) \in Seq(Byte) /\ Len(Content(s)) = tail[s] - head[s]
    BY <2>1, ContentWritten
  <2>3. k \in Nat /\ k <= MaxCap /\ MaxCap \in Nat /\ tail[s] <= cap[s]
    BY ByteSliceAssumption DEF Offset, BytesInv, SliceInv, Links, InBounds
  <2>4. tail[s] - head[s] <= MaxCap
    BY <1>0, <2>1, <2>3
  <2> QED
    BY <2>1, <2>2, <2>4, GrowShows
<1>12. ASSUME NEW s \in Slice, NEW n \in Offset \ {0}, RemovePrefix(s, n)
       PROVE  AllShown'
  <2>1. /\ s \in alive /\ head' = [head EXCEPT ![s] = head[s] + n]
        /\ UNCHANGED <<alive, base, tail, mem>>
    BY <1>12 DEF RemovePrefix
  <2>2. n \in Nat
    BY ByteSliceAssumption DEF Offset
  <2>3. \A u \in alive : head[u] <= head'[u] /\ head'[u] \in Nat
    BY <1>0, <2>1, <2>2 DEF BytesInv, SliceInv, Shape
  <2>4. ASSUME NEW u \in alive
        PROVE  Shown(u)'
    <3>1. Shown(u) /\ u \in Slice
      BY DEF BytesInv, AllShown, SliceInv, Shape
    <3>2. tail'[u] \in Nat /\ tail'[u] <= tail[u]
      BY <1>0, <2>1, <3>1
    <3> QED
      BY <2>1, <2>3, <3>1, <3>2, ShownKept DEF BytesInv
  <2> QED
    BY <2>1, <2>4 DEF AllShown
<1>13. ASSUME NEW s \in Slice, NEW i \in Index, NEW v \in Byte, SetByte(s, i, v)
       PROVE  AllShown'
  <2>1. /\ s \in alive /\ i < tail[s] - head[s]
        /\ mem' = [mem EXCEPT ![base[s]] = [mem[base[s]] EXCEPT ![head[s] + i] = v]]
        /\ UNCHANGED <<alive, base, head, tail>>
    BY <1>13 DEF SetByte
  <2>2. tail[s] <= cap[s] /\ cap[s] <= MaxCap /\ i \in Nat
    BY ByteSliceAssumption DEF BytesInv, SliceInv, Shape, Links, InBounds, Index, Offset
  <2>3. head[s] + i < tail[s] /\ head[s] + i \in Index /\ cap[s] # 0
    BY <1>0, <2>1, <2>2, ByteSliceAssumption DEF Index, Offset
  <2>4. base[s] \in Block
    BY <2>3 DEF BytesInv, SliceInv, Shape, Links, InBounds
  <2>5. PICK j \in Index, t \in Nat : j = head[s] + i /\ t = tail[s]
    BY <1>0, <2>3
  <2>6. /\ mem' = [mem EXCEPT ![base[s]] = [mem[base[s]] EXCEPT ![j] = v]]
        /\ tail' = [tail EXCEPT ![s] = t]
    BY <2>1, <2>5 DEF BytesInv, SliceInv, Shape
  <2>7. t <= tail[s]
    BY <2>5
  <2> QED
    BY <2>1, <2>4, <2>5, <2>6, <2>7, StoreShows
<1> QED
  BY <1>1, <1>2, <1>3, <1>4, <1>5, <1>6, <1>7, <1>8, <1>9, <1>10, <1>11, <1>12, <1>13
     DEF SliceNext

LEMMA BytesInvariance == SliceSpec => []BytesInv
<1>1. SliceInit => AllShown
  BY DEF SliceInit, AllShown
<1>2. SliceInv /\ MemShape /\ AllShown /\ [SliceNext]_sliceVars => AllShown'
  <2>1. AllShown /\ UNCHANGED sliceVars => AllShown'
    BY DEF AllShown, Shown, sliceVars
  <2> QED
    BY <2>1, ShownStep DEF BytesInv
<1>3. SliceInv /\ MemShape /\ AllShown => BytesInv
  BY DEF BytesInv
<1> QED
  BY <1>1, <1>2, <1>3, SliceInvariance, PTL DEF SliceSpec

\* No slice shows memory that was never written (NothingStale): growth copies what
\* is shown and only that, and a buffer is not freed under a slice that shows it.
THEOREM OnlyWrittenBytes == SliceSpec => []NothingStale
<1>1. BytesInv => NothingStale
  <2> SUFFICES ASSUME BytesInv, NEW s \in alive, NEW i \in 1 .. tail[s] - head[s]
               PROVE  Content(s)[i] \in Byte
    BY DEF NothingStale
  <2>1. Content(s) \in Seq(Byte) /\ Len(Content(s)) = tail[s] - head[s]
    BY ContentWritten
  <2> QED
    BY <2>1
<1> QED
  BY <1>1, BytesInvariance, PTL

\* Growth changes the block of s, not the bytes it shows or those of others.
LEMMA GrowIsLocal ==
  ASSUME BytesInv, NEW s \in alive, NEW v \in Byte, AppendGrows(s, v)
  PROVE  /\ Content(s)' = Append(Content(s), v)
         /\ \A o \in alive \ {s} : Content(o)' = Content(o)
<1> DEFINE k == IF cap[s] = 0 THEN 1 ELSE cap[s] * 2
           bytes == Append(Content(s), v)
<1>1. /\ s \in Slice /\ head[s] \in Nat /\ tail[s] \in Nat /\ cap[s] \in Nat
      /\ tail[s] = cap[s] /\ k <= MaxCap
  BY ByteSliceAssumption DEF AppendGrows, BytesInv, SliceInv, Shape, Offset
<1>2. bytes \in Seq(Byte) /\ Len(bytes) = tail[s] - head[s] + 1
  BY ContentWritten
<1>3. Len(bytes) <= MaxCap
  BY <1>1, <1>2, ByteSliceAssumption
<1>4. Grow(s, k, bytes)
  BY DEF AppendGrows
<1> HIDE DEF k, bytes
<1>5. PICK b \in Block, c \in Cell :
        /\ size[b] = 0
        /\ mem' = [MemWithout(s) EXCEPT ![b] = Holding(bytes)]
        /\ Becomes(s, b, 0, Len(bytes), k, c)
  BY <1>4 DEF Grow
<1>6. /\ base'[s] = b /\ head'[s] = 0 /\ tail'[s] = Len(bytes)
      /\ \A u \in Slice \ {s} : /\ base'[u] = base[u] /\ head'[u] = head[u]
                                /\ tail'[u] = tail[u]
  BY <1>1, <1>5 DEF BytesInv, SliceInv, Shape, Becomes
<1>7. MemWithout(s) \in [Block -> [Index -> Byte \cup {Stale}]]
  BY <1>1, MemRest DEF BytesInv
<1>8. Content(s)' = bytes
  <2>1. mem'[b] = Holding(bytes)
    BY <1>5, <1>7
  <2>2. Content(s)' = [i \in 1 .. Len(bytes) |-> Holding(bytes)[0 + i - 1]]
    BY <1>2, <1>6, <2>1 DEF Content
  <2>3. ASSUME NEW i \in 1 .. Len(bytes)
        PROVE  Holding(bytes)[0 + i - 1] = bytes[i]
    <3>1. Len(bytes) \in Nat
      BY <1>2
    <3>2. 0 + i - 1 = i - 1 /\ i - 1 \in Index /\ i - 1 < Len(bytes) /\ i - 1 + 1 = i
      BY <1>3, <3>1, ByteSliceAssumption DEF Index, Offset
    <3> QED
      BY <3>2 DEF Holding
  <2>4. bytes = [i \in 1 .. Len(bytes) |-> bytes[i]]
    BY <1>2
  <2> QED
    BY <2>2, <2>3, <2>4
<1>9. ASSUME NEW o \in alive \ {s}
      PROVE  Content(o)' = Content(o)
  <2>1. /\ o \in Slice /\ head[o] \in Nat /\ tail[o] \in Nat /\ cap[o] \in Nat
        /\ tail[o] <= cap[o]
    BY ByteSliceAssumption DEF BytesInv, SliceInv, Shape, Links, InBounds, Offset
  <2>2. base'[o] = base[o] /\ head'[o] = head[o] /\ tail'[o] = tail[o]
    BY <1>6, <2>1
  <2>3. CASE base[o] = Null
    <3>1. cap[o] = 0
      BY <2>1, <2>3 DEF BytesInv, SliceInv, Links, InBounds
    <3>2. 1 .. tail[o] - head[o] = {}
      BY <2>1, <3>1
    <3> QED
      BY <2>2, <3>2 DEF Content
  <2>4. CASE base[o] # Null
    <3>1. base[o] # b /\ base[o] \in Block
      BY <1>5, <2>1, <2>4, FreeBlockUnshown DEF BytesInv, SliceInv, Shape
    <3>2. mem'[base[o]] = mem[base[o]]
      BY <1>1, <1>5, <1>7, <2>4, <3>1, MemOfOthers DEF BytesInv
    <3> QED
      BY <2>2, <3>2 DEF Content
  <2> QED
    BY <2>3, <2>4
<1> QED
  BY <1>8, <1>9 DEF bytes

\* Appending in place writes one byte behind the tail of s.
LEMMA InPlaceIsLocal ==
  ASSUME BytesInv, NEW s \in alive, NEW v \in Byte, AppendInPlace(s, v)
  PROVE  /\ Content(s)' = Append(Content(s), v)
         /\ \A o \in alive \ {s} :
              base[o] # base[s] \/ tail[o] <= tail[s] => Content(o)' = Content(o)
<1>1. /\ tail[s] < cap[s]
      /\ mem' = [mem EXCEPT ![base[s]] = [mem[base[s]] EXCEPT ![tail[s]] = v]]
      /\ tail' = [tail EXCEPT ![s] = tail[s] + 1]
      /\ UNCHANGED <<base, head>>
  BY DEF AppendInPlace
<1>2. \A u \in alive : /\ u \in Slice /\ head[u] \in Nat /\ tail[u] \in Nat /\ cap[u] \in Nat
                       /\ head[u] <= tail[u] /\ tail[u] <= cap[u] /\ cap[u] <= MaxCap
                       /\ base[u] = Null => cap[u] = 0
                       /\ base[u] \in Block \cup {Null}
  BY ByteSliceAssumption DEF BytesInv, SliceInv, Shape, Links, InBounds, Offset
<1>3. base[s] \in Block /\ tail[s] \in Index
  BY <1>1, <1>2, ByteSliceAssumption DEF Index, Offset
<1>4. /\ mem'[base[s]] = [mem[base[s]] EXCEPT ![tail[s]] = v]
      /\ mem[base[s]] \in [Index -> Byte \cup {Stale}]
      /\ \A b \in Block \ {base[s]} : mem'[b] = mem[b]
  BY <1>1, <1>3 DEF BytesInv, MemShape
<1>5. /\ tail'[s] = tail[s] + 1
      /\ \A u \in alive \ {s} : tail'[u] = tail[u]
  BY <1>1, <1>2 DEF BytesInv, SliceInv, Shape
<1>6. mem'[base[s]][tail[s]] = v /\ \A x \in Index \ {tail[s]} : mem'[base[s]][x] = mem[base[s]][x]
  BY <1>3, <1>4
<1>7. Content(s)' = Append(Content(s), v)
  <2> DEFINE n == tail[s] - head[s]
  <2>1. n \in Nat /\ tail[s] + 1 - head[s] = n + 1
    BY <1>2
  <2>2. Content(s)' = [i \in 1 .. n + 1 |-> mem'[base[s]][head[s] + i - 1]]
    <3>1. base' = base /\ head' = head
      BY <1>1
    <3>2. Content(s)' = [i \in 1 .. tail'[s] - head'[s] |-> mem'[base'[s]][head'[s] + i - 1]]
      BY DEF Content
    <3>3. tail'[s] - head'[s] = n + 1
      BY <1>2, <1>5, <3>1
    <3> HIDE DEF n
    <3> QED
      BY <3>1, <3>2, <3>3
  <2>3. Content(s) \in Seq(Byte) /\ Len(Content(s)) = n
    BY ContentWritten
  <2>4. \A i \in 1 .. n : Content(s)[i] = mem[base[s]][head[s] + i - 1]
    BY DEF Content
  <2> HIDE DEF n
  <2>5. Append(Content(s), v) = [i \in 1 .. n + 1 |-> IF i = n + 1 THEN v ELSE Content(s)[i]]
    <3>1. PICK c \in Seq(Byte) : c = Content(s)
      BY <2>3
    <3>2. Append(c, v) \in Seq(Byte) /\ Len(Append(c, v)) = n + 1
      BY <2>1, <2>3, <3>1
    <3>3. \A i \in 1 .. n + 1 : Append(c, v)[i] = IF i = n + 1 THEN v ELSE c[i]
      BY <2>1, <2>3, <3>1
    <3>4. PICK a \in Seq(Byte) : a = Append(c, v)
      BY <3>2
    <3>5. a = [i \in 1 .. Len(a) |-> a[i]]
      OBVIOUS
    <3> QED
      BY <3>1, <3>2, <3>3, <3>4, <3>5
  <2>6. ASSUME NEW i \in 1 .. n + 1
        PROVE  mem'[base[s]][head[s] + i - 1] = IF i = n + 1 THEN v ELSE Content(s)[i]
    <3>1. CASE i = n + 1
      <4>1. head[s] + i - 1 = tail[s]
        BY <1>2, <3>1 DEF n
      <4> QED
        BY <1>6, <3>1, <4>1
    <3>2. CASE i # n + 1
      <4>1. i \in 1 .. n
        BY <2>1, <2>6, <3>2
      <4>2. head[s] + i - 1 \in Index \ {tail[s]}
        BY <1>1, <1>2, <4>1, ByteSliceAssumption DEF n, Index, Offset
      <4> QED
        BY <1>6, <2>4, <3>2, <4>1, <4>2
    <3> QED
      BY <3>1, <3>2
  <2> QED
    BY <2>2, <2>5, <2>6
<1>8. ASSUME NEW o \in alive \ {s}, base[o] # base[s] \/ tail[o] <= tail[s]
      PROVE  Content(o)' = Content(o)
  <2>1. ASSUME NEW i \in 1 .. tail[o] - head[o]
        PROVE  mem'[base[o]][head[o] + i - 1] = mem[base[o]][head[o] + i - 1]
    <3>1. cap[o] # 0 /\ base[o] \in Block /\ head[o] + i - 1 < tail[o]
      BY <1>2, <2>1
    <3>2. head[o] + i - 1 \in Index
      BY <1>2, <3>1, ByteSliceAssumption DEF Index, Offset
    <3>3. CASE base[o] # base[s]
      BY <1>4, <3>1, <3>3
    <3>4. CASE base[o] = base[s]
      <4>1. head[o] + i - 1 # tail[s]
        BY <1>2, <1>8, <3>1, <3>4
      <4> QED
        BY <1>6, <3>2, <3>4, <4>1
    <3> QED
      BY <3>3, <3>4
  <2>2. tail'[o] = tail[o] /\ head'[o] = head[o] /\ base'[o] = base[o]
    BY <1>1, <1>5
  <2> QED
    BY <2>1, <2>2 DEF Content
<1> QED
  BY <1>7, <1>8

\* append adds its byte to its own slice; of the others it touches at most those
\* that share the buffer and reach further (AppendIsLocal).
THEOREM AppendsAreLocal == SliceSpec => AppendIsLocal
<1> DEFINE Local ==
      \A s \in Slice, v \in Byte :
        AppendByte(s, v) =>
          /\ Content(s)' = Append(Content(s), v)
          /\ \A o \in alive \ {s} :
               base[o] # base[s] \/ tail[o] <= tail[s] => Content(o)' = Content(o)
<1>1. BytesInv => Local
  <2> SUFFICES ASSUME BytesInv, NEW s \in Slice, NEW v \in Byte, AppendByte(s, v)
               PROVE  /\ Content(s)' = Append(Content(s), v)
                      /\ \A o \in alive \ {s} :
                           base[o] # base[s] \/ tail[o] <= tail[s] => Content(o)' = Content(o)
    OBVIOUS
  <2>1. s \in alive
    BY DEF AppendByte, AppendGrows, AppendInPlace
  <2> QED
    BY <2>1, GrowIsLocal, InPlaceIsLocal DEF AppendByte
<1>2. BytesInv /\ [SliceNext]_sliceVars => [Local]_sliceVars
  BY <1>1
<1> QED
  BY <1>2, BytesInvariance, PTL DEF SliceSpec, AppendIsLocal
=============================================================================
