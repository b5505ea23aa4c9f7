----------------------------- MODULE FatProofs -----------------------------
(***************************************************************************)
(* Proofs about modules Fat and Directory, for every size of sectors,      *)
(* clusters and chains.                                                    *)
(***************************************************************************)
EXTENDS Directory, LoopLemmas, SequenceTheorems, TLAPS

-----------------------------------------------------------------------------
(* The table                                                               *)

LEMMA SplitCluster ==
  ASSUME NEW c \in Nat
  PROVE  /\ SectorOf(c) \in Nat /\ Slot(c) \in 0 .. FEPS - 1
         /\ SectorOf(c) * FEPS + Slot(c) = c
<1>1. /\ c \div FEPS \in Nat /\ c % FEPS \in 0 .. FEPS - 1
      /\ c = (c % FEPS) + FEPS * (c \div FEPS)
  BY FatAssumption
<1>2. FEPS * (c \div FEPS) = (c \div FEPS) * FEPS
  BY <1>1, FatAssumption
<1> QED
  BY <1>1, <1>2, FatAssumption DEF SectorOf, Slot

LEMMA ChainType ==
  ASSUME chain \in Chains
  PROVE  /\ chain \in Seq(Clusters) /\ Len(chain) \in Nat \ {0} /\ DOMAIN chain = 1 .. Len(chain)
         /\ \A k \in 1 .. Len(chain) : chain[k] \in Clusters
         /\ \A i_1, j \in 1 .. Len(chain) : chain[i_1] = chain[j] => i_1 = j
<1>1. PICK n \in 1 .. MAX_CHAIN : chain \in [1 .. n -> Clusters]
  BY DEF Chains
<1>2. n \in Nat /\ n # 0
  BY <1>1
<1>3. Len(chain) = n /\ DOMAIN chain = 1 .. n /\ chain \in Seq(Clusters)
  BY <1>1, <1>2
<1> QED
  BY <1>1, <1>2, <1>3 DEF Chains

(* A cluster that is not the last is followed by a cluster.                *)
LEMMA NotLast ==
  ASSUME chain \in Chains, NEW k \in 1 .. Len(chain)
  PROVE  /\ Len(chain) \in Nat
         /\ k # Len(chain) => k + 1 \in 1 .. Len(chain) /\ ~EndsChain(chain[k + 1])
<1>1. /\ Len(chain) \in Nat
      /\ \A m \in 1 .. Len(chain) : chain[m] \in 2 .. CLUSTERS - 1
  BY ChainType DEF Clusters
<1>2. k # Len(chain) => k + 1 \in 1 .. Len(chain)
  BY <1>1
<1>3. \A c \in 2 .. CLUSTERS - 1 : ~(c >= EOC)
  BY FatAssumption
<1>4. k # Len(chain) => ~(chain[k + 1] >= EOC)
  BY <1>1, <1>2, <1>3
<1> QED
  BY <1>1, <1>2, <1>4 DEF EndsChain

(* The table links the clusters of the chain.                              *)
LEMMA Links ==
  ASSUME chain \in Chains, others = {}, NEW k \in 1 .. Len(chain)
  PROVE  fat[chain[k]] = IF k = Len(chain) THEN EOC ELSE chain[k + 1]
<1> DEFINE c == chain[k]
<1>1. /\ c \in Clusters /\ DOMAIN chain = 1 .. Len(chain)
      /\ \A m \in 1 .. Len(chain) : chain[m] = c => m = k
  BY ChainType
<1>2. c \in 0 .. CLUSTERS - 1 /\ ~(c < 2)
  BY <1>1, FatAssumption DEF Clusters
<1>3. {chain} \cup others = {chain} /\ c \in Range(chain)
  BY <1>1 DEF Range
<1>4. (CHOOSE d \in {chain} \cup others : c \in Range(d)) = chain
  BY <1>3
<1>5. (CHOOSE m \in DOMAIN chain : chain[m] = c) = k
  BY <1>1
<1> HIDE DEF c
<1>6. ~ \A d \in {chain} \cup others : c \notin Range(d)
  BY <1>3
<1>7. fat[c] = LET d == CHOOSE d \in {chain} \cup others : c \in Range(d)
                   m == CHOOSE m \in DOMAIN d : d[m] = c
               IN  IF m = Len(d) THEN EOC ELSE d[m + 1]
  BY <1>2, <1>6 DEF fat
<1> QED
  BY <1>4, <1>5, <1>7 DEF c

(* The links are read from the sector that is in the buffer.               *)
LEMMA LinkRead ==
  ASSUME chain \in Chains, others = {}, OneSector, NEW k \in 1 .. Len(chain)
  PROVE  /\ SectorOf(chain[k]) = SectorOf(chain[1])
         /\ Buffer(SectorOf(chain[1]), Slot(chain[k])) =
              {IF k = Len(chain) THEN EOC ELSE chain[k + 1]}
<1> DEFINE c == chain[k]
<1>1. c \in Clusters /\ c \in Range(chain)
  BY ChainType DEF Range
<1>2. c \in Nat /\ c < CLUSTERS
  BY <1>1, FatAssumption DEF Clusters
<1>3. SectorOf(c) = SectorOf(chain[1])
  BY <1>1 DEF OneSector
<1>4. fat[c] = IF k = Len(chain) THEN EOC ELSE chain[k + 1]
  BY Links
<1> HIDE DEF c
<1>5. Slot(c) < FEPS /\ SectorOf(c) * FEPS + Slot(c) = c
  <2>1. Slot(c) \in 0 .. FEPS - 1 /\ SectorOf(c) * FEPS + Slot(c) = c
    BY <1>2, SplitCluster
  <2>2. Slot(c) < FEPS
    BY <2>1, FatAssumption
  <2> QED
    BY <2>1, <2>2
<1>6. Buffer(SectorOf(c), Slot(c)) = {fat[c]}
  BY <1>2, <1>5 DEF Buffer
<1> QED
  BY <1>3, <1>4, <1>6 DEF c

-----------------------------------------------------------------------------
(* fat_setup                                                               *)

(* A call of fat_setup or fat_read, as it was made.                        *)
CallMade ==
  /\ task \in {"count", "read", "find"}
  /\ task # "find" =>
       /\ chain \in Chains /\ others = {}
       /\ pointer \in Nat /\ count \in Nat \ {0}
       /\ pointer + count <= Len(chain) * bytes_per_cluster

(* fat_setup counts the clusters as it reaches them.                       *)
CountInv ==
  task = "count" /\ OneSector =>
    /\ pc \in {"loop", "done", "hung"}
    /\ pc = "loop" => /\ sector = SectorOf(chain[1])
                      /\ \E k \in 1 .. Len(chain) : active_cluster = chain[k] /\ root_clusters = k
    /\ pc = "done" => root_clusters = Len(chain)

LEMMA CallsStay ==
  ASSUME CallMade, [DirNext]_dirVars
  PROVE  CallMade' /\ (task # "find" => (OneSector' <=> OneSector))
<1>1. UNCHANGED <<task, chain, others, pointer, count>>
  <2>1. [FindStep \/ FatStep]_dirVars => UNCHANGED inputs \/ UNCHANGED dirVars
    BY DEF FindStep, NamePart, FoundFile, EnterDirectory, NextEntry, FindHangs, FatStep, FatHangs,
           FindEntry, SearchOn, CountCluster, SkipCluster, SkipEnds, CopyPartial, CopyCluster
  <2> QED
    BY <2>1, Zenon DEF DirNext, inputs, dirVars, fatVars
<1> QED
  BY <1>1 DEF CallMade, OneSector, SectorOf

LEMMA CountStep ==
  ASSUME CallMade, CountInv, CountCluster
  PROVE  CountInv'
<1> SUFFICES ASSUME OneSector PROVE CountInv'
  BY DEF CountInv, CountCluster, inputs, OneSector, SectorOf
<1>1. /\ task = "count" /\ pc = "loop" /\ chain \in Chains /\ others = {}
      /\ sector = SectorOf(chain[1])
      /\ UNCHANGED <<task, chain, others>>
  BY DEF CountCluster, CallMade, CountInv, inputs
<1>2. PICK k \in 1 .. Len(chain) : active_cluster = chain[k] /\ root_clusters = k
  BY <1>1 DEF CountInv
<1>3. /\ SectorOf(active_cluster) = sector
      /\ Buffer(sector, Slot(active_cluster)) = {IF k = Len(chain) THEN EOC ELSE chain[k + 1]}
  BY <1>1, <1>2, LinkRead
<1>4. sector' = sector
  BY <1>3 DEF CountCluster
<1>r. \A k_1 \in Nat : k_1 <= Len(chain) => k_1 % U16 = k_1
  <2>1. PICK n \in 1 .. MAX_CHAIN : chain \in [1 .. n -> Clusters]
    BY <1>1 DEF Chains
  <2>2. Len(chain) = n /\ n < U16 /\ U16 \in Nat
    BY <2>1, FatAssumption
  <2> QED
    BY <2>2
<1>5. /\ Len(chain) \in Nat
      /\ k # Len(chain) => k + 1 \in 1 .. Len(chain) /\ ~EndsChain(chain[k + 1])
  BY <1>1, NotLast
<1>6. CASE k = Len(chain)
  <2>1. pc' = "done" /\ root_clusters' = root_clusters
    BY <1>3, <1>4, <1>6, FatAssumption DEF CountCluster, RootEntry, EndsChain
  <2> QED
    BY <1>1, <1>2, <1>6, <2>1 DEF CountInv
<1>7. CASE k # Len(chain)
  <2>0. (k + 1) % U16 = k + 1
    BY <1>5, <1>7, <1>r
  <2>1. pc' = pc /\ root_clusters' = k + 1 /\ active_cluster' = chain[k + 1]
    BY <1>2, <1>3, <1>4, <1>5, <1>7, <2>0 DEF CountCluster, RootEntry
  <2> QED
    BY <1>1, <1>4, <1>5, <1>7, <2>1 DEF CountInv, SectorOf
<1> QED
  BY <1>6, <1>7

-----------------------------------------------------------------------------
(* fat_read                                                                *)

Bytes == Clusters \X Nat

(* What fat_read has copied is what it was asked for, and it stands at the *)
(* cluster that the next byte is in.                                       *)
ReadInv ==
  task = "read" /\ found /\ OneSector =>
    /\ pc \in {"find", "skip", "partial", "loop", "done", "hung"}
    /\ out \in Seq(Bytes) /\ Len(out) <= count /\ bytes = count - Len(out)
    /\ \A n \in 1 .. Len(out) : out[n] = Wanted[n]
    /\ pc \in {"skip", "partial", "loop"} => sector = SectorOf(chain[1])
    /\ pc = "find" => out = <<>> /\ skipped = 0
    /\ pc = "skip" => /\ out = <<>>
                      /\ skipped \in 0 .. pointer \div bytes_per_cluster
                      /\ active_cluster = chain[skipped + 1]
    /\ pc = "partial" => out = <<>> /\ active_cluster = chain[(pointer \div bytes_per_cluster) + 1]
    /\ pc = "loop" =>
         /\ bytes > 0
         /\ \E k \in 1 .. Len(chain) : /\ active_cluster = chain[k]
                                       /\ pointer + Len(out) = (k - 1) * bytes_per_cluster
    /\ pc = "done" => Len(out) = count

(* Where a byte of the file is.                                            *)
LEMMA BytePlace ==
  ASSUME NEW q \in Nat, NEW r \in 0 .. bytes_per_cluster - 1
  PROVE  /\ (q * bytes_per_cluster + r) \div bytes_per_cluster = q
         /\ (q * bytes_per_cluster + r) % bytes_per_cluster = r
BY FatAssumption, PartAndPlace

LEMMA PointerPlace ==
  ASSUME CallMade, task = "read"
  PROVE  /\ pointer \div bytes_per_cluster \in Nat
         /\ Offset \in 0 .. bytes_per_cluster - 1
         /\ pointer = (pointer \div bytes_per_cluster) * bytes_per_cluster + Offset
         /\ (pointer \div bytes_per_cluster) + 1 \in 1 .. Len(chain)
<1> DEFINE B == bytes_per_cluster
           q == pointer \div B
           r == pointer % B
<1>1. /\ B \in Nat /\ B > 0 /\ pointer \in Nat /\ count \in Nat /\ count > 0
      /\ Len(chain) \in Nat /\ pointer + count <= Len(chain) * B
  BY FatAssumption, ChainType DEF CallMade
<1>2. q \in Nat /\ r \in 0 .. B - 1 /\ pointer = r + B * q
  BY <1>1
<1> HIDE DEF B, q, r
<1>3. pointer = q * B + r
  BY <1>1, <1>2
<1>4. q < Len(chain)
  <2> SUFFICES ASSUME q >= Len(chain) PROVE FALSE
    BY <1>1, <1>2
  <2>1. q * B >= Len(chain) * B
    BY <1>1, <1>2
  <2>2. q * B \in Nat /\ Len(chain) * B \in Nat
    BY <1>1, <1>2
  <2> QED
    BY <1>1, <1>2, <1>3, <2>1, <2>2
<1>5. q + 1 \in 1 .. Len(chain)
  BY <1>1, <1>2, <1>4
<1> QED
  BY <1>2, <1>3, <1>5 DEF Offset, B, q, r

(* When there is more to copy than the cluster holds, the file goes on in  *)
(* another one.                                                            *)
LEMMA MoreClusters ==
  ASSUME NEW B \in Nat, NEW k \in Nat \ {0}, NEW n \in Nat, NEW at \in Nat, NEW more \in Nat,
         at + more <= n * B, (k - 1) * B <= at, at + more > k * B
  PROVE  k < n
<1> SUFFICES ASSUME n <= k PROVE FALSE
  OBVIOUS
<1>1. n * B <= k * B
  OBVIOUS
<1>2. n * B \in Nat /\ k * B \in Nat
  OBVIOUS
<1> QED
  BY <1>1, <1>2

(* Copying from the place in the cluster where the next byte is.           *)
LEMMA CopyRight ==
  ASSUME CallMade, task = "read", NEW k \in 1 .. Len(chain), active_cluster = chain[k],
         out \in Seq(Bytes), \A n \in 1 .. Len(out) : out[n] = Wanted[n],
         NEW from \in Nat, NEW size \in Nat, from + size <= bytes_per_cluster,
         pointer + Len(out) = (k - 1) * bytes_per_cluster + from,
         Len(out) + size <= count
  PROVE  /\ Copy(from, size) \in Seq(Bytes)
         /\ Len(Copy(from, size)) = Len(out) + size
         /\ \A n \in 1 .. Len(out) + size : Copy(from, size)[n] = Wanted[n]
<1> DEFINE part == [n \in 1 .. size |-> <<active_cluster, from + n - 1>>]
           new == Copy(from, size)
<1>1. /\ chain \in Chains /\ pointer \in Nat /\ count \in Nat /\ Len(out) \in Nat
      /\ Len(chain) \in Nat /\ active_cluster \in Clusters
      /\ bytes_per_cluster \in Nat
  BY ChainType, FatAssumption DEF CallMade
<1>2. part \in Seq(Bytes) /\ Len(part) = size
  <2>1. \A n \in 1 .. size : <<active_cluster, from + n - 1>> \in Bytes
    BY <1>1 DEF Bytes
  <2>2. part \in [1 .. size -> Bytes]
    BY <2>1
  <2> HIDE DEF part
  <2> QED
    BY <2>2
<1> HIDE DEF part, new
<1>3. new = out \o part
  BY DEF Copy, part, new
<1>4. new \in Seq(Bytes) /\ Len(new) = Len(out) + size
  BY <1>2, <1>3, ConcatProperties
<1>5. ASSUME NEW n \in 1 .. Len(out) + size PROVE new[n] = Wanted[n]
  <2>1. CASE n <= Len(out)
    <3>1. n \in 1 .. Len(out)
      BY <1>1, <2>1
    <3>2. new[n] = out[n]
      BY <1>2, <1>3, <3>1
    <3> QED
      BY <3>1, <3>2
  <2>2. CASE n > Len(out)
    <3> DEFINE m == n - Len(out)
    <3>1. m \in 1 .. size /\ n \in 1 .. count
      BY <1>1, <2>2
    <3>2. new[n] = part[m]
      BY <1>1, <1>2, <1>3, <2>2, SMTT(30)
    <3>3. part[m] = <<chain[k], from + m - 1>>
      BY <3>1 DEF part
    <3>4. /\ from + m - 1 \in 0 .. bytes_per_cluster - 1 /\ k - 1 \in Nat /\ (k - 1) + 1 = k
          /\ pointer + n - 1 = (k - 1) * bytes_per_cluster + (from + m - 1)
      <4>1. (k - 1) * bytes_per_cluster \in Nat /\ k - 1 \in Nat
        BY <1>1
      <4> QED
        BY <1>1, <3>1, <4>1
    <3> DEFINE at == pointer + n - 1
    <3> HIDE DEF m
    <3>5. at \div bytes_per_cluster = k - 1 /\ at % bytes_per_cluster = from + m - 1
      BY <3>4, BytePlace
    <3>6. Wanted[n] = <<chain[(at \div bytes_per_cluster) + 1], at % bytes_per_cluster>>
      BY <3>1 DEF Wanted
    <3> QED
      BY <3>2, <3>3, <3>4, <3>5, <3>6
  <2> QED
    BY <1>1, <2>1, <2>2
<1> QED
  BY <1>4, <1>5 DEF new

(* In one sector both ways of following a link lead to the next cluster.   *)
LEMMA FollowLink ==
  ASSUME chain \in Chains, others = {}, OneSector, NEW k \in 1 .. Len(chain), k # Len(chain),
         active_cluster = chain[k], sector = SectorOf(chain[1]),
         Follow \/ FollowOrReload
  PROVE  sector' = sector /\ active_cluster' = chain[k + 1]
<1>1. k + 1 \in 1 .. Len(chain)
  BY NotLast
<1>2. /\ Buffer(sector, Slot(active_cluster)) = {chain[k + 1]}
      /\ SectorOf(active_cluster) = sector /\ SectorOf(chain[k + 1]) = sector
  BY <1>1, LinkRead
<1>3. CASE Follow
  <2>1. sector' = sector
    BY <1>2, <1>3 DEF Follow
  <2> QED
    BY <1>2, <1>3, <2>1 DEF Follow
<1>4. CASE FollowOrReload
  BY <1>2, <1>4 DEF FollowOrReload
<1> QED
  BY <1>3, <1>4

LEMMA ReadStep ==
  ASSUME CallMade, ReadInv, FindEntry \/ SkipCluster \/ SkipEnds \/ CopyPartial \/ CopyCluster
  PROVE  ReadInv'
<1> DEFINE B == bytes_per_cluster
           q == pointer \div B
<1>0. UNCHANGED <<task, chain, others, found, pointer, count>> /\ task = "read"
  BY DEF FindEntry, SkipCluster, SkipEnds, CopyPartial, CopyCluster, inputs
<1> SUFFICES ASSUME found, OneSector PROVE ReadInv'
  BY <1>0 DEF ReadInv, OneSector, SectorOf
<1>1. /\ chain \in Chains /\ others = {} /\ B \in Nat /\ B > 0
      /\ pointer \in Nat /\ count \in Nat /\ count > 0 /\ Len(chain) \in Nat
      /\ pointer + count <= Len(chain) * B
  BY <1>0, FatAssumption, ChainType DEF CallMade
<1>2. /\ q \in Nat /\ Offset \in 0 .. B - 1 /\ pointer = q * B + Offset
      /\ q + 1 \in 1 .. Len(chain)
  BY <1>0, PointerPlace
<1>3. /\ out \in Seq(Bytes) /\ Len(out) \in Nat /\ Len(out) <= count /\ bytes = count - Len(out)
      /\ \A n \in 1 .. Len(out) : out[n] = Wanted[n]
      /\ bytes \in Nat
  BY <1>0, <1>1 DEF ReadInv
<1>4. Wanted' = Wanted /\ SectorOf(chain[1])' = SectorOf(chain[1]) /\ OneSector' /\ Len(chain)' = Len(chain)
  BY <1>0 DEF Wanted, OneSector, SectorOf
<1>f. CASE FindEntry
  <2>1. /\ out = <<>> /\ skipped = 0 /\ out' = out /\ bytes' = bytes /\ skipped' = skipped
        /\ active_cluster' = chain[1] /\ sector' = SectorOf(chain[1]) /\ pc' \in {"skip", "hung"}
    BY <1>0, <1>f DEF FindEntry, ReadInv
  <2>2. 0 \in 0 .. q
    BY <1>2
  <2> QED
    BY <1>0, <1>3, <1>4, <2>1, <2>2 DEF ReadInv
<1>5. CASE SkipCluster
  <2>1. /\ out = <<>> /\ pc = "skip" /\ pc' = pc /\ out' = out /\ bytes' = bytes
        /\ skipped \in Nat /\ skipped < q /\ skipped' = skipped + 1
        /\ active_cluster = chain[skipped + 1] /\ sector = SectorOf(chain[1])
        /\ Follow
    BY <1>0, <1>2, <1>5 DEF SkipCluster, SkipsLeft, ReadInv
  <2>2. skipped + 1 \in 1 .. Len(chain) /\ skipped + 1 # Len(chain) /\ skipped' \in 0 .. q
    BY <1>1, <1>2, <2>1
  <2>3. sector' = sector /\ active_cluster' = chain[skipped' + 1]
    BY <1>1, <2>1, <2>2, FollowLink
  <2> QED
    BY <1>0, <1>3, <1>4, <2>1, <2>2, <2>3 DEF ReadInv
<1>6. CASE SkipEnds
  <2>1. /\ out = <<>> /\ pc = "skip" /\ out' = out /\ bytes' = bytes
        /\ skipped \in 0 .. q /\ ~(skipped < q)
        /\ active_cluster = chain[skipped + 1] /\ sector = SectorOf(chain[1])
        /\ sector' = sector /\ active_cluster' = active_cluster
        /\ pc' = IF Offset # 0 THEN "partial" ELSE "loop"
    BY <1>0, <1>6 DEF SkipEnds, SkipsLeft, ReadInv
  <2>2. skipped = q /\ Len(out) = 0 /\ bytes = count
    <3>1. skipped \in Nat /\ skipped <= q /\ q \in Nat
      BY <1>2, <2>1
    <3> HIDE DEF q
    <3> QED
      BY <1>1, <1>3, <2>1, <3>1
  <2>3. Offset = 0 => pointer' + Len(out') = ((q + 1) - 1) * B /\ bytes' > 0
    BY <1>0, <1>1, <1>2, <2>1, <2>2
  <2>4. pc' = "loop" =>
          /\ bytes' > 0
          /\ \E k \in 1 .. Len(chain') : /\ active_cluster' = chain'[k]
                                         /\ pointer' + Len(out') = (k - 1) * B
    <3>1. SUFFICES ASSUME Offset = 0
                   PROVE  /\ bytes' > 0
                          /\ \E k \in 1 .. Len(chain) : /\ active_cluster = chain[k]
                                                        /\ pointer' + Len(out') = (k - 1) * B
      BY <1>0, <2>1
    <3> QED
      BY <1>2, <2>1, <2>2, <2>3, <3>1
  <2>5. active_cluster' = chain'[(pointer' \div B) + 1]
    BY <1>0, <2>1, <2>2
  <2> QED
    BY <1>0, <1>3, <1>4, <2>1, <2>4, <2>5 DEF ReadInv
<1>7. CASE CopyPartial
  <2>0. task = "read" /\ out \in Seq(Bytes) /\ \A n \in 1 .. Len(out) : out[n] = Wanted[n]
    BY <1>0, <1>3
  <2> DEFINE rest == B - Offset
  <2>1. /\ pc = "partial" /\ out = <<>> /\ Len(out) = 0 /\ bytes = count
        /\ active_cluster = chain[q + 1] /\ sector = SectorOf(chain[1])
        /\ rest \in Nat /\ Offset \in Nat /\ rest > 0
    BY <1>0, <1>1, <1>2, <1>3, <1>7 DEF CopyPartial, ReadInv
  <2>2. pointer + Len(out) = ((q + 1) - 1) * B + Offset
    BY <1>1, <1>2, <2>1
  <2>3. CASE bytes > rest
    <3>1. out' = Copy(Offset, rest) /\ bytes' = bytes - rest /\ Follow /\ pc' = "loop"
      BY <1>7, <2>3 DEF CopyPartial
    <3>2. /\ out' \in Seq(Bytes) /\ Len(out') = rest
          /\ \A n \in 1 .. rest : out'[n] = Wanted[n]
      <4>1. Offset + rest <= B /\ Len(out) + rest <= count /\ Len(out) + rest = rest
        BY <1>1, <1>2, <2>1, <2>3
      <4> HIDE DEF rest, q
      <4>2. /\ q + 1 \in 1 .. Len(chain) /\ active_cluster = chain[q + 1]
            /\ Offset \in Nat /\ rest \in Nat /\ Offset + rest <= bytes_per_cluster
            /\ pointer + Len(out) = ((q + 1) - 1) * bytes_per_cluster + Offset
            /\ Len(out) + rest <= count
        BY <1>2, <1>3, <2>1, <2>2, <4>1, Zenon
      <4>3. /\ Copy(Offset, rest) \in Seq(Bytes) /\ Len(Copy(Offset, rest)) = Len(out) + rest
            /\ \A n \in 1 .. Len(out) + rest : Copy(Offset, rest)[n] = Wanted[n]
        BY <2>0, <4>2, CopyRight, Zenon
      <4> QED
        BY <3>1, <4>1, <4>3, Zenon
    <3>3. pointer + rest = (q + 1) * B
      BY <1>1, <1>2
    <3>4. q + 1 # Len(chain)
      BY <1>1, <1>2, <2>1, <2>3, <3>3
    <3>5. q + 2 \in 1 .. Len(chain) /\ (q + 1) + 1 = q + 2 /\ (q + 2) - 1 = q + 1
      BY <1>1, <1>2, <3>4
    <3>6. sector' = sector /\ active_cluster' = chain[q + 2]
      BY <1>1, <1>2, <2>1, <3>1, <3>4, <3>5, FollowLink
    <3>7. /\ bytes' > 0 /\ bytes' = count - Len(out') /\ Len(out') <= count
          /\ pointer + Len(out') = ((q + 2) - 1) * B
      <4>1. pointer + Len(out') = ((q + 2) - 1) * B
        BY <3>2, <3>3, <3>5
      <4>2. bytes' > 0 /\ bytes' = count - Len(out') /\ Len(out') <= count
        <5>1. Len(out') = rest /\ bytes' = count - rest /\ count > rest
          BY <2>1, <2>3, <3>1, <3>2
        <5> HIDE DEF rest
        <5> QED
          BY <1>1, <2>1, <5>1
      <4> QED
        BY <4>1, <4>2
    <3>8. \E k \in 1 .. Len(chain') : /\ active_cluster' = chain'[k]
                                      /\ pointer' + Len(out') = (k - 1) * B
      BY <1>0, <3>5, <3>6, <3>7
    <3> QED
      <4>1. /\ pc' \in {"find", "skip", "partial", "loop", "done", "hung"} /\ sector' = SectorOf(chain[1])'
            /\ \A n \in 1 .. Len(out') : out'[n] = Wanted'[n]
        BY <1>4, <2>1, <3>1, <3>2, <3>6
      <4> HIDE DEF rest, q
      <4> QED
        BY <1>0, <3>1, <3>2, <3>7, <3>8, <4>1 DEF ReadInv
  <2>4. CASE ~(bytes > rest)
    <3>1. out' = Copy(Offset, bytes) /\ bytes' = 0 /\ pc' = "done"
      BY <1>7, <2>4 DEF CopyPartial
    <3>2. /\ out' \in Seq(Bytes) /\ Len(out') = bytes
          /\ \A n \in 1 .. bytes : out'[n] = Wanted[n]
      <4>1. Offset + bytes <= B /\ Len(out) + bytes <= count /\ Len(out) + bytes = bytes
        BY <1>1, <1>2, <1>3, <2>1, <2>4
      <4> HIDE DEF rest, q
      <4>2. /\ q + 1 \in 1 .. Len(chain) /\ active_cluster = chain[q + 1]
            /\ Offset \in Nat /\ bytes \in Nat /\ Offset + bytes <= bytes_per_cluster
            /\ pointer + Len(out) = ((q + 1) - 1) * bytes_per_cluster + Offset
            /\ Len(out) + bytes <= count
        BY <1>2, <1>3, <2>1, <2>2, <4>1, Zenon
      <4>3. /\ Copy(Offset, bytes) \in Seq(Bytes) /\ Len(Copy(Offset, bytes)) = Len(out) + bytes
            /\ \A n \in 1 .. Len(out) + bytes : Copy(Offset, bytes)[n] = Wanted[n]
        BY <2>0, <4>2, CopyRight, Zenon
      <4> QED
        BY <3>1, <4>1, <4>3, Zenon
    <3>3. bytes' = count - Len(out')
      BY <1>1, <2>1, <3>1, <3>2
    <3> QED
      BY <1>0, <1>1, <1>4, <2>1, <3>1, <3>2, <3>3 DEF ReadInv
  <2> QED
    BY <2>3, <2>4
<1>8. CASE CopyCluster
  <2>0. task = "read" /\ out \in Seq(Bytes) /\ \A n \in 1 .. Len(out) : out[n] = Wanted[n]
    BY <1>0, <1>3
  <2>1. pc = "loop" /\ bytes > 0 /\ sector = SectorOf(chain[1])
    BY <1>0, <1>8 DEF CopyCluster, ReadInv
  <2>2. PICK k \in 1 .. Len(chain) : /\ active_cluster = chain[k]
                                    /\ pointer + Len(out) = (k - 1) * B
    BY <1>0, <2>1 DEF ReadInv
  <2>3. k \in Nat /\ k > 0 /\ (k - 1) * B \in Nat /\ pointer + Len(out) = (k - 1) * B + 0
        /\ k * B = (k - 1) * B + B
    BY <1>1, <2>2
  <2>4. CASE bytes > B
    <3>1. out' = Copy(0, B) /\ bytes' = bytes - B /\ FollowOrReload
      BY <1>8, <2>4 DEF CopyCluster
    <3>2. /\ out' \in Seq(Bytes) /\ Len(out') = Len(out) + B
          /\ \A n \in 1 .. Len(out) + B : out'[n] = Wanted[n]
      <4>1. 0 + B <= B /\ Len(out) + B <= count /\ 0 \in Nat
        BY <1>1, <1>3, <2>4
      <4>2. /\ active_cluster = chain[k] /\ bytes_per_cluster \in Nat /\ 0 + bytes_per_cluster <= bytes_per_cluster
            /\ pointer + Len(out) = (k - 1) * bytes_per_cluster + 0
            /\ Len(out) + bytes_per_cluster <= count
        BY <1>1, <1>3, <2>2, <2>3, <4>1, Zenon
      <4>3. /\ Copy(0, bytes_per_cluster) \in Seq(Bytes) /\ Len(Copy(0, bytes_per_cluster)) = Len(out) + bytes_per_cluster
            /\ \A n \in 1 .. Len(out) + bytes_per_cluster : Copy(0, bytes_per_cluster)[n] = Wanted[n]
        BY <2>0, <4>1, <4>2, CopyRight, Zenon
      <4> QED
        BY <3>1, <4>3, Zenon
    <3>3. k # Len(chain)
      BY <1>1, <1>3, <2>3, <2>4
    <3>4. k + 1 \in 1 .. Len(chain) /\ (k + 1) - 1 = k /\ ~EndsChain(chain[k + 1])
      BY <1>1, <2>3, <3>3, NotLast
    <3>5. sector' = sector /\ active_cluster' = chain[k + 1]
      BY <1>1, <2>1, <2>2, <3>1, <3>3, FollowLink
    <3>6. pc' = "loop"
      BY <1>8, <2>4, <3>4, <3>5 DEF CopyCluster
    <3>7. /\ bytes' > 0 /\ bytes' = count - Len(out') /\ Len(out') <= count
          /\ pointer + Len(out') = ((k + 1) - 1) * B
      <4>1. bytes' > 0 /\ bytes' = count - Len(out') /\ Len(out') <= count
        <5>1. Len(out') = Len(out) + B /\ bytes' = bytes - B
          BY <3>1, <3>2
        <5> HIDE DEF B
        <5> QED
          BY <1>1, <1>3, <2>4, <5>1
      <4>2. pointer + Len(out') = k * B
        <5> DEFINE P == (k - 1) * B
                   Q == k * B
        <5>1. Len(out') = Len(out) + B /\ pointer + Len(out) = P /\ Q = P + B /\ P \in Nat
          BY <2>2, <2>3, <3>2, Zenon
        <5>2. pointer \in Nat /\ Len(out) \in Nat /\ B \in Nat
          BY <1>1, <1>3, Zenon
        <5> HIDE DEF P, Q, B
        <5>3. pointer + Len(out') = Q
          BY <5>1, <5>2
        <5> QED
          BY <5>3 DEF Q
      <4> QED
        BY <3>4, <4>1, <4>2
    <3>8. \E m \in 1 .. Len(chain') : /\ active_cluster' = chain'[m]
                                      /\ pointer' + Len(out') = (m - 1) * B
      BY <1>0, <3>4, <3>5, <3>7
    <3> QED
      BY <1>0, <1>4, <2>1, <3>2, <3>5, <3>6, <3>7, <3>8 DEF ReadInv
  <2>5. CASE ~(bytes > B)
    <3>1. out' = Copy(0, bytes) /\ bytes' = 0 /\ pc' = "done"
      BY <1>8, <2>5 DEF CopyCluster
    <3>2. /\ out' \in Seq(Bytes) /\ Len(out') = Len(out) + bytes
          /\ \A n \in 1 .. Len(out) + bytes : out'[n] = Wanted[n]
      <4>1. 0 + bytes <= B /\ Len(out) + bytes <= count /\ 0 \in Nat
        BY <1>1, <1>3, <2>5
      <4>2. /\ active_cluster = chain[k] /\ bytes \in Nat /\ 0 + bytes <= bytes_per_cluster
            /\ pointer + Len(out) = (k - 1) * bytes_per_cluster + 0
            /\ Len(out) + bytes <= count
        BY <1>1, <1>3, <2>2, <2>3, <4>1, Zenon
      <4>3. /\ Copy(0, bytes) \in Seq(Bytes) /\ Len(Copy(0, bytes)) = Len(out) + bytes
            /\ \A n \in 1 .. Len(out) + bytes : Copy(0, bytes)[n] = Wanted[n]
        BY <2>0, <4>1, <4>2, CopyRight, Zenon
      <4> QED
        BY <3>1, <4>3, Zenon
    <3>3. Len(out') = count /\ bytes' = count - Len(out')
      BY <1>1, <1>3, <3>1, <3>2
    <3> QED
      BY <1>0, <1>1, <1>4, <3>1, <3>2, <3>3 DEF ReadInv
  <2> QED
    BY <2>4, <2>5
<1> QED
  BY <1>f, <1>5, <1>6, <1>7, <1>8

-----------------------------------------------------------------------------
(* The theorems about chains                                               *)

LEMMA ChainInvariant == DirSpec => [](CallMade /\ CountInv /\ ReadInv)
<1>1. DirInit => CallMade /\ CountInv /\ ReadInv
  <2>1. FindInit => CallMade /\ CountInv /\ ReadInv
    BY DEF FindInit, CallMade, CountInv, ReadInv
  <2>2. FatInit => CallMade
    <3> SUFFICES ASSUME FatInit PROVE CallMade
      OBVIOUS
    <3>1. /\ task \in {"count", "read"} /\ chain \in Chains /\ others = {}
          /\ pointer \in 0 .. (Len(chain) * bytes_per_cluster) - 1
          /\ count \in 1 .. (Len(chain) * bytes_per_cluster) - pointer
      BY DEF FatInit
    <3>2. Len(chain) * bytes_per_cluster \in Nat
      BY <3>1, ChainType, FatAssumption
    <3> QED
      BY <3>1, <3>2 DEF CallMade
  <2>3. ASSUME FatInit PROVE CountInv /\ ReadInv
    <3>1. CallMade /\ task # "find" /\ Len(chain) \in Nat \ {0} /\ count \in Nat
      BY <2>2, <2>3, ChainType DEF CallMade, FatInit
    <3>2. CountInv
      BY <2>3, <3>1 DEF FatInit, CountInv
    <3>3. task = "read" => pointer \div bytes_per_cluster \in Nat
      BY <3>1, PointerPlace
    <3>4. ReadInv
      BY <2>3, <3>1, <3>3 DEF FatInit, ReadInv
    <3> QED
      BY <3>2, <3>4
  <2> QED
    BY <2>1, <2>2, <2>3 DEF DirInit
<1>2. CallMade /\ CountInv /\ ReadInv /\ [DirNext]_dirVars => (CallMade /\ CountInv /\ ReadInv)'
  <2> SUFFICES ASSUME CallMade, CountInv, ReadInv, [DirNext]_dirVars
               PROVE  CountInv' /\ ReadInv'
    BY CallsStay
  <2>1. CASE CountCluster
    <3>1. ReadInv'
      BY <2>1 DEF ReadInv, CountCluster, inputs
    <3> QED
      BY <2>1, <3>1, CountStep
  <2>2. CASE FindEntry \/ SkipCluster \/ SkipEnds \/ CopyPartial \/ CopyCluster
    <3>1. task' = "read"
      BY <2>2 DEF FindEntry, SkipCluster, SkipEnds, CopyPartial, CopyCluster, inputs
    <3>2. CountInv'
      BY <3>1 DEF CountInv
    <3> QED
      BY <2>2, <3>2, ReadStep
  <2>3. CASE FindStep
    <3>1. task' = "find"
      BY <2>3 DEF FindStep, NamePart, FoundFile, EnterDirectory, NextEntry, FindHangs, TakeName,
                  Searching, inputs
    <3> QED
      BY <3>1 DEF CountInv, ReadInv
  <2>5. CASE SearchOn
    <3>1. task' = "read" /\ ~found'
      BY <2>5 DEF SearchOn, inputs
    <3> QED
      BY <3>1 DEF CountInv, ReadInv
  <2>6. CASE FatHangs
    <3>1. pc' = "hung" /\ UNCHANGED <<inputs, bytes, out>>
      BY <2>6 DEF FatHangs
    <3> QED
      BY <3>1, ZenonT(40) DEF inputs, CountInv, ReadInv, OneSector, SectorOf, Wanted
  <2>4. CASE UNCHANGED dirVars
    BY <2>4, ZenonT(40) DEF dirVars, fatVars, CountInv, ReadInv, OneSector, SectorOf, Wanted
  <2> QED
    BY <2>1, <2>2, <2>3, <2>4, <2>5, <2>6 DEF DirNext, FatStep
<1> QED
  BY <1>1, <1>2, PTL DEF DirSpec

(* fat_read copies the bytes of the file from the pointer on, in order and *)
(* up to the last one (ReadsFile), wherever pointer and count cut the      *)
(* clusters, for every file that the search has found and whose links are  *)
(* in one sector of the table.                                             *)
THEOREM FilesAreRead == DirSpec => []ReadsFile
<1>1. CallMade /\ ReadInv => ReadsFile
  <2> SUFFICES ASSUME CallMade, ReadInv, task = "read", found, OneSector
               PROVE  IsPrefix(out, Wanted) /\ (pc = "done" => out = Wanted)
    BY DEF ReadsFile
  <2>1. /\ out \in Seq(Bytes) /\ Len(out) \in Nat /\ Len(out) <= count /\ count \in Nat
        /\ \A n \in 1 .. Len(out) : out[n] = Wanted[n]
        /\ pc = "done" => Len(out) = count
    BY DEF ReadInv, CallMade
  <2>2. DOMAIN Wanted = 1 .. count /\ Len(Wanted) = count
    BY <2>1 DEF Wanted
  <2>3. Wanted = [n \in 1 .. count |-> Wanted[n]] /\ out = [n \in 1 .. Len(out) |-> out[n]]
    BY <2>1 DEF Wanted
  <2>4. SubSeq(out, 1, Len(out)) = SubSeq(Wanted, 1, Len(out))
    <3>1. \A S : \A s \in Seq(S), n \in Nat : n <= Len(s) => SubSeq(s, 1, n) = [m \in 1 .. n |-> s[m]]
      OBVIOUS
    <3>2. Wanted \in Seq({Wanted[n] : n \in 1 .. count})
      <4> DEFINE W == Wanted
      <4>1. DOMAIN W = 1 .. count /\ W = [n \in 1 .. count |-> W[n]]
        BY <2>2, <2>3
      <4> HIDE DEF W
      <4>2. W \in Seq({W[n] : n \in 1 .. count})
        BY <2>1, <4>1
      <4> QED
        BY <4>2 DEF W
    <3>3. SubSeq(out, 1, Len(out)) = [n \in 1 .. Len(out) |-> out[n]]
      BY <2>1, <3>1
    <3>4. SubSeq(Wanted, 1, Len(out)) = [n \in 1 .. Len(out) |-> Wanted[n]]
      BY <2>1, <2>2, <3>1, <3>2
    <3> QED
      BY <2>1, <3>3, <3>4
  <2>5. pc = "done" => out = Wanted
    BY <2>1, <2>3
  <2> QED
    BY <2>1, <2>2, <2>4, <2>5 DEF IsPrefix
<1> QED
  BY <1>1, ChainInvariant, PTL

(* fat_setup counts the clusters of the root directory                     *)
(* (CountsRootInOneSector) when their links are in one sector, whatever it *)
(* sees past the end of its buffer.                                        *)
THEOREM RootIsCounted == DirSpec => []CountsRootInOneSector
<1>1. CountInv => CountsRootInOneSector
  BY DEF CountInv, CountsRootInOneSector
<1> QED
  BY <1>1, ChainInvariant, PTL

-----------------------------------------------------------------------------
(* find_fat_entry: the entries of a cluster                                *)

LEMMA DirSizes == ENTRIES \in Nat \ {0} /\ PARTS \in Nat \ {0}
BY DirectoryAssumption, Zenon

Uncut(entries) == \A n \in DOMAIN entries : n % ENTRIES = 0 => entries[n].kind # "lfn"

(* A part of a long name, the entry after it and the name so far.          *)
PartOf(e, next) ==
  /\ Ended(e.name) /\ Parts(e.name) <= PARTS
  /\ e.part \in 1 .. Parts(e.name) /\ e.cell = e.name[e.part]
  /\ next.name = e.name /\ ~next.deleted
  /\ IF e.part = 1 THEN next.kind \in {"file", "dir"}
                   ELSE next.kind = "lfn" /\ next.part = e.part - 1

(* In a cluster of a directory whose names are not cut, names begin and    *)
(* end.                                                                    *)
LEMMA Neighbours ==
  ASSUME NEW entries, IsDirectory(entries), Uncut(entries), NEW k \in Nat \ {0},
         NEW n \in 1 .. ENTRIES
  PROVE  LET c == Chunk(entries, k)
         IN  /\ c[n] = None \/ (c[n].kind \in {"lfn", "file", "dir"} /\ c[n] \in Range(entries))
             /\ c[n].kind = "lfn" => n < ENTRIES /\ c[n].deleted \in BOOLEAN
             /\ LivePart(c[n]) => PartOf(c[n], c[n + 1])
             /\ (n = 1 \/ ~LivePart(c[n - 1])) =>
                  /\ LivePart(c[n]) => c[n].part = Parts(c[n].name)
                  /\ c[n].kind \in {"file", "dir"} => c[n].name = <<>>
<1> DEFINE c == Chunk(entries, k)
           base == (k - 1) * ENTRIES
           m == base + n
<1>1. /\ ENTRIES \in Nat /\ ENTRIES > 0 /\ k - 1 \in Nat /\ base \in Nat
      /\ Len(entries) \in Nat /\ DOMAIN entries = 1 .. Len(entries)
  <2>1. ENTRIES \in Nat /\ ENTRIES > 0
    BY DirSizes
  <2>2. entries \in Seq(Range(entries))
    BY DEF IsDirectory
  <2> QED
    BY <2>1, <2>2
<1>2. \A x \in 1 .. ENTRIES : c[x] = IF base + x <= Len(entries) THEN entries[base + x] ELSE None
  BY DEF Chunk
<1>3. base % ENTRIES = 0 /\ (base + ENTRIES) % ENTRIES = 0
  <2>1. 0 \in 0 .. ENTRIES - 1 /\ (k - 1) * ENTRIES + 0 = base
    BY <1>1
  <2>2. k \in Nat /\ k * ENTRIES + 0 = base + ENTRIES
    BY <1>1
  <2> HIDE DEF base
  <2>3. ((k - 1) * ENTRIES + 0) % ENTRIES = 0 /\ (k * ENTRIES + 0) % ENTRIES = 0
    BY <1>1, <2>1, <2>2, PartAndPlace
  <2> QED
    BY <2>1, <2>2, <2>3
<1> HIDE DEF c, base
<1>4. CASE m > Len(entries)
  <2>1. c[n] = None
    BY <1>1, <1>2, <1>4
  <2>2. None.kind = "none"
    BY DEF None
  <2> QED
    BY <2>1, <2>2 DEF c, LivePart
<1>5. CASE m <= Len(entries)
  <2>1. c[n] = entries[m] /\ m \in 1 .. Len(entries)
    BY <1>1, <1>2, <1>5
  <2>2. c[n].kind \in {"lfn", "file", "dir"} /\ c[n] \in Range(entries)
    BY <1>1, <2>1 DEF IsDirectory, Range
  <2>a. c[n].kind = "lfn" => n < ENTRIES /\ c[n].deleted \in BOOLEAN
    <3>1. c[n].kind = "lfn" => n # ENTRIES
      BY <1>1, <1>3, <2>1 DEF Uncut
    <3>2. c[n].deleted \in BOOLEAN
      BY <1>1, <2>1 DEF IsDirectory
    <3> QED
      BY <1>1, <3>1, <3>2
  <2>3. ASSUME LivePart(c[n]) PROVE PartOf(c[n], c[n + 1])
    <3>1. n # ENTRIES
      BY <1>1, <2>a, <2>3 DEF LivePart
    <3>2. m < Len(entries)
      BY <1>1, <2>1, <2>3 DEF IsDirectory
    <3>3. n + 1 \in 1 .. ENTRIES /\ base + (n + 1) = m + 1 /\ m + 1 \in 1 .. Len(entries)
      BY <1>1, <3>1, <3>2
    <3>4. c[n + 1] = entries[m + 1]
      BY <1>1, <1>2, <3>3
    <3>5. entries[m + 1].kind \in {"lfn", "file", "dir"}
      BY <1>1, <3>3 DEF IsDirectory
    <3> HIDE DEF m
    <3>6. /\ Ended(c[n].name) /\ Parts(c[n].name) <= PARTS
          /\ c[n].part \in 1 .. Parts(c[n].name) /\ c[n].cell = c[n].name[c[n].part]
          /\ c[n + 1].name = c[n].name /\ ~c[n + 1].deleted
          /\ IF c[n].part = 1 THEN c[n + 1].kind # "lfn"
                              ELSE c[n + 1].kind = "lfn" /\ c[n + 1].part = c[n].part - 1
      BY <1>1, <2>1, <2>3, <3>4 DEF IsDirectory
    <3> QED
      BY <1>1, <3>1, <3>4, <3>5, <3>6 DEF PartOf
  <2>4. ASSUME n = 1 \/ ~LivePart(c[n - 1]) PROVE Starts(entries, m)
    <3>1. CASE m = 1
      BY <3>1 DEF Starts
    <3>2. CASE m # 1 /\ n = 1
      <4>1. m - 1 = base /\ m - 1 \in DOMAIN entries
        BY <1>1, <2>1, <3>2
      <4> QED
        BY <1>3, <4>1 DEF Uncut, Starts, LivePart
    <3>3. CASE n # 1
      <4>1. n - 1 \in 1 .. ENTRIES /\ base + (n - 1) = m - 1 /\ m - 1 <= Len(entries)
        BY <1>1, <2>1, <3>3
      <4>2. c[n - 1] = entries[m - 1]
        BY <1>2, <4>1
      <4> QED
        BY <2>4, <3>3, <4>2 DEF Starts
    <3> QED
      BY <3>1, <3>2, <3>3
  <2> HIDE DEF m
  <2>5. Starts(entries, m) => /\ LivePart(c[n]) => c[n].part = Parts(c[n].name)
                              /\ c[n].kind \in {"file", "dir"} => c[n].name = <<>>
    BY <1>1, <2>1 DEF IsDirectory
  <2> QED
    BY <2>2, <2>a, <2>3, <2>4, <2>5 DEF c
<1> QED
  BY <1>1, <1>4, <1>5

(* What a cluster of the directories shows.                                *)
LEMMA ClusterShown ==
  ASSUME listing \in Listings, chain \in Chains, sub \in Chains, NamesUncut, NEW cluster,
         InDirectories(cluster), NEW n \in 1 .. ENTRIES
  PROVE  LET c == Contents(cluster)
         IN  /\ \/ c[n] = None
                \/ /\ c[n].kind \in {"lfn", "file", "dir"}
                   /\ c[n] \in Range(listing.root) \cup Range(listing.sub)
             /\ c[n].kind = "lfn" => n < ENTRIES /\ c[n].deleted \in BOOLEAN
             /\ LivePart(c[n]) => PartOf(c[n], c[n + 1])
             /\ (n = 1 \/ ~LivePart(c[n - 1])) =>
                  /\ LivePart(c[n]) => c[n].part = Parts(c[n].name)
                  /\ c[n].kind \in {"file", "dir"} => c[n].name = <<>>
<1>1. /\ IsDirectory(listing.root) /\ IsDirectory(listing.sub)
      /\ Uncut(listing.root) /\ Uncut(listing.sub)
  BY DirectoryAssumption, Zenon DEF NamesUncut, Uncut
<1>3. PICK entries \in {listing.root, listing.sub}, k \in Nat \ {0} :
        /\ IsDirectory(entries) /\ Uncut(entries)
        /\ Contents(cluster) = Chunk(entries, k)
        /\ Range(entries) \subseteq Range(listing.root) \cup Range(listing.sub)
  <2>1. CASE cluster \in Range(chain)
    <3>1. Place(chain, cluster) \in Nat \ {0}
      BY <2>1, ChainType DEF Place, Range
    <3>2. Contents(cluster) = Chunk(listing.root, Place(chain, cluster))
      BY <2>1 DEF Contents
    <3> QED
      BY <1>1, <3>1, <3>2
  <2>2. CASE cluster \notin Range(chain) /\ cluster \in Range(sub)
    <3>1. DOMAIN sub \subseteq Nat \ {0}
      BY DEF Chains
    <3>2. Place(sub, cluster) \in Nat \ {0}
      BY <2>2, <3>1 DEF Place, Range
    <3>3. Contents(cluster) = Chunk(listing.sub, Place(sub, cluster))
      BY <2>2 DEF Contents
    <3> QED
      BY <1>1, <3>2, <3>3
  <2> QED
    BY <2>1, <2>2 DEF InDirectories
<1>4. LET c == Chunk(entries, k)
      IN  /\ c[n] = None \/ (c[n].kind \in {"lfn", "file", "dir"} /\ c[n] \in Range(entries))
          /\ c[n].kind = "lfn" => n < ENTRIES /\ c[n].deleted \in BOOLEAN
          /\ LivePart(c[n]) => PartOf(c[n], c[n + 1])
          /\ (n = 1 \/ ~LivePart(c[n - 1])) =>
               /\ LivePart(c[n]) => c[n].part = Parts(c[n].name)
               /\ c[n].kind \in {"file", "dir"} => c[n].name = <<>>
  BY <1>3, Neighbours, Zenon
<1> QED
  BY <1>3, <1>4

(* An array that begins with cells up to one that ends compares equal only *)
(* to what those cells spell.                                              *)
LEMMA SameCells ==
  ASSUME NEW n \in Nat \ {0}, NEW S, NEW cells \in [1 .. n -> S], cells[n].ends,
         NEW array, \A k \in 1 .. n : array[k] = cells[k],
         NEW path, Ended(path), strcmp(array, path)
  PROVE  path = SubSeq(cells, 1, Min({k \in DOMAIN cells : cells[k].ends}))
<1> DEFINE Ends == {k \in DOMAIN cells : cells[k].ends}
           p == Len(path)
<1>1. path \in Seq(Range(path)) /\ p \in Nat \ {0} /\ DOMAIN path = 1 .. p
  BY DirSizes DEF Ended
<1>2. \A k \in 1 .. p : path[k].ends <=> k = p
  BY DEF Ended
<1>3. \A k \in 1 .. p : array[k] = path[k]
  BY <1>1 DEF strcmp
<1>4. Ends \in SUBSET Nat /\ n \in Ends
  OBVIOUS
<1>5. Min(Ends) \in Ends /\ \A y \in Ends : Min(Ends) <= y
  BY <1>4, MinMember
<1> DEFINE first == Min(Ends)
<1>6. first \in 1 .. n /\ cells[first].ends /\ \A k \in 1 .. n : cells[k].ends => first <= k
  BY <1>5
<1> HIDE DEF first, Ends, p
<1>7. ~(p < first)
  <2> SUFFICES ASSUME p < first PROVE FALSE
    OBVIOUS
  <2>1. p \in 1 .. n /\ p \in 1 .. p
    BY <1>1, <1>6
  <2>2. cells[p].ends
    BY <1>2, <1>3, <2>1
  <2> QED
    BY <1>6, <2>1, <2>2
<1>8. ~(first < p)
  <2> SUFFICES ASSUME first < p PROVE FALSE
    OBVIOUS
  <2>1. first \in 1 .. p /\ first # p
    BY <1>1, <1>6
  <2> QED
    BY <1>2, <1>3, <1>6, <2>1
<1>9. p = first
  BY <1>1, <1>6, <1>7, <1>8
<1>10. cells \in Seq(S) /\ Len(cells) = n
  OBVIOUS
<1>11. SubSeq(cells, 1, first) = [k \in 1 .. first |-> cells[k]]
  BY <1>6, <1>10
<1>12. path = [k \in 1 .. p |-> path[k]]
  BY <1>1 DEF p
<1>13. \A k \in 1 .. p : path[k] = cells[k]
  BY <1>3, <1>6, <1>9
<1> QED
  BY <1>9, <1>11, <1>12, <1>13 DEF first, Ends

(* So an array that holds a long name, cut to 8 bits, and a 0 behind it.   *)
LEMMA SameName ==
  ASSUME NEW name, Ended(name), NEW path, NEW array, Ended(path),
         \A k \in 1 .. Parts(name) + 1 : array[k] = IF k <= Parts(name) THEN Low(name[k]) ELSE NUL,
         strcmp(array, path)
  PROVE  path = Spelled(name)
<1> DEFINE n == Parts(name) + 1
           cells == Narrowed(name)
           S == {cells[k] : k \in 1 .. n}
<1>1. Parts(name) \in Nat /\ n \in Nat \ {0}
  <2>1. Len(name) \in Nat /\ Len(name) >= 1
    BY DirSizes DEF Ended
  <2> QED
    BY <2>1 DEF Parts
<1>2. cells = [k \in 1 .. n |-> IF k <= Parts(name) THEN Low(name[k]) ELSE NUL]
  BY DEF Narrowed
<1>3. cells[n] = NUL /\ NUL.ends
  BY <1>1, <1>2 DEF NUL, Cell
<1>4. \A k \in 1 .. n : array[k] = cells[k]
  BY <1>2
<1>5. DOMAIN cells = 1 .. n /\ cells = [k \in 1 .. n |-> cells[k]]
  BY <1>2
<1> HIDE DEF cells, n
<1>6. cells \in [1 .. n -> S]
  BY <1>5
<1>7. path = SubSeq(cells, 1, Min({k \in DOMAIN cells : cells[k].ends}))
  BY <1>1, <1>3, <1>4, <1>6, SameCells
<1> QED
  BY <1>7 DEF Spelled, cells

-----------------------------------------------------------------------------
(* find_fat_entry: the search                                              *)

(* What the array holds of the long name that the search is in.  Outside   *)
(* of names no length is left over.                                        *)
NameSoFar ==
  IF inname
    THEN LET e == Contents(buffer)[i]
         IN  /\ i > 0 /\ e.kind = "lfn"
             /\ InDirectories(buffer) /\ ~BehindDeleted =>
                  /\ len = (Parts(e.name) - e.part) + 1
                  /\ \A k \in e.part .. Parts(e.name) : filename[k] = Low(e.name[k])
    ELSE len = 0 /\ (i > 0 => Contents(buffer)[i].kind # "lfn")

Found ==
  InDirectories(buffer) =>
    \/ entry.kind = "file" /\ Named(entry) = listing.path[depth + 1]
    \/ entry = None /\ listing.path[depth + 1] = <<NUL>>
    \/ BehindDeleted

FindInv ==
  task = "find" =>
    /\ listing \in Listings /\ chain \in Chains /\ sub \in Chains /\ others = {sub}
    /\ buffer \in 0 .. EOC /\ active_cluster \in 0 .. EOC /\ sector \in Nat
    /\ i \in 0 .. ENTRIES - 1 /\ inname \in BOOLEAN /\ depth \in Nat
    /\ DOMAIN filename = 1 .. PARTS + 1
    /\ NamesUncut /\ pc = "search" => NameSoFar
    /\ NamesUncut /\ pc = "done" => Found

(* Whatever the search takes for a link is a number of a cluster.          *)
LEMMA LinkType ==
  ASSUME chain \in Chains, sub \in Chains, others = {sub}, NEW sec \in Nat, NEW index \in Nat
  PROVE  Buffer(sec, index) \subseteq 0 .. EOC
<1>1. \A c \in {chain} \cup others : \A k \in DOMAIN c : k # Len(c) => c[k + 1] \in Clusters
  <2> SUFFICES ASSUME NEW c \in Chains, NEW k \in DOMAIN c, k # Len(c) PROVE c[k + 1] \in Clusters
    OBVIOUS
  <2>1. PICK n \in 1 .. MAX_CHAIN : c \in [1 .. n -> Clusters]
    BY DEF Chains
  <2>2. Len(c) = n /\ k \in 1 .. n
    BY <2>1
  <2> QED
    BY <2>1, <2>2
<1>2. Clusters \subseteq 0 .. EOC /\ 0 \in 0 .. EOC /\ EOC \in 0 .. EOC
  BY FatAssumption DEF Clusters
<1>3. ASSUME NEW n \in 0 .. CLUSTERS - 1 PROVE fat[n] \in 0 .. EOC
  <2> DEFINE all == {chain} \cup others
             c == CHOOSE c \in all : n \in Range(c)
             k == CHOOSE k \in DOMAIN c : c[k] = n
  <2>1. fat[n] = IF n < 2 THEN EOC ELSE IF \A d \in all : n \notin Range(d) THEN 0
                 ELSE IF k = Len(c) THEN EOC ELSE c[k + 1]
    BY DEF fat
  <2>2. ASSUME ~ \A d \in all : n \notin Range(d) PROVE c \in all /\ k \in DOMAIN c
    <3>1. c \in all /\ n \in Range(c)
      BY <2>2
    <3> HIDE DEF c
    <3> QED
      BY <3>1 DEF Range
  <2> HIDE DEF c, k
  <2> QED
    BY <1>1, <1>2, <2>1, <2>2
<1>4. CASE index < FEPS /\ sec * FEPS + index < CLUSTERS
  <2>1. Buffer(sec, index) = {fat[sec * FEPS + index]}
    BY <1>4 DEF Buffer
  <2> DEFINE n == sec * FEPS + index
  <2>2. sec * FEPS \in Nat
    BY FatAssumption
  <2>3. n \in 0 .. CLUSTERS - 1
    <3> HIDE DEF n
    <3>1. n = sec * FEPS + index
      BY DEF n
    <3> QED
      BY <1>4, <2>2, <3>1, FatAssumption
  <2> HIDE DEF n
  <2>4. fat[n] \in 0 .. EOC
    BY <1>3, <2>3
  <2> QED
    BY <2>1, <2>4 DEF n
<1> QED
  BY <1>4 DEF Buffer

(* The entry at which the search ends has the name that it was looking     *)
(* for.                                                                    *)
LEMMA MatchIsNamed ==
  ASSUME FindInv, NamesUncut, Searching, Current.kind \notin {"lfn", "dir"}, Matches(Name),
         InDirectories(buffer), ~BehindDeleted
  PROVE  \/ Current.kind = "file" /\ Named(Current) = listing.path[depth + 1]
         \/ Current = None /\ listing.path[depth + 1] = <<NUL>>
<1> DEFINE c == Contents(buffer)
           path == listing.path[depth + 1]
<1>1. /\ listing \in Listings /\ chain \in Chains /\ sub \in Chains
      /\ i \in 0 .. ENTRIES - 1 /\ inname \in BOOLEAN /\ depth \in Nat
      /\ DOMAIN filename = 1 .. PARTS + 1 /\ NameSoFar
  BY DEF FindInv, Searching
<1>2. /\ ENTRIES \in Nat /\ PARTS \in Nat /\ PARTS # 0
      /\ i + 1 \in 1 .. ENTRIES /\ (i + 1) - 1 = i /\ i \in Nat
      /\ i > 0 => i \in 1 .. ENTRIES
  BY <1>1, DirSizes
<1>3. strcmp(Name, path) /\ depth < Len(listing.path)
  BY DEF Matches
<1>4. Current = c[i + 1]
  BY DEF Current
<1>5. Ended(path) /\ \A e \in Range(listing.root) \cup Range(listing.sub) :
                       e.kind # "lfn" /\ e.ext = "" => path[1] # ShortName(e)
  <2>1. depth + 1 \in 1 .. Len(listing.path)
    BY <1>1, <1>3
  <2> QED
    BY <1>1, <2>1, DirectoryAssumption, Zenon
<1>6. Current = None \/ /\ Current.kind = "file"
                        /\ Current \in Range(listing.root) \cup Range(listing.sub)
  BY <1>1, <1>2, <1>4, ClusterShown
<1>7. None.kind = "none" /\ ShortName(None) = NUL
  BY DEF None, ShortName
<1>8. CASE inname
  <2> DEFINE e == c[i]
             name == e.name
  <2>1. /\ i > 0 /\ e.kind = "lfn"
        /\ len = (Parts(e.name) - e.part) + 1
        /\ \A k \in e.part .. Parts(e.name) : filename[k] = Low(e.name[k])
    BY <1>1, <1>8 DEF NameSoFar
  <2>a. LivePart(e)
    <3>1. ~e.deleted
      BY <1>2, <2>1 DEF BehindDeleted
    <3> QED
      BY <2>1, <3>1 DEF LivePart
  <2>2. PartOf(e, Current)
    BY <1>1, <1>2, <1>4, <2>1, <2>a, ClusterShown
  <2>3. /\ Ended(name) /\ Parts(name) <= PARTS /\ e.part = 1 /\ Parts(name) >= 1
        /\ Current.name = name /\ Current.kind = "file"
    BY <1>6, <1>7, <2>2 DEF PartOf
  <2> HIDE DEF e, name
  <2>4. name \in Seq(Range(name)) /\ Len(name) >= 1 /\ Parts(name) \in Nat
    <3>1. name \in Seq(Range(name)) /\ Len(name) \in Nat /\ Len(name) >= 1
      BY <1>2, <2>3 DEF Ended
    <3> QED
      BY <3>1 DEF Parts
  <2>5. len = Parts(name) /\ \A k \in 1 .. Parts(name) : filename[k] = Low(name[k])
    BY <2>1, <2>3, <2>4 DEF name
  <2>6. \A k \in 1 .. Parts(name) + 1 : Name[k] = IF k <= Parts(name) THEN Low(name[k]) ELSE NUL
    <3>1. Name = [k \in DOMAIN filename |-> IF k = len + 1 THEN NUL ELSE filename[k]]
      BY <1>8 DEF Name
    <3>2. \A k \in 1 .. PARTS + 1 : Name[k] = IF k = len + 1 THEN NUL ELSE filename[k]
      BY <1>1, <3>1
    <3>3. ASSUME NEW k \in 1 .. Parts(name) + 1
          PROVE  Name[k] = IF k <= Parts(name) THEN Low(name[k]) ELSE NUL
      <4>1. k \in 1 .. PARTS + 1 /\ (k = len + 1 <=> ~(k <= Parts(name)))
        BY <1>2, <2>3, <2>4, <2>5
      <4>2. k <= Parts(name) => k \in 1 .. Parts(name)
        BY <2>4
      <4> QED
        BY <2>5, <3>2, <4>1, <4>2
    <3> QED
      BY <3>3
  <2>7. path = Spelled(name)
    <3>1. Ended(name) /\ Ended(path) /\ strcmp(Name, path)
      BY <1>3, <1>5, <2>3
    <3> HIDE DEF path
    <3> QED
      BY <2>6, <3>1, SameName, Zenon
  <2>8. name # <<>>
    BY <2>4
  <2> QED
    BY <2>3, <2>7, <2>8 DEF Named
<1>9. CASE ~inname
  <2>1. i > 0 => c[i].kind # "lfn"
    BY <1>1, <1>9 DEF NameSoFar
  <2>2. Current.kind = "file" => Current.name = <<>>
    BY <1>1, <1>2, <1>4, <2>1, ClusterShown DEF LivePart
  <2>3. Name[1] = ShortName(Current)
    BY <1>1, <1>2, <1>9 DEF Name
  <2> DEFINE short == <<ShortName(Current)>>
  <2>4. ShortName(Current).ends
    BY DEF ShortName, NUL, Cell
  <2>5. \A k \in 1 .. 1 : Name[k] = short[k]
    BY <2>3
  <2>6. path = short
    <3>1. short \in [1 .. 1 -> {ShortName(Current)}] /\ short[1].ends /\ 1 \in Nat \ {0}
      BY <2>4
    <3>2. Ended(path) /\ strcmp(Name, path)
      BY <1>3, <1>5
    <3> HIDE DEF path, short
    <3>3. path = SubSeq(short, 1, Min({k \in DOMAIN short : short[k].ends}))
      BY <2>5, <3>1, <3>2, SameCells
    <3>4. {k \in DOMAIN short : short[k].ends} = {1}
      BY <3>1
    <3>5. Min({1}) = 1
      BY MinMember
    <3>6. short \in Seq({ShortName(Current)}) /\ Len(short) = 1
      BY DEF short
    <3>7. SubSeq(short, 1, 1) = short
      BY <3>6, SubSeqFull
    <3> QED
      BY <3>3, <3>4, <3>5, <3>7
  <2>7. CASE Current = None
    BY <1>7, <2>6, <2>7
  <2>8. CASE Current.kind = "file" /\ Current \in Range(listing.root) \cup Range(listing.sub)
    <3>1. Current.ext # ""
      <4>1. path[1] = ShortName(Current)
        BY <2>6
      <4> QED
        BY <1>5, <2>8, <4>1
    <3> QED
      BY <2>2, <2>6, <2>8, <3>1 DEF Named, ShortName
  <2> QED
    BY <1>6, <2>7, <2>8
<1> QED
  BY <1>1, <1>8, <1>9

LEMMA SearchStep ==
  ASSUME FindInv, FindStep
  PROVE  FindInv'
<1>1. /\ task = "find" /\ pc = "search" /\ Searching
      /\ UNCHANGED <<task, chain, sub, others, listing, data>>
  BY DEF FindStep, NamePart, FoundFile, EnterDirectory, NextEntry, FindHangs, TakeName, Searching,
         inputs, disk
<1>2. /\ listing \in Listings /\ chain \in Chains /\ sub \in Chains /\ others = {sub}
      /\ buffer \in 0 .. EOC /\ active_cluster \in 0 .. EOC /\ sector \in Nat
      /\ i \in 0 .. ENTRIES - 1 /\ inname \in BOOLEAN /\ depth \in Nat
      /\ DOMAIN filename = 1 .. PARTS + 1
      /\ NamesUncut => NameSoFar
  BY <1>1 DEF FindInv
<1>3. /\ ENTRIES \in Nat /\ ENTRIES > 0 /\ PARTS \in Nat /\ i \in Nat
      /\ i + 1 \in 1 .. ENTRIES /\ (i + 1) - 1 = i
      /\ 0 \in 0 .. ENTRIES - 1
      /\ i + 1 < ENTRIES => i + 1 \in 0 .. ENTRIES - 1
      /\ i > 0 => i \in 1 .. ENTRIES
  BY <1>2, DirSizes
<1>4. NamesUncut' = NamesUncut /\ (buffer' = buffer => Contents(buffer)' = Contents(buffer))
  BY <1>1 DEF NamesUncut, Contents
<1>n. ASSUME NextCluster PROVE sector' \in Nat /\ active_cluster' \in 0 .. EOC
  <2>0. active_cluster \in Nat /\ FEPS \in Nat
    BY <1>2, FatAssumption
  <2>. Slot(active_cluster) \in 0 .. FEPS - 1
    BY <2>0, SplitCluster
  <2>1. Slot(active_cluster) \in Nat
    BY <2>0
  <2>2. PICK next \in Buffer(sector, Slot(active_cluster)) :
          sector' = SectorOf(next) /\ active_cluster' \in Buffer(sector', Slot(active_cluster))
    BY <1>n DEF NextCluster
  <2>3. next \in Nat
    BY <1>2, <2>1, <2>2, LinkType
  <2>4. sector' \in Nat
    BY <2>2, <2>3, SplitCluster
  <2> QED
    BY <1>2, <2>1, <2>2, <2>4, LinkType
<1>5. DOMAIN Name = 1 .. PARTS + 1
  BY <1>2 DEF Name
<1>6. NamesUncut /\ ~inname => len = 0
  BY <1>2 DEF NameSoFar
<1>7. CASE NamePart
  <2>1. /\ Current.kind = "lfn" /\ filename' = [filename EXCEPT ![Current.part] = Low(Current.cell)]
        /\ len' = IF len > PARTS THEN len ELSE len + 1
        /\ UNCHANGED <<pc, buffer, depth, entry>>
        /\ i' \in {0, i + 1} /\ i' \in 0 .. ENTRIES - 1 /\ inname' \in BOOLEAN
        /\ i + 1 < ENTRIES => i' = i + 1 /\ inname'
        /\ NextCluster \/ UNCHANGED <<sector, active_cluster>>
    BY <1>3, <1>7 DEF NamePart, wcatomba
  <2>2. DOMAIN filename' = 1 .. PARTS + 1
    BY <1>2, <2>1
  <2>3. ASSUME NamesUncut PROVE NameSoFar'
    <3> DEFINE c == Contents(buffer)
               e == c[i + 1]
    <3>1. e = Current /\ e.kind = "lfn"
      BY <2>1 DEF Current
    <3>2. i + 1 < ENTRIES
      <4>1. CASE InDirectories(buffer)
        BY <1>2, <1>3, <2>3, <3>1, <4>1, ClusterShown
      <4>2. CASE ~InDirectories(buffer)
        <5>1. c = data[buffer]
          BY <4>2 DEF Contents, InDirectories
        <5>2. data[buffer][ENTRIES].kind # "lfn"
          BY <1>2, <2>3 DEF NamesUncut
        <5> QED
          BY <1>3, <3>1, <5>1, <5>2
      <4> QED
        BY <4>1, <4>2
    <3>8. Contents(buffer)' = c /\ i' = i + 1 /\ i' > 0 /\ inname' /\ buffer' = buffer
      BY <1>3, <1>4, <2>1, <3>2
    <3>9. SUFFICES ASSUME InDirectories(buffer), ~BehindDeleted'
                   PROVE  /\ len' = (Parts(e.name) - e.part) + 1
                          /\ \A k \in e.part .. Parts(e.name) : filename'[k] = Low(e.name[k])
      <4>1. InDirectories(buffer)' = InDirectories(buffer)
        BY <1>1, <2>1 DEF InDirectories
      <4> HIDE DEF e, c
      <4> QED
        BY <3>1, <3>8, <4>1 DEF NameSoFar, e
    <3>10. /\ ~e.deleted /\ ~BehindDeleted
           /\ i > 0 /\ c[i].kind = "lfn" => ~c[i].deleted
      <4>1. \A m \in 1 .. i + 1 : ~(/\ c[m].kind = "lfn" /\ c[m].deleted
                                    /\ \A k \in m .. i + 1 : c[k].kind = "lfn")
        BY <3>8, <3>9 DEF BehindDeleted
      <4>2. ~c[i + 1].deleted
        BY <1>3, <3>1, <4>1
      <4>3. \A m \in 1 .. i : ~(/\ c[m].kind = "lfn" /\ c[m].deleted
                                /\ \A k \in m .. i : c[k].kind = "lfn")
        <5> SUFFICES ASSUME NEW m \in 1 .. i, c[m].kind = "lfn", c[m].deleted,
                            \A k \in m .. i : c[k].kind = "lfn"
                     PROVE  FALSE
          OBVIOUS
        <5>1. m \in 1 .. i + 1 /\ \A k \in m .. i + 1 : k \in m .. i \/ k = i + 1
          BY <1>3
        <5> QED
          BY <3>1, <4>1, <5>1
      <4>4. ~BehindDeleted
        BY <4>3 DEF BehindDeleted
      <4>5. i > 0 /\ c[i].kind = "lfn" => ~c[i].deleted
        BY <1>3, <4>3
      <4> QED
        BY <4>2, <4>4, <4>5
    <3>11. LivePart(e)
      BY <3>1, <3>10 DEF LivePart
    <3>12. /\ PartOf(e, c[(i + 1) + 1])
           /\ (i + 1 = 1 \/ ~LivePart(c[(i + 1) - 1])) => e.part = Parts(e.name)
      BY <1>2, <1>3, <2>3, <3>9, <3>11, ClusterShown
    <3>3. /\ Parts(e.name) \in Nat /\ Parts(e.name) <= PARTS
          /\ e.part \in Nat /\ 1 <= e.part /\ e.part <= Parts(e.name) /\ e.cell = e.name[e.part]
      <4>1. e.part \in 1 .. Parts(e.name) /\ Parts(e.name) <= PARTS /\ Ended(e.name) /\ e.cell = e.name[e.part]
        BY <3>12 DEF PartOf
      <4>2. Len(e.name) \in Nat /\ Len(e.name) >= 1
        BY <1>3, <4>1 DEF Ended
      <4>3. Parts(e.name) \in Nat
        BY <4>2 DEF Parts
      <4> HIDE DEF e
      <4> QED
        BY <1>3, <4>1, <4>3
    <3>4. /\ len = Parts(e.name) - e.part
          /\ \A k \in (e.part + 1) .. Parts(e.name) : filename[k] = Low(e.name[k])
      <4>1. CASE ~inname
        <5>1. len = 0 /\ (i > 0 => c[i].kind # "lfn")
          BY <1>2, <2>3, <4>1 DEF NameSoFar
        <5>2. e.part = Parts(e.name)
          BY <1>3, <3>12, <5>1 DEF LivePart
        <5> HIDE DEF e
        <5> QED
          BY <3>3, <5>1, <5>2
      <4>2. CASE inname
        <5> DEFINE d == c[i]
        <5>1. /\ i > 0 /\ d.kind = "lfn"
              /\ len = (Parts(d.name) - d.part) + 1
              /\ \A k \in d.part .. Parts(d.name) : filename[k] = Low(d.name[k])
          BY <1>2, <2>3, <3>9, <3>10, <4>2 DEF NameSoFar
        <5>a. LivePart(d)
          BY <3>10, <5>1 DEF LivePart
        <5>2. PartOf(d, e)
          BY <1>2, <1>3, <2>3, <3>9, <5>1, <5>a, ClusterShown
        <5>3. d.part \in 1 .. Parts(d.name) /\ e.name = d.name /\ e.part = d.part - 1
          BY <3>1, <5>2 DEF PartOf
        <5> HIDE DEF e, d
        <5> QED
          BY <3>3, <5>1, <5>3
      <4> QED
        BY <1>2, <4>1, <4>2
    <3>5. /\ filename'[e.part] = Low(e.name[e.part])
          /\ \A k \in 1 .. PARTS + 1 : k # e.part => filename'[k] = filename[k]
      BY <1>2, <1>3, <2>1, <3>1, <3>3
    <3>6. len' = (Parts(e.name) - e.part) + 1
      <4> HIDE DEF e
      <4> QED
        BY <1>3, <2>1, <3>3, <3>4
    <3>7. \A k \in e.part .. Parts(e.name) : filename'[k] = Low(e.name[k])
      <4> HIDE DEF e
      <4> QED
        BY <1>3, <3>3, <3>4, <3>5
    <3> QED
      BY <3>6, <3>7
  <2>4. sector' \in Nat /\ active_cluster' \in 0 .. EOC /\ buffer' \in 0 .. EOC
    BY <1>2, <1>n, <2>1
  <2> QED
    BY <1>1, <1>2, <1>4, <2>1, <2>2, <2>3, <2>4 DEF FindInv
<1>8. CASE FoundFile
  <2>1. /\ filename' = Name /\ entry' = Current /\ pc' = "done"
        /\ UNCHANGED <<i, inname, depth, buffer, sector, active_cluster>>
        /\ Matches(Name) /\ Current.kind \notin {"lfn", "dir"}
    BY <1>8 DEF FoundFile, TakeName
  <2>2. NamesUncut => Found'
    <3>1. BehindDeleted' = BehindDeleted /\ InDirectories(buffer)' = InDirectories(buffer)
      BY <1>1, <1>4, <2>1 DEF BehindDeleted, InDirectories
    <3>2. Named(Current) = Named(entry')
      BY <2>1
    <3>3. Named(entry)' = Named(entry')
      BY DEF Named, Spelled, Narrowed
    <3> QED
      BY <1>1, <2>1, <3>1, <3>2, <3>3, MatchIsNamed DEF Found
  <2> QED
    BY <1>1, <1>2, <1>4, <1>5, <2>1, <2>2 DEF FindInv
<1>9. CASE EnterDirectory
  <2>1. /\ filename' = Name /\ i' = 0 /\ inname' = FALSE /\ depth' = depth + 1 /\ pc' = pc
        /\ len' = IF inname THEN 0 ELSE len
        /\ buffer' = active_cluster' /\ active_cluster' \in FirstCluster(Current) /\ sector' = sector
    BY <1>9 DEF EnterDirectory, TakeName
  <2>5. active_cluster' \in 0 .. EOC
    <3>1. sub[1] \in 0 .. EOC
      <4>1. PICK n \in 1 .. MAX_CHAIN : sub \in [1 .. n -> Clusters]
        BY <1>2 DEF Chains
      <4> QED
        BY <4>1, FatAssumption DEF Clusters
    <3> QED
      BY <2>1, <3>1 DEF FirstCluster
  <2>2. NamesUncut => NameSoFar'
    BY <1>6, <2>1 DEF NameSoFar
  <2>3. depth' \in Nat
    <3>1. depth \in Nat /\ depth' = depth + 1
      BY <1>2, <2>1, Zenon
    <3> QED
      BY <3>1
  <2>4. i' \in 0 .. ENTRIES - 1 /\ inname' \in BOOLEAN /\ pc' = "search"
    BY <1>1, <1>3, <2>1, Zenon
  <2> QED
    BY <1>1, <1>2, <1>4, <1>5, <2>1, <2>2, <2>3, <2>4, <2>5 DEF FindInv
<1>10. CASE NextEntry
  <2>1. /\ filename' = Name /\ inname' = FALSE /\ depth' = depth
        /\ len' = IF inname THEN 0 ELSE len
        /\ Current.kind # "lfn"
        /\ i' = 0 \/ (i' = i + 1 /\ i + 1 < ENTRIES /\ buffer' = buffer)
        /\ NextCluster \/ UNCHANGED <<sector, active_cluster>>
        /\ buffer' \in {buffer, active_cluster'}
        /\ pc' \in {"search", "missing"}
    BY <1>1, <1>10 DEF NextEntry, TakeName
  <2>2. NamesUncut => NameSoFar'
    <3> SUFFICES ASSUME NamesUncut PROVE len' = 0 /\ (i' > 0 => Contents(buffer)'[i'].kind # "lfn")
      BY <2>1 DEF NameSoFar
    <3>1. CASE i' = 0
      BY <1>6, <2>1, <3>1
    <3>2. CASE i' = i + 1 /\ buffer' = buffer
      BY <1>4, <1>6, <2>1, <3>2 DEF Current
    <3> QED
      BY <2>1, <3>1, <3>2
  <2>3. sector' \in Nat /\ active_cluster' \in 0 .. EOC /\ buffer' \in 0 .. EOC
    BY <1>2, <1>n, <2>1
  <2> QED
    BY <1>1, <1>2, <1>3, <1>4, <1>5, <2>1, <2>2, <2>3 DEF FindInv
<1>11. CASE FindHangs
  <2>1. pc' = "hung" /\ UNCHANGED <<sector, active_cluster, buffer, i, inname, depth, filename>>
    BY <1>11 DEF FindHangs, findVars
  <2> QED
    BY <1>1, <1>2, <2>1 DEF FindInv
<1> QED
  BY <1>7, <1>8, <1>9, <1>10, <1>11 DEF FindStep

(* The entry that find_fat_entry returns has the name that the path has at *)
(* that depth (FoundIsNamed), for every listing of directories, deleted    *)
(* entries included, whose names are not cut by the end of a cluster,      *)
(* whatever chains the search has been lost in and whatever the files hold *)
(* that it has taken for directories there.  The exception is an entry     *)
(* right behind a part of a deleted long name.                             *)
THEOREM FoundEntryIsNamed == DirSpec => []FoundIsNamed
<1>1. DirInit => FindInv
  <2>1. FindInit => FindInv
    <3> SUFFICES ASSUME FindInit PROVE FindInv
      OBVIOUS
    <3>1. /\ listing \in Listings /\ chain \in Chains /\ sub \in Chains /\ pc = "search"
          /\ i = 0 /\ inname = FALSE /\ len = 0 /\ filename = Uninitialised /\ depth = 0
      BY DEF FindInit
    <3>4. /\ others = {sub} /\ buffer = chain[1] /\ active_cluster = chain[1]
          /\ sector = SectorOf(chain[1]) /\ chain[1] \in 0 .. EOC /\ sector \in Nat
      <4>1. others = {sub} /\ buffer = chain[1] /\ active_cluster = chain[1] /\ sector = SectorOf(chain[1])
        BY DEF FindInit
      <4>2. chain[1] \in Clusters
        BY <3>1, ChainType
      <4>3. chain[1] \in 0 .. EOC /\ chain[1] \in Nat
        BY <4>2, FatAssumption DEF Clusters
      <4> QED
        BY <4>1, <4>3, SplitCluster
    <3>2. 0 \in 0 .. ENTRIES - 1 /\ DOMAIN Uninitialised = 1 .. PARTS + 1
      BY DirSizes DEF Uninitialised
    <3>3. NameSoFar
      BY <3>1 DEF NameSoFar
    <3> QED
      BY <3>1, <3>2, <3>3, <3>4 DEF FindInv
  <2>2. FatInit => FindInv
    BY DEF FatInit, FindInv
  <2> QED
    BY <2>1, <2>2 DEF DirInit
<1>2. FindInv /\ [DirNext]_dirVars => FindInv'
  <2> SUFFICES ASSUME FindInv, [DirNext]_dirVars PROVE FindInv'
    OBVIOUS
  <2>1. CASE FatStep
    <3>1. task' # "find"
      BY <2>1 DEF FatStep, FindEntry, SearchOn, FatHangs, CountCluster, SkipCluster, SkipEnds, CopyPartial, CopyCluster, inputs
    <3> QED
      BY <3>1 DEF FindInv
  <2>2. CASE UNCHANGED dirVars
    <3>1. NamesUncut' = NamesUncut /\ NameSoFar' = NameSoFar /\ Found' = Found
      BY <2>2 DEF dirVars, fatVars, disk, findVars, NamesUncut, NameSoFar, Found, Contents,
                  InDirectories, BehindDeleted
    <3> QED
      BY <2>2, <3>1 DEF dirVars, fatVars, disk, findVars, FindInv
  <2> QED
    BY <2>1, <2>2, SearchStep DEF DirNext
<1>3. FindInv => FoundIsNamed
  BY DEF FindInv, FoundIsNamed, Found
<1> QED
  BY <1>1, <1>2, <1>3, PTL DEF DirSpec
=============================================================================
