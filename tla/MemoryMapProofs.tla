--------------------------- MODULE MemoryMapProofs ---------------------------
(***************************************************************************)
(* Theorems about MemoryMap, for any memory maps.                          *)
(***************************************************************************)
EXTENDS MemoryMap, TLAPS

(* The lines read. *)
Done == IF at[2] <= 2 THEN at[1] - 1 ELSE at[1]

(* Where the scan may be: at the start of a line, in a name after its      *)
(* first word, or behind a range that was taken for a name.                *)
Position ==
    /\ at[1] = Len(map) + 1 => at[2] = 1
    /\ at[2] # 3
    /\ at[2] = 2 => at[1] > 1 /\ Len(map[at[1] - 1].name) # 1

(* What is taken for a region in line l's name. *)
FragmentOf(l) == [Extent(map[l]) EXCEPT !.addr = Fragment]

(* The regions are the lines read, in order, and what was found in their   *)
(* names.                                                                  *)
RegionsInv ==
    /\ \A l \in 1 .. Done : IsRead(l)
    /\ \A i \in DOMAIN regions : \E l \in 1 .. Done : regions[i] \in {Extent(map[l]), FragmentOf(l)}
    /\ Done > 0 => [scanned EXCEPT !.addr = Fragment] = FragmentOf(Done)
    /\ \A i, j \in DOMAIN regions :
          i < j => \/ regions[i].endaddr < regions[j].endaddr
                   \/ /\ regions[i].endaddr = regions[j].endaddr
                      /\ regions[j].addr = Fragment

(* Lines are left out only behind one whose name is not of one word, and   *)
(* every writable region that next has passed was dumped.                  *)
DumpInv ==
    /\ pc = "scan" => next = 1 /\ dumps = <<>>
    /\ pc # "scan" /\ Opened => \A l \in DOMAIN map : l <= Done \/ ~Reachable(l)
    /\ pc \in {"close", "exited"} /\ Opened => next = Len(regions) + 1
    /\ \A i \in 1 .. (next - 1) : regions[i].writable =>
          \E d \in DOMAIN dumps : dumps[d] = MemoryDump(regions[i])
    /\ \A d \in DOMAIN dumps : \E i \in DOMAIN regions :
          regions[i].writable /\ dumps[d] = MemoryDump(regions[i])

IInv == TypeOK /\ Position /\ RegionsInv /\ DumpInv

----------------------------------------------------------------------------
(* Lines and positions. *)

LEMMA Lines ==
    ASSUME map \in Maps
    PROVE  /\ Len(map) \in Nat /\ DOMAIN map = 1 .. Len(map)
           /\ \A l \in 1 .. Len(map) :
                 /\ map[l] \in Line
                 /\ map[l].addr \in Nat /\ map[l].endaddr \in Nat
                 /\ map[l].writable \in BOOLEAN /\ map[l].name \in Seq(Words)
                 /\ Len(map[l].name) \in Nat
                 /\ \A k \in 1 .. Len(map) : l < k => map[l].endaddr < map[k].endaddr
           /\ Fragment \in Nat
<1> USE MapAssumption
<1>1. map \in Seq(Line)
  OBVIOUS
<1>2. Len(map) \in Nat /\ DOMAIN map = 1 .. Len(map)
  <2> HIDE DEF Line
  <2> QED
    BY <1>1
<1>3. ASSUME NEW l \in 1 .. Len(map)
      PROVE  /\ map[l] \in Line
             /\ map[l].addr \in Nat /\ map[l].endaddr \in Nat
             /\ map[l].writable \in BOOLEAN /\ map[l].name \in Seq(Words)
             /\ Len(map[l].name) \in Nat
  <2>1. map[l] \in Line
    BY <1>1, <1>2
  <2>2. map[l].name \in Seq(Words)
    BY <2>1 DEF Line
  <2>3. map[l].addr \in Nat /\ map[l].endaddr \in Nat
    BY <2>1 DEF Line
  <2>4. map[l].writable \in BOOLEAN
    BY <2>1 DEF Line
  <2>5. Len(map[l].name) \in Nat
    BY <2>2
  <2> QED
    BY <2>1, <2>2, <2>3, <2>4, <2>5
<1>4. ASSUME NEW l \in 1 .. Len(map)
      PROVE  \A k \in 1 .. Len(map) : l < k => map[l].endaddr < map[k].endaddr
  <2>1. \A k \in 1 .. Len(map) : /\ l < k => map[l].endaddr <= map[k].addr
                                /\ map[k].addr < map[k].endaddr
    BY <1>2, <1>4
  <2> QED
    BY <1>3, <2>1
<1>5. Fragment \in Nat
  OBVIOUS
<1> QED
  BY <1>2, <1>3, <1>4, <1>5

(* One word on. *)
LEMMA OneOn ==
    ASSUME NEW a, NEW b
    PROVE  After(<<a, b>>) = IF a > Len(map) THEN <<a, b>>
                             ELSE IF b < 2 + Len(map[a].name) THEN <<a, b + 1>>
                             ELSE <<a + 1, 1>>
BY DEF After

(* Where the scan goes from the start of a line. *)
LEMMA PastLine ==
    ASSUME map \in Maps, NEW l \in 1 .. Len(map)
    PROVE  After(After(After(<<l, 1>>))) =
             IF Len(map[l].name) = 0 THEN IF l = Len(map) THEN <<l + 1, 1>> ELSE <<l + 1, 2>>
             ELSE IF Len(map[l].name) = 1 THEN <<l + 1, 1>>
             ELSE <<l, 4>>
<1> DEFINE w == Len(map[l].name)
<1>1. w \in Nat /\ Len(map) \in Nat /\ ~(l > Len(map))
  BY Lines
<1>2. After(<<l, 1>>) = <<l, 2>>
  <2>1. 1 < 2 + w /\ 1 + 1 = 2
    BY <1>1
  <2> QED
    BY <1>1, <2>1, OneOn
<1>3. w = 0 => After(<<l, 2>>) = <<l + 1, 1>>
  <2>1. w = 0 => ~(2 < 2 + w)
    BY <1>1
  <2> QED
    BY <1>1, <2>1, OneOn
<1>4. w > 0 => After(<<l, 2>>) = <<l, 3>>
  <2>1. w > 0 => 2 < 2 + w /\ 2 + 1 = 3
    BY <1>1
  <2> QED
    BY <1>1, <2>1, OneOn
<1>5. w = 1 => After(<<l, 3>>) = <<l + 1, 1>>
  <2>1. w = 1 => ~(3 < 2 + w)
    BY <1>1
  <2> QED
    BY <1>1, <2>1, OneOn
<1>6. w > 1 => After(<<l, 3>>) = <<l, 4>>
  <2>1. w > 1 => 3 < 2 + w /\ 3 + 1 = 4
    BY <1>1
  <2> QED
    BY <1>1, <2>1, OneOn
<1>7. l = Len(map) => After(<<l + 1, 1>>) = <<l + 1, 1>>
  <2>1. l = Len(map) => l + 1 > Len(map)
    BY <1>1
  <2> QED
    BY <2>1, OneOn
<1>8. l # Len(map) => After(<<l + 1, 1>>) = <<l + 1, 2>>
  <2> SUFFICES ASSUME l # Len(map) PROVE After(<<l + 1, 1>>) = <<l + 1, 2>>
    OBVIOUS
  <2>1. l + 1 \in 1 .. Len(map) /\ ~(l + 1 > Len(map))
    BY <1>1
  <2>2. Len(map[l + 1].name) \in Nat
    BY <2>1, Lines
  <2>3. 1 < 2 + Len(map[l + 1].name) /\ 1 + 1 = 2
    BY <2>2
  <2> QED
    BY <2>1, <2>3, OneOn
<1> HIDE DEF w
<1>9. w = 0 \/ w = 1 \/ w > 1
  BY <1>1
<1>10. CASE w = 0
  BY <1>2, <1>3, <1>7, <1>8, <1>10 DEF w
<1>11. CASE w = 1
  <2>1. w > 0 /\ w # 0
    BY <1>11
  <2> QED
    BY <1>2, <1>4, <1>5, <1>11, <2>1 DEF w
<1>12. CASE w > 1
  <2>1. w > 0 /\ w # 0 /\ w # 1
    BY <1>1, <1>12
  <2> QED
    BY <1>2, <1>4, <1>6, <1>12, <2>1 DEF w
<1> QED
  BY <1>9, <1>10, <1>11, <1>12
(* What a region pushed does, if it is the next line or a fragment of the  *)
(* last one.                                                               *)
LEMMA Pushed ==
    ASSUME TypeOK, RegionsInv, DumpInv,
           NEW d \in Nat, NEW f \in 1 .. Len(map), Done = d, Done' = f,
           NEW region, NEW to, Push(region, to),
           \/ d = f - 1 /\ region = Extent(map[f])
           \/ d = f /\ region = FragmentOf(f)
    PROVE  RegionsInv' /\ DumpInv' /\ region \in Region /\ regions' \in Seq(Region)
<1> DEFINE n == Len(regions)
<1>1. /\ f \in 1 .. Len(map) /\ Len(map) \in Nat
      /\ region \in {Extent(map[f]), FragmentOf(f)}
      /\ 1 .. d \subseteq 1 .. f
      /\ 1 .. f \subseteq (1 .. d) \cup {f} /\ 1 .. f \subseteq 1 .. Len(map)
  <2>1. Len(map) \in Nat
    BY Lines DEF TypeOK
  <2>2. f \in 1 .. Len(map) /\ region \in {Extent(map[f]), FragmentOf(f)}
    OBVIOUS
  <2>3. f \in Nat /\ f >= 1 /\ (d = f - 1 \/ d = f)
    BY <2>1, <2>2
  <2>4. 1 .. d \subseteq 1 .. f /\ 1 .. f \subseteq (1 .. d) \cup {f}
    BY <2>3
  <2>5. 1 .. f \subseteq 1 .. Len(map)
    BY <2>1, <2>2
  <2> QED
    BY <2>1, <2>2, <2>4, <2>5
<1>14. f \in Nat /\ f >= 1
  BY <1>1
<1>2. map' = map
  BY DEF Push
<1>3. \A l \in 1 .. Len(map) : /\ Extent(map[l]) \in Region /\ Extent(map[l]).endaddr = map[l].endaddr
                              /\ FragmentOf(l).endaddr = map[l].endaddr
                              /\ FragmentOf(l) \in Region /\ FragmentOf(l).addr = Fragment
                              /\ [Extent(map[l]) EXCEPT !.addr = Fragment] = FragmentOf(l)
                              /\ [FragmentOf(l) EXCEPT !.addr = Fragment] = FragmentOf(l)
  <2> TAKE l \in 1 .. Len(map)
  <2>1. /\ map[l].addr \in Nat /\ map[l].endaddr \in Nat /\ map[l].writable \in BOOLEAN
        /\ Fragment \in Nat
    BY Lines DEF TypeOK
  <2>2. Extent(map[l]) \in Region
    BY <2>1 DEF Extent, Region
  <2>3. Extent(map[l]).endaddr = map[l].endaddr /\ FragmentOf(l).endaddr = map[l].endaddr
    BY DEF Extent, FragmentOf
  <2>4. FragmentOf(l) \in Region /\ FragmentOf(l).addr = Fragment
    BY <2>1, <2>2 DEF FragmentOf, Region
  <2>5. [FragmentOf(l) EXCEPT !.addr = Fragment] = FragmentOf(l)
    BY <2>2, <2>4 DEF FragmentOf, Region
  <2> QED
    BY <2>2, <2>3, <2>4, <2>5 DEF FragmentOf
<1>4. region \in Region
  BY <1>1, <1>3
<1>5. /\ n \in Nat /\ DOMAIN regions = 1 .. n /\ DOMAIN regions' = 1 .. (n + 1)
      /\ regions' \in Seq(Region) /\ regions'[n + 1] = region
      /\ \A i \in 1 .. n : regions'[i] = regions[i]
  <2>1. regions \in Seq(Region) /\ regions' = Append(regions, region)
    BY DEF Push, TypeOK
  <2> HIDE DEF Region
  <2> QED
    BY <1>4, <2>1
<1> HIDE DEF n
<1>6. /\ \A i \in 1 .. (n + 1) : i \in 1 .. n \/ i = n + 1
      /\ n + 1 \in 1 .. (n + 1) /\ \A i \in 1 .. n : i \in 1 .. (n + 1) /\ i < n + 1
  BY <1>5
<1>7. \A l \in 1 .. f : IsRead(l)'
  <2>1. ASSUME NEW l \in 1 .. d PROVE IsRead(l)'
    <3>1. PICK i \in 1 .. n : regions[i] = Extent(map[l])
      BY <1>5 DEF RegionsInv, IsRead
    <3> QED
      BY <1>2, <1>5, <1>6, <3>1 DEF IsRead
  <2>2. CASE f \notin 1 .. d
    <3>1. region = Extent(map[f])
      <4>1. d # f
        BY <1>14, <2>2
      <4> QED
        BY <4>1
    <3>2. IsRead(f)'
      BY <1>2, <1>5, <1>6, <3>1 DEF IsRead
    <3> QED
      BY <1>1, <2>1, <3>2
  <2>3. CASE f \in 1 .. d
    BY <1>1, <2>1, <2>3
  <2> QED
    BY <2>2, <2>3
<1>8. \A i \in 1 .. n : \E l \in 1 .. d : regions[i] \in {Extent(map[l]), FragmentOf(l)}
  BY <1>5 DEF RegionsInv
<1>9. \A i \in 1 .. (n + 1) : \E l \in 1 .. f : regions'[i] \in {Extent(map[l]), FragmentOf(l)}
  <2>1. ASSUME NEW i \in 1 .. n PROVE \E l \in 1 .. f : regions'[i] \in {Extent(map[l]), FragmentOf(l)}
    BY <1>1, <1>5, <1>8
  <2>2. f \in 1 .. f
    BY <1>1
  <2> QED
    BY <1>1, <1>5, <1>6, <2>1, <2>2
<1>10. [scanned' EXCEPT !.addr = Fragment] = FragmentOf(f)
  BY <1>1, <1>3 DEF Push
<1>11. \A i, j \in 1 .. (n + 1) :
          i < j => \/ regions'[i].endaddr < regions'[j].endaddr
                   \/ /\ regions'[i].endaddr = regions'[j].endaddr
                      /\ regions'[j].addr = Fragment
  <2> SUFFICES ASSUME NEW i \in 1 .. (n + 1), NEW j \in 1 .. (n + 1), i < j
               PROVE  \/ regions'[i].endaddr < regions'[j].endaddr
                      \/ /\ regions'[i].endaddr = regions'[j].endaddr
                         /\ regions'[j].addr = Fragment
    OBVIOUS
  <2>1. i \in 1 .. n
    BY <1>5
  <2>2. CASE j \in 1 .. n
    BY <1>5, <2>1, <2>2 DEF RegionsInv
  <2>3. CASE j = n + 1
    <3>1. PICK l \in 1 .. d : regions[i] \in {Extent(map[l]), FragmentOf(l)}
      BY <1>8, <2>1
    <3>2. l \in 1 .. f /\ l \in 1 .. Len(map)
      BY <1>1, <3>1
    <3>3. regions'[i].endaddr = map[l].endaddr /\ regions'[j].endaddr = map[f].endaddr
      BY <1>1, <1>3, <1>5, <2>1, <2>3, <3>1, <3>2
    <3>4. CASE l < f
      <4>1. map[l].endaddr < map[f].endaddr
        BY <1>1, <3>2, <3>4, Lines DEF TypeOK
      <4> QED
        BY <3>3, <4>1
    <3>5. CASE l = f
      <4>1. region = FragmentOf(f)
        <5>1. ~(d = f - 1)
          BY <1>14, <3>1, <3>5
        <5> QED
          BY <5>1
      <4> QED
        BY <1>1, <1>3, <1>5, <2>3, <3>3, <3>5, <4>1
    <3> QED
      BY <1>14, <3>2, <3>4, <3>5
  <2> QED
    BY <1>6, <2>2, <2>3
<1>12. RegionsInv'
  <2>1. \A l : FragmentOf(l)' = FragmentOf(l)
    BY <1>2 DEF FragmentOf, Extent
  <2> QED
    BY <1>2, <1>5, <1>7, <1>9, <1>10, <1>11, <2>1 DEF RegionsInv
<1>13. DumpInv'
  <2>1. pc' = "scan" /\ next' = 1 /\ dumps' = <<>>
    BY DEF Push, DumpInv
  <2>2. 1 .. (next' - 1) = {} /\ DOMAIN dumps' = {}
    BY <2>1
  <2> QED
    BY <2>1, <2>2 DEF DumpInv
<1> QED
  BY <1>4, <1>5, <1>12, <1>13

----------------------------------------------------------------------------
(* Where the scan may be, what it finds there. *)

LEMMA Where ==
    ASSUME TypeOK, Position
    PROVE  \E a \in 1 .. (Len(map) + 1), b \in Nat \ {0} :
              /\ at = <<a, b>> /\ at[1] = a /\ at[2] = b
              /\ \/ a = Len(map) + 1 /\ b = 1 /\ Done = Len(map)
                 \/ a \in 1 .. Len(map) /\ b = 1 /\ Done = a - 1
                 \/ a \in 1 .. Len(map) /\ b = 2 /\ a > 1 /\ Done = a - 1 /\ Len(map[a - 1].name) # 1
                 \/ /\ a \in 1 .. Len(map) /\ b > 3 /\ Done = a
                    /\ b <= 2 + Len(map[a].name) /\ Len(map[a].name) >= 2
<1>1. PICK a \in 1 .. (Len(map) + 1), b \in Nat \ {0} : at = <<a, b>>
  BY DEF TypeOK
<1>2. at[1] = a /\ at[2] = b /\ Len(map) \in Nat
  BY <1>1, Lines DEF TypeOK
<1>3. /\ a = Len(map) + 1 => b = 1
      /\ b # 3
      /\ b = 2 => a > 1 /\ Len(map[a - 1].name) # 1
      /\ a <= Len(map) => b <= 2 + Len(map[a].name)
  BY <1>2 DEF Position, TypeOK
<1>4. a = Len(map) + 1 \/ a \in 1 .. Len(map)
  BY <1>2
<1>5. Done = IF b <= 2 THEN a - 1 ELSE a
  BY <1>2 DEF Done
<1>6. CASE a = Len(map) + 1
  <2>1. b = 1 /\ Done = a - 1
    BY <1>3, <1>5, <1>6
  <2>2. Done = Len(map)
    BY <1>2, <1>6, <2>1
  <2> QED
    BY <1>1, <1>2, <1>6, <2>1, <2>2
<1>7. CASE a \in 1 .. Len(map) /\ b <= 2
  <2>1. (b = 1 \/ b = 2) /\ Done = a - 1
    BY <1>5, <1>7
  <2> QED
    BY <1>1, <1>2, <1>3, <1>7, <2>1
<1>8. CASE a \in 1 .. Len(map) /\ ~(b <= 2)
  <2>1. Done = a /\ b > 3 /\ a <= Len(map)
    BY <1>2, <1>3, <1>5, <1>8
  <2>2. b <= 2 + Len(map[a].name) /\ Len(map[a].name) \in Nat
    BY <1>3, <1>8, <2>1, Lines DEF TypeOK
  <2>3. Len(map[a].name) >= 2
    BY <2>1, <2>2
  <2> QED
    BY <1>1, <1>2, <1>8, <2>1, <2>2, <2>3
<1> QED
  BY <1>4, <1>6, <1>7, <1>8

LEMMA DoneRange ==
    ASSUME TypeOK, Position
    PROVE  Done \in 0 .. Len(map) /\ Len(map) \in Nat /\ DOMAIN map = 1 .. Len(map)
<1>1. Len(map) \in Nat /\ DOMAIN map = 1 .. Len(map)
  BY Lines DEF TypeOK
<1>2. \/ Done = Len(map)
      \/ \E a \in 1 .. Len(map) : Done \in {a - 1, a}
  BY Where
<1> QED
  BY <1>1, <1>2

LEMMA WordAt ==
    ASSUME map \in Maps, NEW a \in 1 .. (Len(map) + 1), NEW b \in Nat \ {0},
           a <= Len(map) => b <= 2 + Len(map[a].name)
    PROVE  /\ a = Len(map) + 1 => Word(<<a, b>>) = "eof"
           /\ a \in 1 .. Len(map) /\ b = 1 => Word(<<a, b>>) = "range"
           /\ a \in 1 .. Len(map) /\ b = 2 => Word(<<a, b>>) = "tail"
           /\ a \in 1 .. Len(map) /\ b > 2 => Word(<<a, b>>) \in Words
<1>1. Len(map) \in Nat
  BY Lines
<1>2. a = Len(map) + 1 => Word(<<a, b>>) = "eof"
  <2>1. a = Len(map) + 1 => a > Len(map)
    BY <1>1
  <2> QED
    BY <2>1 DEF Word
<1>3. a \in 1 .. Len(map) => ~(a > Len(map)) /\ a <= Len(map)
  BY <1>1
<1>4. a \in 1 .. Len(map) /\ b > 2 => Word(<<a, b>>) \in Words
  <2> SUFFICES ASSUME a \in 1 .. Len(map), b > 2 PROVE Word(<<a, b>>) \in Words
    OBVIOUS
  <2>1. map[a].name \in Seq(Words) /\ Len(map[a].name) \in Nat
    BY Lines
  <2>2. b - 2 \in 1 .. Len(map[a].name)
    BY <1>3, <2>1
  <2>3. map[a].name[b - 2] \in Words
    BY <2>1, <2>2
  <2>4. b # 1 /\ b # 2
    OBVIOUS
  <2> QED
    BY <1>3, <2>3, <2>4 DEF Word
<1> QED
  BY <1>2, <1>3, <1>4 DEF Word

(* A step of the scan that goes to a position where the scan may be. *)
LEMMA ScanStep ==
    ASSUME TypeOK, RegionsInv, DumpInv,
           NEW d \in Nat, NEW f \in 1 .. Len(map), Done = d,
           NEW region, NEW a, NEW b, Push(region, <<a, b>>),
           \/ d = f - 1 /\ region = Extent(map[f])
           \/ d = f /\ region = FragmentOf(f),
           \/ a = f + 1 /\ b = 1
           \/ a = f + 1 /\ a <= Len(map) /\ b = 2 /\ Len(map[f].name) # 1
           \/ a = f /\ b \in Nat /\ b > 3 /\ b <= 2 + Len(map[f].name)
    PROVE  IInv'
<1>1. at' = <<a, b>> /\ at'[1] = a /\ at'[2] = b /\ map' = map
  BY DEF Push
<1>2. /\ Len(map) \in Nat /\ f \in Nat /\ f + 1 # f
      /\ \A l \in 1 .. Len(map) : Len(map[l].name) \in Nat
  BY Lines DEF TypeOK
<1>3. Done' = f
  <2>1. Done' = IF b <= 2 THEN a - 1 ELSE a
    BY <1>1 DEF Done
  <2> QED
    BY <1>2, <2>1
<1>4. RegionsInv' /\ DumpInv' /\ region \in Region /\ regions' \in Seq(Region)
  BY <1>3, Pushed
<1>5. /\ a \in 1 .. (Len(map) + 1) /\ b \in Nat \ {0}
      /\ a <= Len(map) => b <= 2 + Len(map[a].name)
  <2>1. CASE a = f + 1 /\ b \in {1, 2}
    <3>1. a \in 1 .. (Len(map) + 1)
      BY <1>2, <2>1
    <3>2. a <= Len(map) => Len(map[a].name) \in Nat
      BY <1>2, <3>1
    <3> QED
      BY <2>1, <3>1, <3>2
  <2>2. CASE a = f /\ b \in Nat /\ b > 3 /\ b <= 2 + Len(map[f].name)
    BY <1>2, <2>2
  <2> QED
    BY <2>1, <2>2
<1>6. Position'
  <2>1. a = f + 1 => a - 1 = f /\ a > 1
    BY <1>2
  <2>2. a = f => a # Len(map) + 1
    BY <1>2
  <2>3. b # 3 /\ (b = 2 => a = f + 1 /\ Len(map[f].name) # 1)
    OBVIOUS
  <2>4. a = Len(map) + 1 => b = 1
    BY <1>2, <2>2
  <2> QED
    BY <1>1, <2>1, <2>3, <2>4 DEF Position
<1>7. TypeOK'
  <2>1. UNCHANGED <<map, pc, next, dumps, closed>> /\ scanned' = region
    BY DEF Push
  <2>2. Len(regions') = Len(regions) + 1 /\ Len(regions) \in Nat
    BY DEF Push, TypeOK
  <2>3. next' \in 1 .. (Len(regions') + 1)
    BY <2>1, <2>2 DEF TypeOK
  <2>4. at' \in (1 .. (Len(map) + 1)) \X (Nat \ {0})
    BY <1>1, <1>5
  <2> QED
    BY <1>1, <1>4, <1>5, <2>1, <2>3, <2>4 DEF TypeOK
<1> QED
  BY <1>4, <1>6, <1>7 DEF IInv

----------------------------------------------------------------------------
(* Every step preserves the invariant. *)

LEMMA InvInit == Init => IInv
<1> SUFFICES ASSUME Init PROVE IInv
  OBVIOUS
<1>1. /\ map \in Maps /\ at = <<1, 1>> /\ at[1] = 1 /\ at[2] = 1 /\ scanned = Garbage
      /\ regions = <<>> /\ pc = "scan" /\ next = 1 /\ dumps = <<>> /\ closed = FALSE
  BY DEF Init
<1>2. Done = 0
  BY <1>1 DEF Done
<1>3. 1 .. Done = {} /\ DOMAIN regions = {} /\ Len(regions) = 0 /\ 1 .. (next - 1) = {}
      /\ DOMAIN dumps = {} /\ Len(map) \in Nat
  BY <1>1, <1>2, Lines
<1>4. TypeOK
  <2>1. 1 <= Len(map) => 1 <= 2 + Len(map[1].name)
    <3>1. 1 <= Len(map) => Len(map[1].name) \in Nat
      BY <1>1, <1>3, Lines
    <3> QED
      BY <3>1
  <2>2. at \in (1 .. (Len(map) + 1)) \X (Nat \ {0})
    BY <1>1, <1>3
  <2>3. scanned \in Region
    BY <1>1 DEF Garbage, Region
  <2>4. next \in 1 .. (Len(regions) + 1)
    BY <1>1, <1>3
  <2>5. regions \in Seq(Region) /\ dumps \in Seq([addr : Nat, endaddr : Nat, size : Nat])
    BY <1>1
  <2>6. closed \in BOOLEAN /\ pc \in {"scan", "dump", "close", "exited", "crashed"}
    BY <1>1
  <2>7. at[1] <= Len(map) => at[2] <= 2 + Len(map[at[1]].name)
    BY <1>1, <2>1
  <2> QED
    BY <1>1, <2>2, <2>3, <2>4, <2>5, <2>6, <2>7 DEF TypeOK
<1>5. Position
  BY <1>1 DEF Position
<1>6. RegionsInv
  BY <1>2, <1>3 DEF RegionsInv
<1>7. DumpInv
  BY <1>1, <1>3 DEF DumpInv
<1> QED
  BY <1>4, <1>5, <1>6, <1>7 DEF IInv

LEMMA ScanRegionStep ==
    ASSUME IInv, ScanRegion
    PROVE  IInv'
<1> USE DEF IInv
<1>1. PICK a \in 1 .. (Len(map) + 1), b \in Nat \ {0} :
              /\ at = <<a, b>> /\ at[1] = a /\ at[2] = b
              /\ \/ a = Len(map) + 1 /\ b = 1 /\ Done = Len(map)
                 \/ a \in 1 .. Len(map) /\ b = 1 /\ Done = a - 1
                 \/ a \in 1 .. Len(map) /\ b = 2 /\ a > 1 /\ Done = a - 1 /\ Len(map[a - 1].name) # 1
                 \/ /\ a \in 1 .. Len(map) /\ b > 3 /\ Done = a
                    /\ b <= 2 + Len(map[a].name) /\ Len(map[a].name) >= 2
  BY Where
<1>2. map \in Maps /\ (a <= Len(map) => b <= 2 + Len(map[a].name)) /\ Word(<<a, b>>) = "range"
  BY <1>1 DEF TypeOK, ScanRegion
<1>3. a \in 1 .. Len(map) /\ b = 1 /\ Done = a - 1
  <2>1. a # Len(map) + 1
    BY <1>2, WordAt
  <2>2. ~(a \in 1 .. Len(map) /\ b = 2)
    BY <1>2, WordAt
  <2>3. ~(a \in 1 .. Len(map) /\ b > 2)
    BY <1>2, WordAt DEF Words
  <2> QED
    BY <1>1, <2>1, <2>2, <2>3
<1>4. Push(Extent(map[a]), After(After(After(<<a, 1>>))))
  BY <1>1, <1>3 DEF ScanRegion
<1>5. /\ a - 1 \in Nat /\ a - 1 = a - 1 /\ Len(map) \in Nat /\ Len(map[a].name) \in Nat
  BY <1>2, <1>3, Lines
<1> DEFINE n == Len(map[a].name)
<1> HIDE DEF n
<1>9. n \in Nat /\ n = Len(map[a].name)
  BY <1>5 DEF n
<1>10. n = 0 \/ n = 1 \/ n > 1
  <2>1. n \in Nat
    BY <1>9
  <2> QED
    BY <2>1
<1>6. CASE n = 0 /\ a # Len(map)
  <2>1. Push(Extent(map[a]), <<a + 1, 2>>)
    BY <1>2, <1>3, <1>4, <1>6, <1>9, PastLine
  <2>2. a + 1 <= Len(map) /\ n # 1
    BY <1>3, <1>5, <1>6
  <2> QED
    BY <1>3, <1>5, <1>9, <2>1, <2>2, ScanStep
<1>7. CASE (n = 0 /\ a = Len(map)) \/ n = 1
  <2>1. Push(Extent(map[a]), <<a + 1, 1>>)
    BY <1>2, <1>3, <1>4, <1>7, <1>9, PastLine
  <2> QED
    BY <1>3, <1>5, <2>1, ScanStep
<1>8. CASE n > 1
  <2> HIDE DEF n
  <2>4. n \in Nat
    BY <1>9
  <2>1. n # 0 /\ n # 1 /\ 4 <= 2 + n
    BY <1>8, <2>4
  <2>2. Push(Extent(map[a]), <<a, 4>>)
    BY <1>2, <1>3, <1>4, <1>9, <2>1, PastLine
  <2>3. 4 <= 2 + Len(map[a].name) /\ 4 \in Nat /\ 4 > 3 /\ a \in 1 .. Len(map) /\ a - 1 \in Nat
    BY <1>3, <1>5, <1>9, <2>1
  <2>5. IInv /\ Done = a - 1
    BY <1>3
  <2> QED
    BY <2>2, <2>3, <2>5, ScanStep
<1> QED
  BY <1>6, <1>7, <1>8, <1>10

LEMMA ScanFragmentStep ==
    ASSUME IInv, ScanFragment
    PROVE  IInv'
<1> USE DEF IInv
<1>1. PICK a \in 1 .. (Len(map) + 1), b \in Nat \ {0} :
              /\ at = <<a, b>> /\ at[1] = a /\ at[2] = b
              /\ \/ a = Len(map) + 1 /\ b = 1 /\ Done = Len(map)
                 \/ a \in 1 .. Len(map) /\ b = 1 /\ Done = a - 1
                 \/ a \in 1 .. Len(map) /\ b = 2 /\ a > 1 /\ Done = a - 1 /\ Len(map[a - 1].name) # 1
                 \/ /\ a \in 1 .. Len(map) /\ b > 3 /\ Done = a
                    /\ b <= 2 + Len(map[a].name) /\ Len(map[a].name) >= 2
  BY Where
<1>2. /\ map \in Maps /\ (a <= Len(map) => b <= 2 + Len(map[a].name))
      /\ Word(<<a, b>>) \in {"mixed", "number"}
  BY <1>1 DEF TypeOK, ScanFragment
<1>3. /\ a \in 1 .. Len(map) /\ b > 3 /\ Done = a
      /\ b <= 2 + Len(map[a].name) /\ Len(map[a].name) >= 2
  <2>1. a # Len(map) + 1
    BY <1>2, WordAt
  <2>2. ~(a \in 1 .. Len(map) /\ b = 2)
    BY <1>2, WordAt
  <2>3. ~(a \in 1 .. Len(map) /\ b = 1)
    BY <1>2, WordAt
  <2> QED
    BY <1>1, <2>1, <2>2, <2>3
<1>4. a \in Nat /\ a > 0 /\ Len(map) \in Nat /\ Len(map[a].name) \in Nat /\ ~(a > Len(map))
      /\ a \in 1 .. Len(map)
  BY <1>2, <1>3, Lines
<1>12. Len(map[a].name) # 1
  <2> DEFINE n == Len(map[a].name)
  <2> HIDE DEF n
  <2>1. n \in Nat /\ n >= 2
    BY <1>3, <1>4 DEF n
  <2>2. n # 1
    BY <2>1
  <2> QED
    BY <2>2 DEF n
<1>5. [scanned EXCEPT !.addr = Fragment] = FragmentOf(a)
  BY <1>3, <1>4 DEF RegionsInv
<1>6. \/ Push(FragmentOf(a), After(<<a, b>>))
      \/ Word(After(<<a, b>>)) # "eof" /\ Push(FragmentOf(a), After(After(<<a, b>>)))
  BY <1>1, <1>5 DEF ScanFragment
<1>7. After(<<a, b>>) = IF b < 2 + Len(map[a].name) THEN <<a, b + 1>> ELSE <<a + 1, 1>>
  BY <1>4, OneOn
<1>8. ASSUME NEW c \in Nat, Push(FragmentOf(a), <<a, c>>), c > 3, c <= 2 + Len(map[a].name)
      PROVE  IInv'
  BY <1>3, <1>4, <1>8, ScanStep
<1>9. ASSUME Push(FragmentOf(a), <<a + 1, 1>>)
      PROVE  IInv'
  BY <1>3, <1>4, <1>9, ScanStep
<1>10. CASE Push(FragmentOf(a), After(<<a, b>>))
  <2>1. CASE b < 2 + Len(map[a].name)
    <3>1. b + 1 \in Nat /\ b + 1 > 3 /\ b + 1 <= 2 + Len(map[a].name)
      BY <1>3, <1>4, <2>1
    <3> QED
      BY <1>7, <1>8, <1>10, <2>1, <3>1
  <2>2. CASE ~(b < 2 + Len(map[a].name))
    BY <1>7, <1>9, <1>10, <2>2
  <2> QED
    BY <2>1, <2>2
<1>11. CASE Word(After(<<a, b>>)) # "eof" /\ Push(FragmentOf(a), After(After(<<a, b>>)))
  <2>1. CASE b < 2 + Len(map[a].name)
    <3>1. After(<<a, b + 1>>) = IF b + 1 < 2 + Len(map[a].name) THEN <<a, (b + 1) + 1>> ELSE <<a + 1, 1>>
      BY <1>4, OneOn
    <3>2. CASE b + 1 < 2 + Len(map[a].name)
      <4>1. (b + 1) + 1 \in Nat /\ (b + 1) + 1 > 3 /\ (b + 1) + 1 <= 2 + Len(map[a].name)
        BY <1>3, <1>4, <3>2
      <4> QED
        BY <1>7, <1>8, <1>11, <2>1, <3>1, <3>2, <4>1
    <3>3. CASE ~(b + 1 < 2 + Len(map[a].name))
      BY <1>7, <1>9, <1>11, <2>1, <3>1, <3>3
    <3> QED
      BY <3>2, <3>3
  <2>2. CASE ~(b < 2 + Len(map[a].name))
    <3>1. Word(<<a + 1, 1>>) # "eof" /\ Push(FragmentOf(a), After(<<a + 1, 1>>))
      BY <1>7, <1>11, <2>2
    <3>2. a # Len(map)
      <4> SUFFICES ASSUME a = Len(map) PROVE Word(<<a + 1, 1>>) = "eof"
        BY <3>1
      <4>1. a + 1 > Len(map)
        BY <1>4
      <4> QED
        BY <4>1 DEF Word
    <3>3. a + 1 \in 1 .. Len(map) /\ ~(a + 1 > Len(map)) /\ a + 1 <= Len(map)
      BY <1>4, <3>2
    <3>4. After(<<a + 1, 1>>) = <<a + 1, 2>>
      <4>1. Len(map[a + 1].name) \in Nat
        BY <1>2, <3>3, Lines
      <4>2. 1 < 2 + Len(map[a + 1].name) /\ 1 + 1 = 2
        BY <4>1
      <4> QED
        BY <3>3, <4>2, OneOn
    <3>5. Push(FragmentOf(a), <<a + 1, 2>>)
      BY <3>1, <3>4
    <3>6. Len(map[a].name) # 1
      BY <1>12
    <3> QED
      BY <1>3, <1>4, <3>3, <3>5, <3>6, ScanStep
  <2> QED
    BY <2>1, <2>2
<1> QED
  BY <1>6, <1>10, <1>11

LEMMA StopScanStep ==
    ASSUME IInv, StopScan
    PROVE  IInv'
<1> USE DEF IInv
<1>1. PICK a \in 1 .. (Len(map) + 1), b \in Nat \ {0} :
              /\ at = <<a, b>> /\ at[1] = a /\ at[2] = b
              /\ \/ a = Len(map) + 1 /\ b = 1 /\ Done = Len(map)
                 \/ a \in 1 .. Len(map) /\ b = 1 /\ Done = a - 1
                 \/ a \in 1 .. Len(map) /\ b = 2 /\ a > 1 /\ Done = a - 1 /\ Len(map[a - 1].name) # 1
                 \/ /\ a \in 1 .. Len(map) /\ b > 3 /\ Done = a
                    /\ b <= 2 + Len(map[a].name) /\ Len(map[a].name) >= 2
  BY Where
<1>2. /\ pc = "scan" /\ pc' = "dump" /\ UNCHANGED <<map, at, scanned, regions, next, dumps, closed>>
      /\ Word(<<a, b>>) # "range"
  BY <1>1 DEF StopScan
<1>3. map \in Maps /\ (a <= Len(map) => b <= 2 + Len(map[a].name)) /\ Len(map) \in Nat
      /\ DOMAIN map = 1 .. Len(map)
  BY <1>1, Lines DEF TypeOK
<1>4. ~(a \in 1 .. Len(map) /\ b = 1)
  BY <1>2, <1>3, WordAt
<1>5. ASSUME NEW l \in DOMAIN map PROVE l <= Done \/ ~Reachable(l)
  <2>1. CASE Done = Len(map)
    BY <1>3, <2>1
  <2>2. CASE a \in 1 .. Len(map) /\ a > 1 /\ Done = a - 1 /\ Len(map[a - 1].name) # 1
    <3>1. l <= a - 1 \/ a - 1 \in 1 .. (l - 1)
      BY <1>3, <2>2
    <3> QED
      BY <2>2, <3>1 DEF Reachable
  <2>3. CASE a \in 1 .. Len(map) /\ Done = a /\ Len(map[a].name) >= 2
    <3>1. l <= a \/ a \in 1 .. (l - 1)
      BY <1>3, <2>3
    <3>2. Len(map[a].name) # 1
      <4> DEFINE n == Len(map[a].name)
      <4> HIDE DEF n
      <4>1. n >= 2
        BY <2>3 DEF n
      <4>2. n # 1
        BY <4>1
      <4> QED
        BY <4>2 DEF n
    <3> QED
      BY <2>3, <3>1, <3>2 DEF Reachable
  <2> QED
    BY <1>1, <1>4, <2>1, <2>2, <2>3
<1>6. Done' = Done /\ (Opened' <=> Opened) /\ \A l : Reachable(l)' <=> Reachable(l)
  BY <1>2 DEF Done, Opened, Reachable
<1>7. TypeOK' /\ Position' /\ RegionsInv'
  <2>1. TypeOK'
    BY <1>2 DEF TypeOK
  <2>2. Position'
    BY <1>2, <1>6 DEF Position
  <2>3. RegionsInv'
    BY <1>2, <1>6 DEF RegionsInv, IsRead, FragmentOf, Extent
  <2> QED
    BY <2>1, <2>2, <2>3
<1>8. DumpInv'
  BY <1>2, <1>5, <1>6 DEF DumpInv
<1> QED
  BY <1>7, <1>8

(* A region ends with a line, a dump with its region. *)
LEMMA DumpType ==
    ASSUME TypeOK, RegionsInv, Done \in 0 .. Len(map), NEW i \in DOMAIN regions
    PROVE  /\ regions[i] \in Region
           /\ CanDump(regions[i]) =>
                 MemoryDump(regions[i]) \in [addr : Nat, endaddr : Nat, size : Nat]
           /\ \E l \in 1 .. Done : /\ l \in 1 .. Len(map)
                                   /\ regions[i].addr \in {map[l].addr, Fragment}
                                   /\ regions[i].endaddr = map[l].endaddr
                                   /\ regions[i].writable = map[l].writable
           /\ MemoryDump(regions[i]).addr = regions[i].addr
           /\ MemoryDump(regions[i]).addr + MemoryDump(regions[i]).size = regions[i].endaddr
<1>1. PICK l \in 1 .. Done : regions[i] \in {Extent(map[l]), FragmentOf(l)}
  BY DEF RegionsInv
<1>2. l \in 1 .. Len(map)
  <2>1. Len(map) \in Nat
    BY Lines DEF TypeOK
  <2> QED
    BY <2>1
<1>3. /\ map[l].addr \in Nat /\ map[l].endaddr \in Nat /\ map[l].writable \in BOOLEAN
      /\ Fragment \in Nat
  BY <1>2, Lines DEF TypeOK
<1>4. /\ Extent(map[l]).addr = map[l].addr /\ FragmentOf(l).addr = Fragment
      /\ Extent(map[l]).endaddr = map[l].endaddr /\ FragmentOf(l).endaddr = map[l].endaddr
      /\ Extent(map[l]).writable = map[l].writable /\ FragmentOf(l).writable = map[l].writable
  BY DEF Extent, FragmentOf
<1>5. /\ regions[i].addr \in {map[l].addr, Fragment} /\ regions[i].endaddr = map[l].endaddr
      /\ regions[i].writable = map[l].writable
  BY <1>1, <1>4
<1>6. regions[i] \in Region
  <2> HIDE DEF Region
  <2> QED
    BY DEF TypeOK
<1>7. regions[i].addr \in Nat /\ regions[i].endaddr \in Nat
  BY <1>3, <1>5
<1>8. /\ MemoryDump(regions[i]).addr = regions[i].addr
      /\ MemoryDump(regions[i]).size = regions[i].endaddr - regions[i].addr
      /\ CanDump(regions[i]) => MemoryDump(regions[i]) \in [addr : Nat, endaddr : Nat, size : Nat]
  BY <1>7, MapAssumption DEF MemoryDump, Size, CanDump
<1>9. MemoryDump(regions[i]).addr + MemoryDump(regions[i]).size = regions[i].endaddr
  BY <1>7, <1>8
<1> QED
  BY <1>2, <1>5, <1>6, <1>8, <1>9
LEMMA DumpStep ==
    ASSUME IInv, DumpRegion
    PROVE  IInv'
<1> USE DEF IInv
<1> DEFINE n == Len(regions)
           r == regions[next]
<1>1. /\ pc = "dump" /\ next' = next + 1 /\ next <= n
      /\ UNCHANGED <<map, at, scanned, regions, pc, closed>>
      /\ dumps' = IF r.writable THEN Append(dumps, MemoryDump(r)) ELSE dumps
      /\ r.writable => CanDump(r)
  BY DEF DumpRegion
<1>2. n \in Nat /\ DOMAIN regions = 1 .. n /\ next \in 1 .. (n + 1)
  BY DEF TypeOK
<1> HIDE DEF n
<1>3. /\ next \in 1 .. n /\ next + 1 \in 1 .. (n + 1)
      /\ (next + 1) - 1 = next /\ \A i \in 1 .. next : i \in 1 .. (next - 1) \/ i = next
      /\ 1 .. next \subseteq DOMAIN regions
  BY <1>1, <1>2
<1>4. Done \in 0 .. Len(map)
  BY DoneRange
<1>5. r.writable => MemoryDump(r) \in [addr : Nat, endaddr : Nat, size : Nat]
  BY <1>1, <1>2, <1>3, <1>4, DumpType
<1> DEFINE m == Len(dumps)
           e == MemoryDump(r)
<1>6. m \in Nat /\ DOMAIN dumps = 1 .. m
  BY DEF TypeOK
<1>7. /\ dumps' \in Seq([addr : Nat, endaddr : Nat, size : Nat])
      /\ r.writable => /\ DOMAIN dumps' = 1 .. (m + 1) /\ dumps'[m + 1] = e
                       /\ \A d \in 1 .. m : dumps'[d] = dumps[d]
      /\ ~r.writable => dumps' = dumps
  <2> DEFINE T == [addr : Nat, endaddr : Nat, size : Nat]
  <2>1. (r.writable => e \in T) /\ dumps \in Seq(T)
    BY <1>5 DEF TypeOK
  <2> HIDE DEF e, T, r
  <2>2. CASE r.writable
    <3>1. dumps' = Append(dumps, e)
      BY <1>1, <2>2 DEF e
    <3> QED
      BY <2>1, <2>2, <3>1 DEF T
  <2>3. CASE ~r.writable
    BY <1>1, <2>1, <2>3 DEF T
  <2> QED
    BY <2>2, <2>3
<1> HIDE DEF m
<1>8. \A i \in DOMAIN regions : regions'[i] = regions[i] /\ MemoryDump(regions[i]) = MemoryDump(regions'[i])
  BY <1>1
<1>9. DumpInv'
  <2>1. ASSUME NEW i \in 1 .. next, regions[i].writable
        PROVE  \E d \in DOMAIN dumps' : dumps'[d] = MemoryDump(regions[i])
    <3>1. CASE i = next
      <4>1. m + 1 \in 1 .. (m + 1)
        BY <1>6
      <4> QED
        BY <1>7, <2>1, <3>1, <4>1
    <3>2. CASE i \in 1 .. (next - 1)
      <4>1. PICK d \in DOMAIN dumps : dumps[d] = MemoryDump(regions[i])
        BY <2>1, <3>2 DEF DumpInv
      <4>2. d \in 1 .. (m + 1)
        BY <1>6
      <4> QED
        BY <1>6, <1>7, <4>1, <4>2
    <3> QED
      BY <1>3, <3>1, <3>2
  <2>2. ASSUME NEW d \in DOMAIN dumps'
        PROVE  \E i \in DOMAIN regions : regions[i].writable /\ dumps'[d] = MemoryDump(regions[i])
    <3>1. CASE r.writable
      <4>1. CASE d = m + 1
        BY <1>2, <1>3, <1>7, <3>1, <4>1
      <4>2. CASE d \in 1 .. m
        <5>1. \E i \in DOMAIN regions : regions[i].writable /\ dumps[d] = MemoryDump(regions[i])
          BY <1>6, <4>2 DEF DumpInv
        <5> QED
          BY <1>7, <3>1, <4>2, <5>1
      <4> QED
        BY <1>6, <1>7, <2>2, <3>1, <4>1, <4>2
    <3>2. CASE ~r.writable
      BY <1>7, <2>2, <3>2 DEF DumpInv
    <3> QED
      BY <3>1, <3>2
  <2>3. pc' = "dump" /\ regions' = regions /\ next' - 1 = next
    BY <1>1, <1>3
  <2>4. Done' = Done /\ (Opened' <=> Opened) /\ (\A l : Reachable(l)' <=> Reachable(l)) /\ map' = map
    BY <1>1 DEF Done, Opened, Reachable
  <2>5. Opened => \A l \in DOMAIN map : l <= Done \/ ~Reachable(l)
    BY <1>1 DEF DumpInv
  <2> QED
    BY <2>1, <2>2, <2>3, <2>4, <2>5 DEF DumpInv
<1>10. Done' = Done /\ Position' /\ RegionsInv'
  BY <1>1 DEF Done, Position, RegionsInv, IsRead, FragmentOf, Extent
<1>11. TypeOK'
  <2>1. next' \in 1 .. (Len(regions') + 1)
    BY <1>1, <1>3 DEF n
  <2> QED
    BY <1>1, <1>7, <2>1 DEF TypeOK
<1> QED
  BY <1>9, <1>10, <1>11

LEMMA InvStep == IInv /\ [Next]_vars => IInv'
<1> SUFFICES ASSUME IInv, [Next]_vars PROVE IInv'
  OBVIOUS
<1>1. CASE OpenFails \/ DumpFails \/ DumpEnds \/ CloseLog
  <2>1. UNCHANGED <<map, at, scanned, regions, next, dumps>>
    BY <1>1 DEF OpenFails, DumpFails, DumpEnds, CloseLog
  <2>2. Done' = Done /\ (Opened' <=> Opened) /\ \A l : Reachable(l)' <=> Reachable(l)
    BY <2>1 DEF Done, Opened, Reachable
  <2>3. Position' /\ RegionsInv'
    BY <2>1, <2>2 DEF IInv, Position, RegionsInv, IsRead, FragmentOf, Extent
  <2>4. pc' \in {"close", "exited", "crashed"} /\ closed' \in BOOLEAN
    BY <1>1 DEF OpenFails, DumpFails, DumpEnds, CloseLog, IInv, TypeOK
  <2>5. TypeOK'
    BY <2>1, <2>4 DEF IInv, TypeOK
  <2>6. /\ pc' # "scan"
        /\ Opened => pc # "scan"
        /\ pc' \in {"close", "exited"} /\ Opened => next = Len(regions) + 1
    <3>1. CASE OpenFails
      BY <3>1 DEF OpenFails, Opened
    <3>2. CASE DumpFails \/ CloseLog
      BY <3>2 DEF DumpFails, CloseLog, IInv, DumpInv
    <3>3. CASE DumpEnds
      <4>1. next \in 1 .. (Len(regions) + 1) /\ Len(regions) \in Nat
        BY DEF IInv, TypeOK
      <4> QED
        BY <3>3, <4>1 DEF DumpEnds
    <3> QED
      BY <1>1, <3>1, <3>2, <3>3
  <2>7. DumpInv'
    BY <2>1, <2>2, <2>6 DEF IInv, DumpInv
  <2> QED
    BY <2>3, <2>5, <2>7 DEF IInv
<1>2. CASE Over \/ UNCHANGED vars
  <2>1. UNCHANGED vars
    BY <1>2 DEF Over
  <2>2. UNCHANGED <<map, at, scanned, regions, pc, next, dumps, closed>>
    BY <2>1 DEF vars
  <2>3. Done' = Done /\ (Opened' <=> Opened) /\ \A l : Reachable(l)' <=> Reachable(l)
    BY <2>2 DEF Done, Opened, Reachable
  <2>4. TypeOK' /\ Position'
    BY <2>2 DEF IInv, TypeOK, Position
  <2>5. RegionsInv'
    BY <2>2, <2>3 DEF IInv, RegionsInv, IsRead, FragmentOf, Extent
  <2>6. DumpInv'
    BY <2>2, <2>3 DEF IInv, DumpInv
  <2> QED
    BY <2>4, <2>5, <2>6 DEF IInv
<1> QED
  BY <1>1, <1>2, ScanRegionStep, ScanFragmentStep, StopScanStep, DumpStep DEF Next, Finish

LEMMA Invariant == Spec => []IInv
BY InvInit, InvStep, PTL DEF Spec

(* Every variable keeps its type, whatever the map.                        *)
THEOREM TypeCorrect == Spec => []TypeOK
<1>1. IInv => TypeOK
  BY DEF IInv
<1> QED
  BY <1>1, Invariant, PTL

(* The regions read are a prefix of the map's, in its order, and fragments *)
(* of names, whatever names the lines have.                                *)
THEOREM PrefixIsRead == Spec => []ReadsAPrefix
<1>1. IInv => ReadsAPrefix
  <2> SUFFICES ASSUME IInv PROVE ReadsAPrefix
    OBVIOUS
  <2> USE DEF IInv
  <2>1. Done \in 0 .. Len(map) /\ Len(map) \in Nat /\ DOMAIN map = 1 .. Len(map)
    BY DoneRange
  <2>2. ASSUME NEW l \in DOMAIN map, IsRead(l) PROVE l \in 1 .. Done
    <3>1. PICK i \in DOMAIN regions : regions[i] = Extent(map[l])
      BY <2>2 DEF IsRead
    <3>2. PICK k \in 1 .. Done : regions[i] \in {Extent(map[k]), FragmentOf(k)}
      BY DEF RegionsInv
    <3>3. k \in 1 .. Len(map)
      BY <2>1
    <3>4. /\ Extent(map[l]).endaddr = map[l].endaddr
          /\ Extent(map[k]).endaddr = map[k].endaddr /\ FragmentOf(k).endaddr = map[k].endaddr
      BY DEF Extent, FragmentOf
    <3>5. map[l].endaddr = map[k].endaddr
      BY <3>1, <3>2, <3>4
    <3>6. /\ map[l].endaddr \in Nat /\ map[k].endaddr \in Nat
          /\ l < k => map[l].endaddr < map[k].endaddr
          /\ k < l => map[k].endaddr < map[l].endaddr
      BY <2>1, <2>2, <3>3, Lines DEF TypeOK
    <3>7. ~(l < k) /\ ~(k < l)
      BY <3>5, <3>6
    <3>8. l = k
      BY <2>1, <2>2, <3>3, <3>7
    <3> QED
      BY <3>8
  <2>3. \A l \in DOMAIN map : IsRead(l) => \A k \in 1 .. (l - 1) : IsRead(k)
    <3> SUFFICES ASSUME NEW l \in DOMAIN map, IsRead(l), NEW k \in 1 .. (l - 1) PROVE IsRead(k)
      OBVIOUS
    <3>1. l \in 1 .. Done
      BY <2>2
    <3>2. k \in 1 .. Done
      BY <2>1, <3>1
    <3> QED
      BY <3>2 DEF RegionsInv
  <2>4. ASSUME NEW i \in DOMAIN regions
        PROVE  \/ \E l \in DOMAIN map : regions[i] = Extent(map[l])
               \/ \E l \in DOMAIN map : /\ IsRead(l)
                                        /\ regions[i] = [Extent(map[l]) EXCEPT !.addr = Fragment]
    <3>1. PICK k \in 1 .. Done : regions[i] \in {Extent(map[k]), FragmentOf(k)}
      BY DEF RegionsInv
    <3>2. k \in DOMAIN map /\ IsRead(k)
      BY <2>1 DEF RegionsInv
    <3> QED
      BY <3>1, <3>2 DEF FragmentOf
  <2>5. \A i, j \in DOMAIN regions :
          i < j => \/ regions[i].endaddr < regions[j].endaddr
                   \/ /\ regions[i].endaddr = regions[j].endaddr
                      /\ regions[j].addr = Fragment
    BY DEF RegionsInv
  <2> QED
    BY <2>3, <2>4, <2>5 DEF ReadsAPrefix
<1> QED
  BY <1>1, Invariant, PTL

(* A trace of a process that has exited has the whole of every writable    *)
(* region behind names of one word only, and nothing but dumps of writable *)
(* memory, for any map.                                                    *)
THEOREM ReachableIsDumped == Spec => []WritableIsDumped
<1>1. IInv => WritableIsDumped
  <2> SUFFICES ASSUME IInv, pc = "exited", Opened PROVE WritableIsDumped
    BY DEF WritableIsDumped
  <2> USE DEF IInv
  <2>1. /\ Done \in 0 .. Len(map) /\ Len(map) \in Nat /\ DOMAIN map = 1 .. Len(map)
        /\ Len(regions) \in Nat /\ DOMAIN regions = 1 .. Len(regions)
        /\ next = Len(regions) + 1
    BY DoneRange DEF TypeOK, DumpInv
  <2>2. ASSUME NEW l \in DOMAIN map, map[l].writable, Reachable(l)
        PROVE  \E d \in DOMAIN dumps : /\ dumps[d].addr = map[l].addr
                                       /\ dumps[d].addr + dumps[d].size = map[l].endaddr
    <3>1. l <= Done
      BY <2>2 DEF DumpInv
    <3>2. l \in 1 .. Done
      BY <2>1, <3>1
    <3>3. PICK i \in DOMAIN regions : regions[i] = Extent(map[l])
      BY <3>2 DEF RegionsInv, IsRead
    <3>4. regions[i].writable /\ regions[i].addr = map[l].addr /\ regions[i].endaddr = map[l].endaddr
      BY <2>2, <3>3 DEF Extent
    <3>5. i \in 1 .. (next - 1)
      BY <2>1
    <3>6. PICK d \in DOMAIN dumps : dumps[d] = MemoryDump(regions[i])
      BY <3>4, <3>5 DEF DumpInv
    <3> QED
      BY <2>1, <3>4, <3>6, DumpType
  <2>3. ASSUME NEW d \in DOMAIN dumps
        PROVE  \E l \in DOMAIN map : /\ map[l].writable
                                     /\ dumps[d].addr \in {map[l].addr, Fragment}
                                     /\ dumps[d].addr + dumps[d].size = map[l].endaddr
    <3>1. PICK i \in DOMAIN regions : regions[i].writable /\ dumps[d] = MemoryDump(regions[i])
      BY DEF DumpInv
    <3>2. PICK l \in 1 .. Len(map) : /\ regions[i].addr \in {map[l].addr, Fragment}
                                     /\ regions[i].endaddr = map[l].endaddr
                                     /\ regions[i].writable = map[l].writable
      BY <2>1, DumpType
    <3>3. /\ MemoryDump(regions[i]).addr = regions[i].addr
          /\ MemoryDump(regions[i]).addr + MemoryDump(regions[i]).size = regions[i].endaddr
      BY <2>1, DumpType
    <3> QED
      BY <3>1, <3>2, <3>3
  <2> QED
    BY <2>2, <2>3 DEF WritableIsDumped
<1> QED
  BY <1>1, Invariant, PTL
==============================================================================
