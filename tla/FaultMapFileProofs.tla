------------------------- MODULE FaultMapFileProofs -------------------------
(***************************************************************************)
(* Theorems of FaultMapFile, for every pair of configurations, every fault *)
(* map and every prefix of the file.                                       *)
(***************************************************************************)
EXTENDS FaultMapFile, Arithmetic

-----------------------------------------------------------------------------
(* The loops visit no coordinate twice. *)

(* Two turns of the loops of Write, or of Read, never meet the same struct. *)
LEMMA NoCoordinateTwice ==
  ASSUME NEW c \in Configs, NEW n \in Nat, NEW m \in Nat,
         n < Turns(c), Coordinate(c, n) = Coordinate(c, m)
  PROVE  n = m
<1> DEFINE s == PlaneSize(c)
<1>1. c.planes \in Nat \ {0} /\ c.channels \in Nat \ {0} /\ c.BL \in Nat \ {0}
      /\ c.columns \in Nat \ {0}
  BY ConfigAssumption DEF Byte
<1>2. ActualColumns(c) \in Nat \ {0} /\ s \in Nat \ {0}
  <2>1. ActualColumns(c) \in Nat
    BY <1>1, Division DEF ActualColumns
  <2>2. ActualColumns(c) # 0
    <3> SUFFICES ASSUME ActualColumns(c) = 0 PROVE FALSE
      OBVIOUS
    <3>1. Turns(c) = 0
      BY <1>1 DEF Turns, PlaneSize
    <3> QED BY <3>1
  <2> QED BY <1>1, <2>1, <2>2 DEF PlaneSize
<1>3. /\ n \div (c.planes * s) = m \div (c.planes * s)
      /\ (n \div s) % c.planes = (m \div s) % c.planes
      /\ (n % s) \div c.BL = (m % s) \div c.BL
      /\ n % c.BL = m % c.BL
  BY DEF Coordinate
<1>4. \A k \in Nat : k = s * (c.planes * (k \div (c.planes * s)) + ((k \div s) % c.planes))
                          + (c.BL * ((k % s) \div c.BL) + (k % c.BL))
  <2> TAKE k \in Nat
  <2>1. k = s * (k \div s) + (k % s) /\ k \div s \in Nat /\ k % s \in Nat
    <3> HIDE DEF s
    <3>1. k = s * (k \div s) + (k % s) /\ k \div s \in Nat /\ k % s \in 0 .. s - 1
      BY <1>2, Division
    <3> QED BY <3>1, <1>2
  <2>2. k \div s = c.planes * ((k \div s) \div c.planes) + ((k \div s) % c.planes)
    BY <2>1, <1>1, Division
  <2>3. (k \div s) \div c.planes = k \div (c.planes * s)
    BY <1>1, <1>2, NestedDivision
  <2>4. k % s = c.BL * ((k % s) \div c.BL) + ((k % s) % c.BL)
    BY <2>1, <1>1, Division
  <2>5. (k % s) % c.BL = k % c.BL
    BY <1>1, <1>2, NestedRemainder DEF PlaneSize
  <2> HIDE DEF s
  <2> QED BY ONLY <2>1, <2>2, <2>3, <2>4, <2>5
<1> HIDE DEF s
<1> QED BY <1>3, <1>4, Zenon

(* Every turn of the loops has its struct. *)
LEMMA TurnHasCoordinate ==
  ASSUME NEW c \in Configs, NEW n \in Nat, n < Turns(c)
  PROVE  Coordinate(c, n) \in Coordinates(c)
<1> DEFINE s == PlaneSize(c)
<1>1. c.planes \in Nat \ {0} /\ c.channels \in Nat \ {0} /\ c.BL \in Nat \ {0}
      /\ c.columns \in Nat \ {0}
  BY ConfigAssumption DEF Byte
<1>2. ActualColumns(c) \in Nat \ {0} /\ s \in Nat \ {0}
  <2>1. ActualColumns(c) \in Nat
    BY <1>1, Division DEF ActualColumns
  <2>2. ActualColumns(c) # 0
    <3> SUFFICES ASSUME ActualColumns(c) = 0 PROVE FALSE
      OBVIOUS
    <3>1. Turns(c) = 0
      BY <1>1 DEF Turns, PlaneSize
    <3> QED BY <3>1
  <2> QED BY <1>1, <2>1, <2>2 DEF PlaneSize
<1> HIDE DEF s
<1>4. n \div (c.planes * s) \in 0 .. c.channels - 1
  <2>1. c.planes * s \in Nat \ {0}
    BY <1>1, <1>2
  <2>2. n < c.channels * (c.planes * s)
    BY <1>1, <1>2 DEF Turns, s
  <2> QED BY <1>1, QuotientBelow, <2>1, <2>2
<1>5. (n \div s) % c.planes \in 0 .. c.planes - 1
  BY <1>1, <1>2, Division
<1>6. (n % s) \div c.BL \in 0 .. ActualColumns(c) - 1
  <2>1. n % s \in 0 .. s - 1
    BY <1>2, Division
  <2>2. n % s \in Nat /\ n % s < ActualColumns(c) * c.BL
    BY <2>1, <1>2 DEF s, PlaneSize
  <2> QED BY <1>1, <1>2, QuotientBelow, <2>2
<1>7. n % c.BL \in 0 .. c.BL - 1
  BY <1>1, Division
<1> QED BY <1>4, <1>5, <1>6, <1>7 DEF Coordinate, Coordinates, s

-----------------------------------------------------------------------------
(* What goes into the file is bytes. *)

(* What Write puts down for a vector are entries. *)
LEMMA EntriesAreEntries ==
  ASSUME NEW fs \in FaultStruct, NEW ch \in Nat
  PROVE  IndexedEntries(fs, ch) \subseteq VrtEntry
<1>1. fs.vrt \in Seq(VrtEntry)
  BY DEF FaultStruct
<1>2. ch < Len(fs.vrt) => fs.vrt[ch + 1] \in VrtEntry
  BY <1>1
<1>3. [bit |-> 0, prob |-> <<0, 0>>] \in VrtEntry
  BY DEF VrtEntry, Byte, Byte2
<1> QED
  BY <1>2, <1>3, DiskAssumption DEF IndexedEntries

(* A stored column is a sequence of bytes. *)
LEMMA StructIsBytes ==
  ASSUME NEW fs \in FaultStruct, NEW e \in VrtEntry
  PROVE  StructBytes(fs, e) \in Seq(Byte)
<1>1. fs.hardfault \in Seq(Byte) /\ fs.vrt_size \in Byte /\ fs.vrt_size \in Nat
  <2>1. fs.hardfault \in Byte \X Byte /\ fs.vrt_size \in Byte
    BY DEF FaultStruct, Byte2
  <2>2. PICK x \in Byte, y \in Byte : fs.hardfault = <<x, y>>
    BY <2>1
  <2>3. <<x, y>> \in Seq(Byte)
    OBVIOUS
  <2> QED BY <2>1, <2>2, <2>3 DEF Byte
<1>2. \A k \in 1 .. 3 * fs.vrt_size : EntryBytes(e)[1 + ((k - 1) % 3)] \in Byte
  <2> TAKE k \in 1 .. 3 * fs.vrt_size
  <2>1. e.bit \in Byte /\ e.prob[1] \in Byte /\ e.prob[2] \in Byte
    BY DEF VrtEntry, Byte2
  <2>2. (k - 1) % 3 \in 0 .. 2
    BY <1>1
  <2>3. 1 + ((k - 1) % 3) \in {1, 2, 3}
    BY <2>2
  <2>4. EntryBytes(e)[1] \in Byte /\ EntryBytes(e)[2] \in Byte /\ EntryBytes(e)[3] \in Byte
    BY <2>1 DEF EntryBytes
  <2> QED BY <2>3, <2>4
<1>3. [k \in 1 .. 3 * fs.vrt_size |-> EntryBytes(e)[1 + ((k - 1) % 3)]] \in Seq(Byte)
  BY <1>1, <1>2
<1>4. <<fs.vrt_size>> \in Seq(Byte)
  BY <1>1
<1> QED BY <1>1, <1>3, <1>4 DEF StructBytes

(* So is whatever a kill leaves of a file. *)
LEMMA PrefixIsBytes ==
  ASSUME NEW w \in Seq(Byte)
  PROVE  Prefixes(w) \subseteq Seq(Byte)
BY DEF Prefixes

(* So is the header. *)
LEMMA HeaderIsBytes ==
  ASSUME NEW c \in Configs
  PROVE  Header(c) \in Seq(Byte)
BY ConfigAssumption DEF Header, Byte

-----------------------------------------------------------------------------
(* The inductive invariant.  A struct the loops of Read have not come to is   *)
(* still Cleared; without that, pushing the entries of the file behind those  *)
(* already there would make the vector longer than vrt_size.                  *)

Loading == phase \in {"reading", "loaded"}

BytesOK ==
  /\ wconfig \in Configs /\ rconfig \in Configs
  /\ fault_map \in [Coordinates(wconfig) -> FaultStruct]
  /\ wturn \in Nat /\ rturn \in Nat /\ get \in Nat
  /\ written \in Seq(Byte) /\ file \in Seq(Byte)

ToReadIsCleared ==
  /\ ~ Loading => rturn = 0
  /\ Loading => \A n \in Nat :
       rturn <= n /\ n < Turns(rconfig) => loaded[Coordinate(rconfig, n)] = Cleared

LoadedHasShape ==
  Loading => loaded = [at \in Coordinates(rconfig) |-> loaded[at]]

LoadInv == BytesOK /\ LoadedHasShape /\ ToReadIsCleared /\ LoadedSizesMatch

(* Nothing is loaded at first. *)
LEMMA LoadInit == Init => LoadInv
<1> SUFFICES ASSUME Init PROVE LoadInv
  OBVIOUS
<1>1. ~ Loading /\ phase \notin {"reading", "loaded"}
  BY DEF Init, Loading
<1>2. <<>> \in Seq(Byte)
  OBVIOUS
<1>3. fault_map \in [Coordinates(wconfig) -> FaultStruct]
  BY StructAssumption DEF Init
<1> QED
  BY <1>1, <1>2, <1>3
     DEF Init, LoadInv, BytesOK, LoadedHasShape, ToReadIsCleared, LoadedSizesMatch

(* A field read from the file is the byte there or the old value. *)
LEMMA SizeIsNat ==
  ASSUME BytesOK, NEW old \in Nat, NEW k \in Nat
  PROVE  Bytes(k, 1, <<old>>)[1] \in Nat
<1>1. Bytes(k, 1, <<old>>)[1] = IF k + 1 <= Len(file) THEN file[k + 1] ELSE old
  BY DEF Bytes
<1>2. k + 1 <= Len(file) => file[k + 1] \in Byte
  BY DEF BytesOK
<1>3. Byte \subseteq Nat
  BY DEF Byte
<1>4. CASE k + 1 <= Len(file)
  BY <1>1, <1>2, <1>3, <1>4, Zenon
<1>5. CASE ~ k + 1 <= Len(file)
  BY <1>1, <1>5, Zenon
<1> QED BY <1>4, <1>5

(* The writing side and the steps that leave the loaded map alone. *)
LEMMA WriteKeepsLoadInv ==
  ASSUME LoadInv, WriteHeader \/ WriteColumn \/ CloseWriter \/ WriterDies
  PROVE  LoadInv'
<1>1. /\ UNCHANGED <<wconfig, rconfig, fault_map, loaded, rturn, get>>
      /\ ~ Loading /\ ~ Loading' /\ rturn = 0
  BY DEF WriteHeader, WriteColumn, CloseWriter, WriterDies, Loading, LoadInv,
         ToReadIsCleared
<1>2. written' \in Seq(Byte) /\ file' \in Seq(Byte) /\ wturn' \in Nat
  <2>0. written \in Seq(Byte) /\ file \in Seq(Byte) /\ wturn \in Nat
    BY DEF LoadInv, BytesOK
  <2>1. CASE WriteHeader
    BY <2>0, <2>1, HeaderIsBytes DEF WriteHeader, LoadInv, BytesOK
  <2>2. CASE WriteColumn
    <3> DEFINE at == Coordinate(wconfig, wturn)
    <3>1. at \in Coordinates(wconfig)
      BY <2>2, TurnHasCoordinate DEF WriteColumn, LoadInv, BytesOK
    <3>2. fault_map[at] \in FaultStruct /\ at[1] \in Nat
      <4>1. fault_map[at] \in FaultStruct
        BY <3>1 DEF LoadInv, BytesOK
      <4>2. wconfig.channels \in Nat
        <5>1. wconfig \in Configs
          BY DEF LoadInv, BytesOK
        <5>2. wconfig.channels \in Byte \ {0}
          BY <5>1, ConfigAssumption
        <5> QED BY <5>2 DEF Byte
      <4>3. at[1] \in 0 .. wconfig.channels - 1
        BY <3>1 DEF Coordinates
      <4> QED BY <4>1, <4>2, <4>3
    <3> HIDE DEF at
    <3>3. PICK e \in IndexedEntries(fault_map[at], at[1]) :
            written' = written \o StructBytes(fault_map[at], e)
      BY <2>2 DEF WriteColumn, at
    <3>4. StructBytes(fault_map[at], e) \in Seq(Byte)
      BY <3>2, EntriesAreEntries, StructIsBytes
    <3> QED BY <2>0, <2>2, <3>3, <3>4 DEF WriteColumn
  <2>3. CASE CloseWriter
    BY <2>0, <2>3, PrefixIsBytes DEF CloseWriter
  <2>4. CASE WriterDies
    BY <2>0, <2>4, PrefixIsBytes DEF WriterDies
  <2> QED BY <2>1, <2>2, <2>3, <2>4
<1> QED
  BY <1>1, <1>2
     DEF LoadInv, BytesOK, LoadedHasShape, ToReadIsCleared, LoadedSizesMatch, Loading

(* The constructor of the fault model clears every struct. *)
LEMMA ReadHeaderKeepsLoadInv ==
  ASSUME LoadInv, ReadHeader
  PROVE  LoadInv'
<1>1. ~ Loading /\ rturn = 0 /\ BytesOK'
  BY DEF ReadHeader, Loading, LoadInv, BytesOK, ToReadIsCleared
<1>2. CASE phase' = "aborted"
  BY <1>1, <1>2 DEF ReadHeader, LoadInv, LoadedHasShape, ToReadIsCleared,
                    LoadedSizesMatch, Loading
<1>3. CASE loaded' = [at \in Coordinates(rconfig) |-> Cleared] /\ phase' = "reading"
  <2>1. rconfig' = rconfig /\ rturn' = rturn /\ rconfig \in Configs
    BY DEF ReadHeader, LoadInv, BytesOK
  <2>2. \A at \in Coordinates(rconfig) : loaded'[at] = Cleared
    BY <1>3
  <2>3. Cleared.vrt_size = Len(Cleared.vrt)
    BY DEF Cleared
  <2>4. ToReadIsCleared'
    BY <1>3, <2>1, <2>2, TurnHasCoordinate DEF ToReadIsCleared, Loading
  <2>5. LoadedHasShape' /\ LoadedSizesMatch'
    BY <1>3, <2>1, <2>2, <2>3 DEF LoadedHasShape, LoadedSizesMatch
  <2> QED BY <1>1, <2>4, <2>5 DEF LoadInv
<1> QED BY <1>2, <1>3 DEF ReadHeader

(* One turn of Read fills a struct that is still Cleared, and no other. *)
LEMMA ReadColumnKeepsLoadInv ==
  ASSUME LoadInv, ReadColumn
  PROVE  LoadInv'
<1> DEFINE at    == Coordinate(rconfig, rturn)
           fs    == loaded[at]
           size  == Bytes(get + 2, 1, <<fs.vrt_size>>)[1]
           pair  == PairsFrom(get + 3, size)
           read  == [hardfault |-> Bytes(get, 2, fs.hardfault),
                     vrt_size  |-> size,
                     vrt       |-> fs.vrt \o EntriesRead(size, pair)]
<1>1. /\ loaded' = [loaded EXCEPT ![at] = read]
      /\ get' = get + 3 + 3 * size
      /\ rturn' = rturn + 1 /\ rturn < Turns(rconfig)
      /\ phase = "reading" /\ phase' = "reading"
      /\ UNCHANGED <<wconfig, fault_map, rconfig, wturn, written, file>>
  BY DEF ReadColumn
<1>2. /\ rconfig \in Configs /\ rturn \in Nat /\ get \in Nat
      /\ loaded = [x \in Coordinates(rconfig) |-> loaded[x]]
      /\ BytesOK
  BY <1>1 DEF LoadInv, BytesOK, LoadedHasShape, Loading
<1>3. at \in Coordinates(rconfig)
  BY <1>1, <1>2, TurnHasCoordinate
<1>4. fs = Cleared
  <2>1. \A n \in Nat : rturn <= n /\ n < Turns(rconfig) =>
                        loaded[Coordinate(rconfig, n)] = Cleared
    <3> HIDE DEF at, fs, size, pair, read
    <3> QED BY <1>1 DEF LoadInv, ToReadIsCleared, Loading
  <2>2. rturn <= rturn
    BY <1>2
  <2> QED BY <1>1, <1>2, <2>1, <2>2, Zenon
<1>5. size \in Nat
  <2>1. fs.vrt_size \in Nat
    BY <1>4 DEF Cleared
  <2> HIDE DEF fs
  <2> QED BY <1>2, <2>1, SizeIsNat
<1>6. Len(read.vrt) = read.vrt_size
  <2> HIDE DEF size, pair
  <2> DEFINE new == EntriesRead(size, pair)
  <2>1. new \in Seq({pair[j] : j \in 1 .. size}) /\ Len(new) = size
    BY <1>5 DEF EntriesRead
  <2>2. fs.vrt = <<>>
    BY <1>4 DEF Cleared
  <2> HIDE DEF new, fs
  <2>3. <<>> \o new = new
    BY <2>1
  <2> QED BY <2>1, <2>2, <2>3 DEF new
<1> HIDE DEF at, fs, size, pair, read
<1>7. /\ loaded'[at] = read
      /\ \A x \in Coordinates(rconfig) : x # at => loaded'[x] = loaded[x]
      /\ loaded' = [x \in Coordinates(rconfig) |-> loaded'[x]]
  BY <1>1, <1>2, <1>3
<1>8. BytesOK'
  BY <1>1, <1>2, <1>5 DEF BytesOK
<1>9. LoadedHasShape'
  BY <1>1, <1>7 DEF LoadedHasShape
<1>10. ToReadIsCleared'
  <2> SUFFICES ASSUME NEW n \in Nat, rturn + 1 <= n, n < Turns(rconfig)
               PROVE  loaded'[Coordinate(rconfig, n)] = Cleared
    BY <1>1 DEF ToReadIsCleared, Loading
  <2>1. Coordinate(rconfig, n) \in Coordinates(rconfig)
    BY <1>2, TurnHasCoordinate
  <2>2. Coordinate(rconfig, n) # at
    BY <1>1, <1>2, NoCoordinateTwice DEF at
  <2>3. loaded[Coordinate(rconfig, n)] = Cleared
    BY <1>1, <1>2 DEF LoadInv, ToReadIsCleared, Loading
  <2> QED BY <1>7, <2>1, <2>2, <2>3
<1>11. LoadedSizesMatch'
  BY <1>1, <1>6, <1>7 DEF LoadInv, LoadedSizesMatch
<1> QED BY <1>8, <1>9, <1>10, <1>11 DEF LoadInv

(* No step disturbs the invariant. *)
LEMMA LoadStep ==
  ASSUME LoadInv, [Next]_vars
  PROVE  LoadInv'
<1>1. CASE WriteHeader \/ WriteColumn \/ CloseWriter \/ WriterDies
  BY <1>1, WriteKeepsLoadInv
<1>2. CASE ReadHeader
  BY <1>2, ReadHeaderKeepsLoadInv
<1>3. CASE ReadColumn
  BY <1>3, ReadColumnKeepsLoadInv
<1>4. CASE ReadDone
  BY <1>4 DEF ReadDone, LoadInv, BytesOK, LoadedHasShape, ToReadIsCleared,
              LoadedSizesMatch, Loading
<1>5. CASE UNCHANGED vars
  BY <1>5 DEF vars, LoadInv, BytesOK, LoadedHasShape, ToReadIsCleared,
              LoadedSizesMatch, Loading
<1>6. CASE WriterCannotOpen \/ ReaderCannotOpen
  <2>1. /\ ~ Loading /\ ~ Loading' /\ rturn = 0
        /\ UNCHANGED <<wconfig, fault_map, rconfig, loaded, wturn, rturn, written, file, get>>
    BY <1>6 DEF WriterCannotOpen, ReaderCannotOpen, Loading, LoadInv, ToReadIsCleared
  <2> QED BY <2>1 DEF LoadInv, BytesOK, LoadedHasShape, ToReadIsCleared, LoadedSizesMatch,
                      Loading
<1> QED BY <1>1, <1>2, <1>3, <1>4, <1>5, <1>6 DEF Next

(* A loaded map has exactly as many entries as its vrt_size says, whatever is *)
(* in the file and wherever it ends: VRTFaultError, which indexes the vector  *)
(* up to vrt_size, never leaves a vector that FaultMapReader::Read has built. *)
THEOREM LoadedMapIsUsable == Spec => []LoadedSizesMatch
<1>1. LoadInv => LoadedSizesMatch
  BY DEF LoadInv
<1>2. LoadInv /\ [Next]_vars => LoadInv'
  BY LoadStep
<1> QED BY LoadInit, <1>1, <1>2, PTL DEF Spec

-----------------------------------------------------------------------------
(* What the reads of one turn return. *)

(* One byte from the file, or the old value. *)
LEMMA ByteRead ==
  ASSUME file \in Seq(Byte), NEW k \in Nat, NEW old \in Byte
  PROVE  Bytes(k, 1, <<old>>)[1] \in Byte
<1>1. Bytes(k, 1, <<old>>)[1] = IF k + 1 <= Len(file) THEN file[k + 1] ELSE old
  BY DEF Bytes
<1>2. k + 1 <= Len(file) => file[k + 1] \in Byte
  OBVIOUS
<1> QED BY <1>1, <1>2, Zenon

(* Two bytes are a pair of them. *)
LEMMA TwoBytes ==
  ASSUME NEW f, f = [b \in 1 .. 2 |-> f[b]]
  PROVE  f = <<f[1], f[2]>>
OBVIOUS

(* Two bytes from the file, or the old ones: a half-read pair is a pair still. *)
LEMMA PairRead ==
  ASSUME file \in Seq(Byte), NEW k \in Nat, NEW old \in Byte2
  PROVE  Bytes(k, 2, old) \in Byte2
<1> DEFINE f == Bytes(k, 2, old)
<1>1. f = [b \in 1 .. 2 |-> IF k + b <= Len(file) THEN file[k + b] ELSE old[b]]
  BY DEF Bytes
<1>2. old[1] \in Byte /\ old[2] \in Byte
  BY DEF Byte2
<1>3. f[1] \in Byte /\ f[2] \in Byte
  <2>1. f[1] = IF k + 1 <= Len(file) THEN file[k + 1] ELSE old[1]
    BY <1>1
  <2>2. f[2] = IF k + 2 <= Len(file) THEN file[k + 2] ELSE old[2]
    BY <1>1
  <2>3. /\ k + 1 <= Len(file) => file[k + 1] \in Byte
        /\ k + 2 <= Len(file) => file[k + 2] \in Byte
    OBVIOUS
  <2> HIDE DEF f
  <2> QED BY <2>1, <2>2, <2>3, <1>2, Zenon
<1>4. f = <<f[1], f[2]>>
  BY <1>1, TwoBytes
<1> HIDE DEF f
<1>5. <<f[1], f[2]>> \in Byte \X Byte
  BY <1>3
<1> QED BY <1>4, <1>5 DEF Byte2, f

\* The pair of entry j, when the one before is before.
NextPair(k, j, before) ==
  LET o == k + 3 * (j - 1)
  IN [bit  |-> Bytes(o, 1, <<before.bit>>)[1],
      prob |-> Bytes(o + 1, 2, before.prob)]

PairsUpTo(k, m, f) ==
  f = [j \in 0 .. m |-> IF j = 0 THEN temp_pair ELSE NextPair(k, j, f[j - 1])]

(* The recursion over the entries defines a function. *)
LEMMA PairsFromIsDefined ==
  ASSUME NEW k, NEW size \in Nat
  PROVE  PairsUpTo(k, size, PairsFrom(k, size))
<1> DEFINE S == {m \in Nat : \E f : PairsUpTo(k, m, f)}
<1>1. 0 \in S
  <2>1. PairsUpTo(k, 0, [j \in 0 .. 0 |-> temp_pair])
    BY DEF PairsUpTo
  <2> QED BY <2>1
<1>2. ASSUME NEW m \in Nat, m \in S
      PROVE  m + 1 \in S
  <2>1. PICK f : PairsUpTo(k, m, f)
    BY <1>2
  <2> DEFINE g == [j \in 0 .. m + 1 |-> IF j <= m THEN f[j] ELSE NextPair(k, j, f[m])]
  <2>2. \A j \in 0 .. m + 1 :
          g[j] = IF j = 0 THEN temp_pair ELSE NextPair(k, j, g[j - 1])
    <3> TAKE j \in 0 .. m + 1
    <3>1. CASE j <= m
      <4>1. f[j] = IF j = 0 THEN temp_pair ELSE NextPair(k, j, f[j - 1])
        BY <2>1, <3>1 DEF PairsUpTo
      <4>2. j # 0 => g[j - 1] = f[j - 1]
        BY <3>1
      <4> QED BY <3>1, <4>1, <4>2
    <3>2. CASE j = m + 1
      BY <3>2
    <3> QED BY <3>1, <3>2
  <2>3. g = [j \in 0 .. m + 1 |-> g[j]]
    OBVIOUS
  <2> HIDE DEF g
  <2>4. PairsUpTo(k, m + 1, g)
    BY <2>2, <2>3 DEF PairsUpTo
  <2> QED BY <2>4
<1>3. size \in S
  <2> HIDE DEF S
  <2> QED BY <1>1, <1>2, Induction
<1>4. \E f : PairsUpTo(k, size, f)
  BY <1>3
<1>5. PairsFrom(k, size) = CHOOSE f : PairsUpTo(k, size, f)
  BY Zenon DEF PairsFrom, PairsUpTo, NextPair
<1> QED BY <1>4, <1>5, Zenon

(* Every pair read is one. *)
LEMMA PairsArePairs ==
  ASSUME BytesOK, temp_pair \in VrtEntry, NEW k \in Nat, NEW size \in Nat
  PROVE  \A j \in 0 .. size : PairsFrom(k, size)[j] \in VrtEntry
<1> DEFINE p == PairsFrom(k, size)
           S == {j \in Nat : j <= size => p[j] \in VrtEntry}
<1>1. p = [j \in 0 .. size |-> IF j = 0 THEN temp_pair ELSE NextPair(k, j, p[j - 1])]
  BY PairsFromIsDefined DEF PairsUpTo
<1> HIDE DEF p
<1>2. 0 \in S
  BY <1>1
<1>3. ASSUME NEW j \in Nat, j \in S
      PROVE  j + 1 \in S
  <2> SUFFICES ASSUME j + 1 <= size PROVE p[j + 1] \in VrtEntry
    OBVIOUS
  <2>1. p[j] \in VrtEntry
    BY <1>3
  <2>2. p[j + 1] = NextPair(k, j + 1, p[j])
    BY <1>1
  <2>3. k + 3 * ((j + 1) - 1) \in Nat /\ k + 3 * ((j + 1) - 1) + 1 \in Nat
    OBVIOUS
  <2>4. file \in Seq(Byte) /\ p[j].bit \in Byte /\ p[j].prob \in Byte2
    BY <2>1 DEF BytesOK, VrtEntry
  <2>5. Bytes(k + 3 * ((j + 1) - 1), 1, <<p[j].bit>>)[1] \in Byte
    BY <2>3, <2>4, ByteRead
  <2>6. Bytes(k + 3 * ((j + 1) - 1) + 1, 2, p[j].prob) \in Byte2
    BY <2>3, <2>4, PairRead
  <2>7. \A x \in Byte, y \in Byte2 : [bit |-> x, prob |-> y] \in VrtEntry
    BY DEF VrtEntry
  <2> QED BY <2>2, <2>5, <2>6, <2>7, Zenon DEF NextPair
<1>4. Nat \subseteq S
  <2> HIDE DEF S
  <2> QED BY <1>2, <1>3, Induction
<1> QED BY <1>4 DEF p

-----------------------------------------------------------------------------
(* The types. *)

(* What the constructor leaves is a fault struct. *)
LEMMA ClearedIsStruct == Cleared \in FaultStruct
<1>1. <<0, 0>> \in Byte2 /\ 0 \in Byte
  BY DEF Byte, Byte2
<1>2. <<>> \in Seq(VrtEntry)
  OBVIOUS
<1> QED BY <1>1, <1>2 DEF Cleared, FaultStruct

(* Whatever the file holds, one turn of Read leaves a fault struct. *)
LEMMA StructRead ==
  ASSUME BytesOK, temp_pair \in VrtEntry, NEW fs \in FaultStruct,
         NEW size, size = Bytes(get + 2, 1, <<fs.vrt_size>>)[1],
         NEW pair, pair = PairsFrom(get + 3, size)
  PROVE  /\ size \in Byte /\ pair[size] \in VrtEntry
         /\ [hardfault |-> Bytes(get, 2, fs.hardfault),
             vrt_size  |-> size,
             vrt       |-> fs.vrt \o EntriesRead(size, pair)] \in FaultStruct
<1>1. /\ get \in Nat /\ get + 2 \in Nat /\ get + 3 \in Nat /\ file \in Seq(Byte)
      /\ fs.hardfault \in Byte2 /\ fs.vrt_size \in Byte /\ fs.vrt \in Seq(VrtEntry)
  BY DEF BytesOK, FaultStruct
<1>2. size \in Byte
  BY <1>1, ByteRead
<1>3. size \in Nat
  BY <1>2 DEF Byte
<1>4. \A j \in 0 .. size : pair[j] \in VrtEntry
  BY <1>1, <1>3, PairsArePairs
<1>5. pair[size] \in VrtEntry
  BY <1>3, <1>4
<1>6. Bytes(get, 2, fs.hardfault) \in Byte2
  BY <1>1, PairRead
<1>7. fs.vrt \o EntriesRead(size, pair) \in Seq(VrtEntry)
  <2>1. EntriesRead(size, pair) \in Seq(VrtEntry)
    BY <1>3, <1>4 DEF EntriesRead
  <2> QED BY <1>1, <2>1
<1> QED BY <1>2, <1>5, <1>6, <1>7 DEF FaultStruct

(* No step of either side leaves the types. *)
LEMMA FileTypeStep ==
  ASSUME LoadInv, LoadInv', FileTypeOK, [Next]_vars
  PROVE  FileTypeOK'
<1>1. BytesOK'
  BY DEF LoadInv
<1>2. SUFFICES /\ phase' \in {"generated", "writing", "stored", "unstored", "reading", "loaded",
                            "aborted"}
               /\ phase' \in {"reading", "loaded"} =>
                    loaded' \in [Coordinates(rconfig') -> FaultStruct]
               /\ temp_pair' \in VrtEntry
  BY <1>1 DEF FileTypeOK, BytesOK
<1>3. CASE WriteHeader \/ WriteColumn \/ CloseWriter \/ WriterDies
  BY <1>3 DEF WriteHeader, WriteColumn, CloseWriter, WriterDies, FileTypeOK
<1>4. CASE ReadHeader
  <2>1. [bit |-> 0, prob |-> <<0, 0>>] \in VrtEntry
    BY DEF VrtEntry, Byte, Byte2
  <2>2. [at \in Coordinates(rconfig) |-> Cleared] \in [Coordinates(rconfig) -> FaultStruct]
    BY ClearedIsStruct
  <2>3. rconfig' = rconfig /\ temp_pair' = [bit |-> 0, prob |-> <<0, 0>>]
    BY <1>4 DEF ReadHeader
  <2>4. \/ phase' = "reading" /\ loaded' = [at \in Coordinates(rconfig) |-> Cleared]
        \/ phase' = "aborted"
    BY <1>4 DEF ReadHeader
  <2> QED BY <2>1, <2>2, <2>3, <2>4
<1>5. CASE ReadColumn
  <2> DEFINE at   == Coordinate(rconfig, rturn)
             fs   == loaded[at]
             size == Bytes(get + 2, 1, <<fs.vrt_size>>)[1]
             pair == PairsFrom(get + 3, size)
             read == [hardfault |-> Bytes(get, 2, fs.hardfault),
                      vrt_size  |-> size,
                      vrt       |-> fs.vrt \o EntriesRead(size, pair)]
  <2>1. /\ loaded' = [loaded EXCEPT ![at] = read]
        /\ temp_pair' = pair[size]
        /\ phase = "reading" /\ phase' = phase /\ rconfig' = rconfig
    BY <1>5 DEF ReadColumn
  <2>2. loaded \in [Coordinates(rconfig) -> FaultStruct] /\ temp_pair \in VrtEntry /\ BytesOK
    BY <2>1 DEF FileTypeOK, LoadInv
  <2>3. at \in Coordinates(rconfig)
    BY <1>5, TurnHasCoordinate DEF ReadColumn, LoadInv, BytesOK
  <2>4. fs \in FaultStruct
    <3> HIDE DEF at
    <3> QED BY <2>2, <2>3
  <2>5. read \in FaultStruct /\ pair[size] \in VrtEntry
    <3> HIDE DEF at, fs
    <3> QED BY <2>2, <2>4, StructRead
  <2> HIDE DEF at, fs, size, pair, read
  <2> QED BY <2>1, <2>2, <2>3, <2>5
<1>6. CASE ReadDone \/ UNCHANGED vars
  BY <1>6 DEF ReadDone, vars, FileTypeOK
<1>7. CASE WriterCannotOpen \/ ReaderCannotOpen
  BY <1>7 DEF WriterCannotOpen, ReaderCannotOpen, FileTypeOK
<1> QED BY <1>3, <1>4, <1>5, <1>6, <1>7 DEF Next

(* The variables keep their types whatever the file holds and wherever it     *)
(* ends: what Read builds from bytes it could not read is a fault map still.  *)
THEOREM FileTypes == Spec => []FileTypeOK
<1>1. Init => FileTypeOK
  <2> SUFFICES ASSUME Init PROVE FileTypeOK
    OBVIOUS
  <2>1. BytesOK
    BY LoadInit DEF LoadInv
  <2>2. [bit |-> 0, prob |-> <<0, 0>>] \in VrtEntry
    BY DEF VrtEntry, Byte, Byte2
  <2> QED BY <2>1, <2>2 DEF Init, FileTypeOK, BytesOK
<1>2. LoadInv /\ FileTypeOK /\ [Next]_vars => (LoadInv /\ FileTypeOK)'
  BY LoadStep, FileTypeStep
<1> QED BY LoadInit, <1>1, <1>2, PTL DEF Spec

-----------------------------------------------------------------------------
(* Turns and columns.  Where the burst length divides the columns, turn n of  *)
(* the loops is at one and the same column under every burst length.          *)

ColumnAt(c, n) ==
  <<n \div (c.planes * c.columns), (n \div c.columns) % c.planes, n % c.columns>>

(* The sizes of a configuration. *)
LEMMA ConfigSizes ==
  ASSUME NEW c \in Configs
  PROVE  /\ c.planes \in Nat \ {0} /\ c.channels \in Nat \ {0}
         /\ c.columns \in Nat \ {0} /\ c.BL \in Nat \ {0}
BY ConfigAssumption DEF Byte

(* Whole bursts fill a plane. *)
LEMMA WholePlane ==
  ASSUME NEW c \in Configs, Divides(c)
  PROVE  PlaneSize(c) = c.columns
<1>1. c.columns \in Nat /\ c.BL \in Nat \ {0}
  BY ConfigSizes
<1>2. c.columns = c.BL * (c.columns \div c.BL) + (c.columns % c.BL)
      /\ c.columns \div c.BL \in Nat
  BY <1>1, Division
<1>3. c.columns % c.BL = 0
  BY DEF Divides
<1> DEFINE q == c.columns \div c.BL
<1>4. c.columns = c.BL * q + 0 /\ q \in Nat
  BY <1>2, <1>3
<1>5. PlaneSize(c) = q * c.BL
  BY DEF PlaneSize, ActualColumns
<1> HIDE DEF q
<1> QED BY <1>1, <1>4, <1>5

(* The struct of a turn is the one its column is split into. *)
LEMMA TurnIsColumn ==
  ASSUME NEW c \in Configs, Divides(c), NEW n \in Nat
  PROVE  Coordinate(c, n) = Split(c, ColumnAt(c, n))
<1>1. PlaneSize(c) = c.columns /\ PlaneSize(c) = ActualColumns(c) * c.BL
  BY WholePlane DEF PlaneSize
<1>2. ActualColumns(c) \in Nat \ {0}
  <2>1. c.columns \in Nat \ {0} /\ c.BL \in Nat \ {0}
    BY ConfigSizes
  <2>2. ActualColumns(c) \in Nat
    BY <2>1, Division DEF ActualColumns
  <2>3. c.columns = ActualColumns(c) * c.BL
    BY <1>1
  <2> QED BY <2>1, <2>2, <2>3
<1>3. (n % c.columns) % c.BL = n % c.BL
  <2>1. (n % (ActualColumns(c) * c.BL)) % c.BL = n % c.BL
    BY <1>2, ConfigSizes, NestedRemainder
  <2> QED BY <1>1, <2>1
<1> QED BY <1>1, <1>3 DEF Coordinate, Split, ColumnAt

(* What the two runs have in common. *)
LEMMA SharedSizes ==
  ASSUME wconfig \in Configs, rconfig \in Configs, SameMemory
  PROVE  /\ wconfig.channels = rconfig.channels
         /\ wconfig.planes = rconfig.planes
         /\ wconfig.columns = rconfig.columns
         /\ Turns(wconfig) = Turns(rconfig)
         /\ \A n \in Nat : ColumnAt(wconfig, n) = ColumnAt(rconfig, n)
<1>1. /\ wconfig.channels = rconfig.channels
      /\ wconfig.planes = rconfig.planes
      /\ wconfig.columns = rconfig.columns
  <2> DEFINE w == [wconfig EXCEPT !.BL = 1]
             r == [rconfig EXCEPT !.BL = 1]
  <2>1. w = r
    BY DEF SameMemory
  <2>2. /\ w.channels = wconfig.channels /\ w.planes = wconfig.planes
        /\ w.columns = wconfig.columns
    BY ConfigAssumption
  <2>3. /\ r.channels = rconfig.channels /\ r.planes = rconfig.planes
        /\ r.columns = rconfig.columns
    BY ConfigAssumption
  <2> HIDE DEF w, r
  <2> QED BY <2>1, <2>2, <2>3
<1>2. PlaneSize(wconfig) = wconfig.columns /\ PlaneSize(rconfig) = rconfig.columns
  BY WholePlane DEF SameMemory
<1> QED BY <1>1, <1>2 DEF Turns, ColumnAt

(* A turn's number is made of its column's three numbers. *)
LEMMA TurnNumber ==
  ASSUME NEW c \in Configs, NEW n \in Nat
  PROVE  LET x == ColumnAt(c, n)
         IN /\ x[1] \in Nat /\ x[2] \in 0 .. c.planes - 1 /\ x[3] \in 0 .. c.columns - 1
            /\ n = c.columns * (c.planes * x[1] + x[2]) + x[3]
<1> DEFINE C == c.columns
           P == c.planes
<1>1. C \in Nat \ {0} /\ P \in Nat \ {0}
  BY ConfigSizes
<1> DEFINE q == n \div C
           a == n \div (P * C)
           b == (n \div C) % P
           d == n % C
<1>2. q \in Nat /\ d \in 0 .. C - 1 /\ n = C * q + d
  <2> HIDE DEF C
  <2> QED BY <1>1, Division
<1>3. q \div P \in Nat /\ b \in 0 .. P - 1 /\ q = P * (q \div P) + b
  <2>1. b = q % P
    OBVIOUS
  <2> HIDE DEF P, q, b
  <2> QED BY <1>1, <1>2, <2>1, Division
<1>4. a = q \div P
  <2> HIDE DEF P, C
  <2> QED BY <1>1, NestedDivision
<1>5. ColumnAt(c, n) = <<a, b, d>>
  BY DEF ColumnAt
<1> HIDE DEF a, b, d, q
<1>6. n = C * (P * a + b) + d /\ a \in Nat
  BY <1>2, <1>3, <1>4
<1> QED BY <1>2, <1>3, <1>5, <1>6

(* The turns are in the order of the columns. *)
LEMMA TurnsInOrder ==
  ASSUME NEW c \in Configs, NEW n \in Nat, NEW m \in Nat,
         Before(ColumnAt(c, n), ColumnAt(c, m))
  PROVE  n < m
<1> DEFINE x == ColumnAt(c, n)
           y == ColumnAt(c, m)
           C == c.columns
           P == c.planes
<1>0. C \in Nat /\ P \in Nat
  BY ConfigSizes
<1>1. /\ x[1] \in Nat /\ x[2] \in 0 .. P - 1 /\ x[3] \in 0 .. C - 1
      /\ n = C * (P * x[1] + x[2]) + x[3]
      /\ y[1] \in Nat /\ y[2] \in 0 .. P - 1 /\ y[3] \in 0 .. C - 1
      /\ m = C * (P * y[1] + y[2]) + y[3]
  BY TurnNumber
<1>2. \/ x[1] < y[1]
      \/ x[1] = y[1] /\ x[2] < y[2]
      \/ x[1] = y[1] /\ x[2] = y[2] /\ x[3] < y[3]
  BY DEF Before
<1> HIDE DEF x, y, C, P
<1> DEFINE u == P * x[1] + x[2]
           v == P * y[1] + y[2]
<1>3. u \in Nat /\ v \in Nat
  BY <1>0, <1>1
<1>4. CASE u < v
  <2>1. y[3] \in Nat
    BY <1>0, <1>1
  <2>2. C * u + x[3] < C * v + y[3]
    <3> HIDE DEF u, v
    <3> QED BY <1>0, <1>1, <1>3, <1>4, <2>1, LeadingDigit
  <2> QED BY <1>1, <2>2
<1>5. CASE x[1] < y[1]
  <2>1. y[2] \in Nat
    BY <1>0, <1>1
  <2>2. u < v
    BY <1>0, <1>1, <1>5, <2>1, LeadingDigit
  <2> QED BY <1>4, <2>2
<1>6. CASE x[1] = y[1] /\ x[2] < y[2]
  <2>1. u < v
    BY <1>0, <1>1, <1>6
  <2> QED BY <1>4, <2>1
<1>7. CASE x[1] = y[1] /\ x[2] = y[2] /\ x[3] < y[3]
  BY <1>0, <1>1, <1>7
<1> QED BY <1>2, <1>5, <1>6, <1>7

(* Every column has its turn. *)
LEMMA ColumnHasTurn ==
  ASSUME rconfig \in Configs, Divides(rconfig), NEW x \in Columns
  PROVE  \E n \in Nat : n < Turns(rconfig) /\ ColumnAt(rconfig, n) = x
<1> DEFINE C == rconfig.columns
           P == rconfig.planes
           H == rconfig.channels
<1>0. C \in Nat \ {0} /\ P \in Nat \ {0} /\ H \in Nat \ {0}
  BY ConfigSizes
<1>1. PICK a \in 0 .. H - 1, b \in 0 .. P - 1, d \in 0 .. C - 1 : x = <<a, b, d>>
  BY DEF Columns
<1> DEFINE u == P * a + b
           n == C * u + d
<1>2. Turns(rconfig) = H * P * C
  BY WholePlane DEF Turns
<1> HIDE DEF C, P, H
<1>3. a \in Nat /\ b \in Nat /\ d \in Nat /\ u \in Nat /\ n \in Nat
  BY <1>0
<1>4. u < P * H
  <2>1. P * a + b < P * H + 0
    BY <1>0, <1>3, LeadingDigit
  <2> QED BY <1>0, <2>1
<1>5. n < C * (P * H)
  <2>1. P * H \in Nat
    BY <1>0
  <2>2. C * u + d < C * (P * H) + 0
    <3> HIDE DEF u
    <3> QED BY <1>0, <1>3, <1>4, <2>1, LeadingDigit
  <2> HIDE DEF u
  <2> QED BY <1>0, <2>1, <2>2
<1>6. n < Turns(rconfig)
  <2>1. C * (P * H) = H * P * C
    BY <1>0
  <2> QED BY <1>2, <1>5, <2>1
<1>7. n \div C = u /\ n % C = d
  <2>1. /\ n \div C \in Nat /\ n % C \in 0 .. C - 1
        /\ n = C * (n \div C) + (n % C)
    <3> HIDE DEF n
    <3> QED BY <1>0, <1>3, Division
  <2>2. n = C * u + d
    OBVIOUS
  <2> HIDE DEF n, u
  <2>3. C * (n \div C) + (n % C) = C * u + d
    BY <2>1, <2>2
  <2> QED BY ONLY <1>0, <1>3, <2>1, <2>3, DivisionUnique
<1>8. u \div P = a /\ u % P = b
  <2>1. /\ u \div P \in Nat /\ u % P \in 0 .. P - 1
        /\ u = P * (u \div P) + (u % P)
    <3> HIDE DEF u
    <3> QED BY <1>0, <1>3, Division
  <2>2. u = P * a + b
    OBVIOUS
  <2> HIDE DEF u
  <2>3. P * (u \div P) + (u % P) = P * a + b
    BY <2>1, <2>2
  <2> QED BY ONLY <1>0, <1>3, <2>1, <2>3, DivisionUnique
<1> HIDE DEF n, u
<1>9. n \div (P * C) = a
  BY <1>0, <1>3, <1>7, <1>8, NestedDivision
<1>10. ColumnAt(rconfig, n) = <<a, b, d>>
  BY <1>7, <1>8, <1>9 DEF ColumnAt, P, C
<1> QED BY <1>1, <1>3, <1>6, <1>10

(* And a turn has its column. *)
LEMMA TurnHasColumn ==
  ASSUME rconfig \in Configs, Divides(rconfig), NEW n \in Nat, n < Turns(rconfig)
  PROVE  ColumnAt(rconfig, n) \in Columns
<1> DEFINE x == ColumnAt(rconfig, n)
<1>1. Coordinate(rconfig, n) = Split(rconfig, x)
  BY TurnIsColumn
<1>2. Coordinate(rconfig, n) \in Coordinates(rconfig)
  BY TurnHasCoordinate
<1>3. /\ x[2] \in 0 .. rconfig.planes - 1 /\ x[3] \in 0 .. rconfig.columns - 1
  BY TurnNumber
<1>4. Coordinate(rconfig, n)[1] \in 0 .. rconfig.channels - 1
  BY <1>2 DEF Coordinates
<1>5. x[1] = Coordinate(rconfig, n)[1]
  BY <1>1 DEF Split
<1>6. x = <<x[1], x[2], x[3]>>
  BY DEF ColumnAt
<1> HIDE DEF x
<1> QED BY <1>3, <1>4, <1>5, <1>6 DEF Columns, x

-----------------------------------------------------------------------------
(* Where each struct is in the file.  off[n] is the number of bytes before    *)
(* turn n of Write; while nothing is missing, Read is at off[n] before its    *)
(* turn n, and from the turn at which the file ends it reads nothing more.    *)

StructAt(n)  == fault_map[Coordinate(wconfig, n)]
EntriesAt(n) == IndexedEntries(StructAt(n), Coordinate(wconfig, n)[1])
ReadAt(n)    == loaded[Coordinate(rconfig, n)]
StructSize(n) == 3 + 3 * StructAt(n).vrt_size

Offsets ==
  {off \in [0 .. wturn -> Nat] :
     /\ off[0] = 5
     /\ \A n \in 0 .. wturn - 1 : off[n + 1] = off[n] + StructSize(n)}

Recorded(off) ==
  /\ off[wturn] = Len(written)
  /\ \A n \in 0 .. wturn - 1 :
       /\ off[n + 1] <= Len(written)
       /\ \E e \in EntriesAt(n) : \A k \in 1 .. StructSize(n) :
            written[off[n] + k] = StructBytes(StructAt(n), e)[k]

FileIsPrefix ==
  /\ Len(file) <= Len(written)
  /\ \A k \in 1 .. Len(file) : file[k] = written[k]

Agrees(n) ==
  /\ ReadAt(n).hardfault = StructAt(n).hardfault
  /\ ReadAt(n).vrt_size = StructAt(n).vrt_size
HalfRead(n) ==
  \A b \in 1 .. 2 : ReadAt(n).hardfault[b] \in {0, StructAt(n).hardfault[b]}
OwnEntries(n) ==
  \A j \in 1 .. Len(ReadAt(n).vrt) : ReadAt(n).vrt[j] \in EntriesAt(n)

Whole == wturn = Turns(wconfig) /\ file = written

\* The turns Read has done: right before turn cut, nothing behind it.
ReadUpTo(cut) ==
  \A n \in 0 .. rturn - 1 :
    /\ n < cut => Agrees(n)
    /\ cut < n => ReadAt(n) = Cleared
    /\ HalfRead(n)
    /\ Whole => OwnEntries(n)

InStep(off, cut) == cut = rturn /\ rturn <= wturn /\ get = off[rturn]
Behind           == Len(file) <= get /\ ~ Whole

SoFar(off) ==
  \E cut \in 0 .. rturn : ReadUpTo(cut) /\ (InStep(off, cut) \/ Behind)

MapInv ==
  /\ wturn <= Turns(wconfig) /\ rturn <= Turns(rconfig)
  /\ phase = "generated" => wturn = 0
  /\ FileIsPrefix
  /\ phase \notin {"generated", "unstored", "aborted"} =>
       \E off \in Offsets : Recorded(off) /\ (Loading /\ SameMemory => SoFar(off))
  /\ phase = "loaded" => rturn = Turns(rconfig)

(* Configurations have a number of turns. *)
LEMMA TurnsAreCounted ==
  ASSUME NEW c \in Configs
  PROVE  Turns(c) \in Nat
<1>1. c.planes \in Nat /\ c.channels \in Nat /\ c.columns \in Nat /\ c.BL \in Nat \ {0}
  BY ConfigSizes
<1>2. ActualColumns(c) \in Nat
  BY <1>1, Division DEF ActualColumns
<1> QED BY <1>1, <1>2 DEF Turns, PlaneSize

(* Nothing is written at first. *)
LEMMA MapInit == Init => MapInv
<1> SUFFICES ASSUME Init PROVE MapInv
  OBVIOUS
<1>1. wturn = 0 /\ rturn = 0 /\ phase = "generated" /\ file = <<>> /\ written = <<>>
  BY DEF Init
<1>2. Turns(wconfig) \in Nat /\ Turns(rconfig) \in Nat
  BY TurnsAreCounted DEF Init
<1>3. FileIsPrefix
  BY <1>1 DEF FileIsPrefix
<1> QED BY <1>1, <1>2, <1>3 DEF MapInv

(* Two sequences, one behind the other. *)
LEMMA Joined ==
  ASSUME NEW T, NEW s \in Seq(T), NEW t \in Seq(T)
  PROVE  /\ Len(s \o t) = Len(s) + Len(t)
         /\ \A k \in 1 .. Len(s) : (s \o t)[k] = s[k]
         /\ \A k \in 1 .. Len(t) : (s \o t)[Len(s) + k] = t[k]
<1>1. Len(s) \in Nat /\ Len(t) \in Nat
  OBVIOUS
<1> QED BY <1>1

(* A prefix of what was written. *)
LEMMA PrefixIsPart ==
  ASSUME NEW w \in Seq(Byte), NEW f \in Prefixes(w)
  PROVE  Len(f) <= Len(w) /\ \A k \in 1 .. Len(f) : f[k] = w[k]
<1>1. PICK n \in 0 .. Len(w) : f = SubSeq(w, 1, n)
  BY DEF Prefixes
<1>2. Len(w) \in Nat
  OBVIOUS
<1>3. Len(f) = n /\ \A k \in 1 .. n : f[k] = w[k]
  BY <1>1, <1>2
<1> QED BY <1>2, <1>3

(* A function on 1 .. m is a sequence. *)
LEMMA SequenceOf ==
  ASSUME NEW m \in Nat, NEW f, f = [k \in 1 .. m |-> f[k]]
  PROVE  Len(f) = m /\ f \in Seq({f[k] : k \in 1 .. m})
<1>1. f \in [1 .. m -> {f[k] : k \in 1 .. m}]
  OBVIOUS
<1> QED BY <1>1

(* The structs and their sizes. *)
LEMMA StructsAreStructs ==
  ASSUME BytesOK, NEW n \in Nat, n < Turns(wconfig)
  PROVE  /\ StructAt(n) \in FaultStruct
         /\ StructSize(n) \in Nat /\ 3 <= StructSize(n)
         /\ EntriesAt(n) \subseteq VrtEntry
         /\ \A e \in EntriesAt(n) :
              /\ StructBytes(StructAt(n), e) \in Seq(Byte)
              /\ Len(StructBytes(StructAt(n), e)) = StructSize(n)
<1> DEFINE at == Coordinate(wconfig, n)
           fs == StructAt(n)
<1>1. at \in Coordinates(wconfig)
  BY TurnHasCoordinate DEF BytesOK
<1>2. fs \in FaultStruct
  <2> HIDE DEF at
  <2> QED BY <1>1 DEF BytesOK, StructAt, at
<1>3. at[1] \in Nat
  <2>1. wconfig.channels \in Nat
    BY ConfigSizes DEF BytesOK
  <2>2. at[1] \in 0 .. wconfig.channels - 1
    BY <1>1 DEF Coordinates
  <2> QED BY <2>1, <2>2
<1>4. EntriesAt(n) \subseteq VrtEntry
  <2> HIDE DEF at, fs
  <2>1. EntriesAt(n) = IndexedEntries(fs, at[1])
    BY DEF EntriesAt, at, fs
  <2> QED BY <1>2, <1>3, <2>1, EntriesAreEntries
<1>5. fs.vrt_size \in Nat
  <2> HIDE DEF fs
  <2>1. fs.vrt_size \in Byte
    BY <1>2 DEF FaultStruct
  <2> QED BY <2>1 DEF Byte
<1>6. StructSize(n) \in Nat /\ 3 <= StructSize(n)
  BY <1>5 DEF StructSize
<1>7. ASSUME NEW e \in EntriesAt(n)
      PROVE  /\ StructBytes(fs, e) \in Seq(Byte)
             /\ Len(StructBytes(fs, e)) = StructSize(n)
  <2>1. e \in VrtEntry
    BY <1>4
  <2> HIDE DEF fs
  <2>2. StructBytes(fs, e) \in Seq(Byte)
    BY <1>2, <2>1, StructIsBytes
  <2> DEFINE tail == [k \in 1 .. 3 * fs.vrt_size |-> EntryBytes(e)[1 + ((k - 1) % 3)]]
  <2>3. Len(tail) = 3 * fs.vrt_size /\ tail \in Seq({tail[k] : k \in 1 .. 3 * fs.vrt_size})
    <3>1. 3 * fs.vrt_size \in Nat
      BY <1>5
    <3>2. tail = [k \in 1 .. 3 * fs.vrt_size |-> tail[k]]
      OBVIOUS
    <3> HIDE DEF tail
    <3> QED BY <3>1, <3>2, SequenceOf
  <2>4. PICK x \in Byte, y \in Byte : fs.hardfault = <<x, y>>
    <3>1. fs.hardfault \in Byte2
      BY <1>2 DEF FaultStruct
    <3> QED BY <3>1 DEF Byte2
  <2>5. StructBytes(fs, e) = (<<x, y>> \o <<fs.vrt_size>>) \o tail
    BY <2>4 DEF StructBytes
  <2> HIDE DEF tail
  <2>6. Len(StructBytes(fs, e)) = 3 + 3 * fs.vrt_size
    BY <1>5, <2>3, <2>5
  <2> QED BY <2>2, <2>6 DEF StructSize, fs
<1> QED BY <1>2, <1>4, <1>6, <1>7

(* The header comes first: five bytes. *)
LEMMA WriteHeaderKeepsMapInv ==
  ASSUME LoadInv, MapInv, WriteHeader
  PROVE  MapInv'
<1>1. /\ phase = "generated" /\ phase' = "writing" /\ wturn = 0
      /\ written' = Header(wconfig) /\ file' = <<>>
      /\ UNCHANGED <<wconfig, fault_map, rconfig, loaded, wturn, rturn, get>>
  BY DEF WriteHeader, MapInv
<1>2. Len(Header(wconfig)) = 5
  BY DEF Header
<1> DEFINE off == [n \in 0 .. 0 |-> 5]
<1>3. off \in Offsets'
  <2>1. off \in [0 .. 0 -> Nat] /\ off[0] = 5
    OBVIOUS
  <2> HIDE DEF off
  <2>2. Offsets' = {o \in [0 .. 0 -> Nat] :
                     /\ o[0] = 5
                     /\ \A n \in 0 .. 0 - 1 : o[n + 1] = o[n] + StructSize(n)'}
    BY <1>1 DEF Offsets
  <2>3. 0 .. 0 - 1 = {}
    OBVIOUS
  <2> QED BY <2>1, <2>2, <2>3
<1>4. Recorded(off)'
  <2>1. off[wturn'] = 5 /\ wturn' = 0 /\ Len(written') = 5
    BY <1>1, <1>2
  <2>2. 0 .. 0 - 1 = {}
    OBVIOUS
  <2> HIDE DEF off
  <2> QED BY <2>1, <2>2 DEF Recorded
<1>5. FileIsPrefix'
  BY <1>1, <1>2 DEF FileIsPrefix
<1>6. ~ Loading'
  BY <1>1 DEF Loading
<1> HIDE DEF off
<1> QED BY <1>1, <1>3, <1>4, <1>5, <1>6 DEF MapInv

(* One turn of Write puts its struct behind the ones before it. *)
LEMMA WriteColumnKeepsMapInv ==
  ASSUME LoadInv, MapInv, WriteColumn
  PROVE  MapInv'
<1>1. /\ phase = "writing" /\ phase' = "writing"
      /\ wturn < Turns(wconfig) /\ wturn' = wturn + 1
      /\ UNCHANGED <<wconfig, fault_map, rconfig, loaded, rturn, file, get>>
  BY DEF WriteColumn
<1>2. BytesOK /\ wturn \in Nat /\ written \in Seq(Byte) /\ file \in Seq(Byte)
  BY DEF LoadInv, BytesOK
<1>3. Turns(wconfig) \in Nat
  BY <1>2, TurnsAreCounted DEF BytesOK
<1>4. PICK off \in Offsets : Recorded(off)
  BY <1>1 DEF MapInv
<1>5. PICK e \in EntriesAt(wturn) : written' = written \o StructBytes(StructAt(wturn), e)
  BY DEF WriteColumn, EntriesAt, StructAt
<1> DEFINE t    == StructBytes(StructAt(wturn), e)
           size == StructSize(wturn)
<1>6. t \in Seq(Byte) /\ Len(t) = size /\ size \in Nat
  BY <1>1, <1>2, StructsAreStructs
<1>7. /\ written' = written \o t
      /\ Len(written') = Len(written) + size
      /\ \A k \in 1 .. Len(written) : written'[k] = written[k]
      /\ \A k \in 1 .. size : written'[Len(written) + k] = t[k]
      /\ Len(written) \in Nat
  <2>1. written' = written \o t
    BY <1>5
  <2> HIDE DEF t, size
  <2>2. /\ Len(written \o t) = Len(written) + Len(t)
        /\ \A k \in 1 .. Len(written) : (written \o t)[k] = written[k]
        /\ \A k \in 1 .. Len(t) : (written \o t)[Len(written) + k] = t[k]
    <3>1. written \in Seq(Byte) /\ t \in Seq(Byte)
      BY <1>2, <1>6
    <3> QED BY ONLY <3>1, Joined
  <2>3. Len(written) \in Nat
    BY <1>2
  <2> QED BY <1>6, <2>1, <2>2, <2>3, Zenon
<1>8. /\ off \in [0 .. wturn -> Nat] /\ off[0] = 5
      /\ \A n \in 0 .. wturn - 1 : off[n + 1] = off[n] + StructSize(n)
      /\ off[wturn] = Len(written)
      /\ \A n \in 0 .. wturn - 1 :
           /\ off[n + 1] <= Len(written)
           /\ \E x \in EntriesAt(n) : \A k \in 1 .. StructSize(n) :
                written[off[n] + k] = StructBytes(StructAt(n), x)[k]
  BY <1>4 DEF Offsets, Recorded
<1>9. \A n \in Nat : /\ StructAt(n)' = StructAt(n) /\ StructSize(n)' = StructSize(n)
                     /\ EntriesAt(n)' = EntriesAt(n)
  BY <1>1 DEF StructAt, StructSize, EntriesAt
<1> PICK new : new = [n \in 0 .. wturn + 1 |-> IF n <= wturn THEN off[n] ELSE off[wturn] + size]
  OBVIOUS
<1>10. new \in [0 .. wturn' -> Nat] /\ new[0] = 5 /\ new[wturn'] = Len(written')
       /\ (\A n \in 0 .. wturn : new[n] = off[n])
       /\ new[wturn + 1] = off[wturn] + size
  <2> HIDE DEF size
  <2> QED BY <1>1, <1>2, <1>6, <1>7, <1>8
<1> HIDE DEF t, size
<1>11. \A n \in 0 .. wturn' - 1 : n \in Nat /\ (n \in 0 .. wturn - 1 \/ n = wturn)
  BY <1>1, <1>2
<1>12. ASSUME NEW n \in 0 .. wturn' - 1
       PROVE  new[n + 1] = new[n] + StructSize(n)'
  <2>1. CASE n \in 0 .. wturn - 1
    <3>1. n + 1 \in 0 .. wturn /\ n \in 0 .. wturn
      BY <1>2, <2>1
    <3> QED BY <1>8, <1>9, <1>10, <1>11, <2>1, <3>1
  <2>2. CASE n = wturn
    BY <1>2, <1>9, <1>10, <2>2 DEF size
  <2> QED BY <1>11, <2>1, <2>2
<1>13. new \in Offsets'
  BY <1>10, <1>12 DEF Offsets
<1>14. ASSUME NEW n \in 0 .. wturn' - 1
       PROVE  /\ new[n + 1] <= Len(written')
              /\ \E x \in EntriesAt(n)' : \A k \in 1 .. StructSize(n)' :
                   written'[new[n] + k] = StructBytes(StructAt(n)', x)[k]
  <2>1. CASE n \in 0 .. wturn - 1
    <3>1. n + 1 \in 0 .. wturn /\ n \in 0 .. wturn /\ n \in Nat
      BY <1>2, <2>1
    <3>2. new[n + 1] = off[n + 1] /\ new[n] = off[n]
      BY <1>10, <3>1
    <3>3. off[n + 1] <= Len(written) /\ off[n + 1] = off[n] + StructSize(n)
          /\ off[n] \in Nat /\ off[n + 1] \in Nat
      BY <1>8, <2>1, <3>1
    <3>4. PICK x \in EntriesAt(n) : \A k \in 1 .. StructSize(n) :
                written[off[n] + k] = StructBytes(StructAt(n), x)[k]
      BY <1>8, <2>1
    <3>5. StructSize(n) \in Nat
      BY <1>1, <1>2, <1>3, <2>1, <3>1, StructsAreStructs
    <3>6. \A k \in 1 .. StructSize(n) : off[n] + k \in 1 .. Len(written)
      BY <1>7, <3>3, <3>5
    <3>7. \A k \in 1 .. StructSize(n) :
             written'[new[n] + k] = StructBytes(StructAt(n), x)[k]
      BY <1>7, <3>2, <3>4, <3>6
    <3>8. new[n + 1] <= Len(written')
      BY <1>6, <1>7, <3>2, <3>3
    <3> QED BY <1>9, <3>1, <3>7, <3>8
  <2>2. CASE n = wturn
    <3>1. new[n] = Len(written) /\ new[n + 1] = Len(written')
      BY <1>1, <1>2, <1>8, <1>10, <2>2
    <3>2. \A k \in 1 .. StructSize(n) : written'[new[n] + k] = StructBytes(StructAt(n), e)[k]
      BY <1>7, <2>2, <3>1 DEF t, size
    <3>3. new[n + 1] <= Len(written')
      BY <1>6, <1>7, <3>1
    <3>4. e \in EntriesAt(n)' /\ StructSize(n)' = StructSize(n) /\ StructAt(n)' = StructAt(n)
      BY <1>2, <1>9, <2>2
    <3> QED BY <3>2, <3>3, <3>4
  <2> QED BY <1>11, <2>1, <2>2
<1>15. Recorded(new)'
  BY <1>10, <1>14 DEF Recorded
<1>16. FileIsPrefix'
  <2>1. Len(file) \in Nat /\ Len(file) <= Len(written)
        /\ \A k \in 1 .. Len(file) : file[k] = written[k]
    BY <1>2 DEF MapInv, FileIsPrefix
  <2>2. Len(file) <= Len(written')
    BY <1>6, <1>7, <2>1
  <2>3. \A k \in 1 .. Len(file) : file[k] = written'[k]
    BY <1>7, <2>1
  <2> QED BY <1>1, <2>2, <2>3 DEF FileIsPrefix
<1>17. wturn' <= Turns(wconfig') /\ rturn' <= Turns(rconfig')
  BY <1>1, <1>2, <1>3 DEF MapInv
<1>18. ~ Loading' /\ phase' # "generated" /\ phase' # "loaded"
  BY <1>1 DEF Loading
<1> QED BY <1>13, <1>15, <1>16, <1>17, <1>18 DEF MapInv

(* Whatever gets to the disk is a prefix. *)
LEMMA StoredKeepsMapInv ==
  ASSUME LoadInv, MapInv, CloseWriter \/ WriterDies
  PROVE  MapInv'
<1>1. /\ phase = "writing" /\ phase' = "stored"
      /\ UNCHANGED <<wconfig, fault_map, rconfig, loaded, wturn, rturn, written, get>>
      /\ file' = written \/ file' \in Prefixes(written)
  BY DEF CloseWriter, WriterDies
<1>2. written \in Seq(Byte)
  BY DEF LoadInv, BytesOK
<1>3. FileIsPrefix'
  <2>1. CASE file' = written
    BY <1>1, <1>2, <2>1 DEF FileIsPrefix
  <2>2. CASE file' \in Prefixes(written)
    BY <1>1, <1>2, <2>2, PrefixIsPart DEF FileIsPrefix
  <2> QED BY <1>1, <2>1, <2>2
<1>4. PICK off \in Offsets : Recorded(off)
  BY <1>1 DEF MapInv
<1>5. off \in Offsets' /\ Recorded(off)'
  BY <1>1, <1>4 DEF Offsets, Recorded, StructSize, StructAt, EntriesAt
<1>6. ~ Loading'
  BY <1>1 DEF Loading
<1>7. wturn' <= Turns(wconfig') /\ rturn' <= Turns(rconfig')
  BY <1>1 DEF MapInv
<1> QED BY <1>1, <1>3, <1>5, <1>6, <1>7 DEF MapInv

(* A file that cannot be opened ends a run before a struct is stored or loaded. *)
LEMMA CannotOpenKeepsMapInv ==
  ASSUME LoadInv, MapInv, WriterCannotOpen \/ ReaderCannotOpen
  PROVE  MapInv'
<1>1. /\ ~ Loading' /\ phase' \in {"unstored", "aborted"}
      /\ UNCHANGED <<wconfig, fault_map, rconfig, loaded, wturn, rturn, written, file, get>>
  BY DEF WriterCannotOpen, ReaderCannotOpen, Loading
<1>2. FileIsPrefix'
  BY <1>1 DEF MapInv, FileIsPrefix
<1>3. wturn' <= Turns(wconfig') /\ rturn' <= Turns(rconfig')
  BY <1>1 DEF MapInv
<1> QED BY <1>1, <1>2, <1>3 DEF MapInv

(* Read begins behind the header, where Write has put the first struct. *)
LEMMA ReadHeaderKeepsMapInv ==
  ASSUME LoadInv, MapInv, ReadHeader
  PROVE  MapInv'
<1>1. /\ phase = "stored" /\ phase' \in {"reading", "aborted"} /\ rturn = 0
      /\ get' = 5
      /\ UNCHANGED <<wconfig, fault_map, rconfig, wturn, rturn, written, file>>
  BY DEF ReadHeader, LoadInv, ToReadIsCleared, Loading
<1>2. PICK off \in Offsets : Recorded(off)
  BY <1>1 DEF MapInv
<1>3. off \in Offsets' /\ Recorded(off)'
  BY <1>1, <1>2 DEF Offsets, Recorded, StructSize, StructAt, EntriesAt
<1>4. SoFar(off)'
  <2>1. off[0] = 5 /\ 0 <= wturn
    BY <1>2 DEF Offsets, LoadInv, BytesOK
  <2>2. InStep(off, 0)'
    BY <1>1, <2>1 DEF InStep
  <2>3. 0 .. 0 - 1 = {} /\ 0 \in 0 .. 0
    OBVIOUS
  <2>4. ReadUpTo(0)'
    BY <1>1, <2>3 DEF ReadUpTo
  <2> QED BY <1>1, <2>2, <2>3, <2>4 DEF SoFar
<1>5. FileIsPrefix' /\ wturn' <= Turns(wconfig') /\ rturn' <= Turns(rconfig')
  BY <1>1 DEF MapInv, FileIsPrefix
<1> QED BY <1>1, <1>3, <1>4, <1>5 DEF MapInv

(* The bytes of a struct, field by field. *)
LEMMA StructFields ==
  ASSUME NEW fs \in FaultStruct, NEW e \in VrtEntry
  PROVE  LET t == StructBytes(fs, e)
         IN /\ t[1] = fs.hardfault[1] /\ t[2] = fs.hardfault[2] /\ t[3] = fs.vrt_size
            /\ \A j \in 1 .. fs.vrt_size :
                 /\ t[3 + 3 * (j - 1) + 1] = e.bit
                 /\ t[3 + 3 * (j - 1) + 2] = e.prob[1]
                 /\ t[3 + 3 * (j - 1) + 3] = e.prob[2]
<1> DEFINE m    == 3 * fs.vrt_size
           tail == [k \in 1 .. m |-> EntryBytes(e)[1 + ((k - 1) % 3)]]
<1>1. fs.vrt_size \in Nat /\ m \in Nat
  <2>1. fs.vrt_size \in Byte
    BY DEF FaultStruct
  <2> QED BY <2>1 DEF Byte
<1>2. PICK x \in Byte, y \in Byte : fs.hardfault = <<x, y>>
  BY DEF FaultStruct, Byte2
<1> DEFINE head == <<x, y>> \o <<fs.vrt_size>>
<1>3. StructBytes(fs, e) = head \o tail
  BY <1>2 DEF StructBytes
<1>4. /\ head[1] = x /\ head[2] = y /\ head[3] = fs.vrt_size
      /\ Len(head) = 3 /\ head \in Seq(Byte)
  <2>1. <<x, y>> \in Seq(Byte) /\ <<fs.vrt_size>> \in Seq(Byte)
    BY DEF FaultStruct
  <2>2. Len(<<x, y>>) = 2 /\ Len(<<fs.vrt_size>>) = 1
    OBVIOUS
  <2>3. 1 \in 1 .. 2 /\ 2 \in 1 .. 2 /\ 1 \in 1 .. 1 /\ 2 + 1 = 3
    OBVIOUS
  <2>4. /\ Len(head) = Len(<<x, y>>) + Len(<<fs.vrt_size>>)
        /\ \A k \in 1 .. Len(<<x, y>>) : head[k] = <<x, y>>[k]
        /\ \A k \in 1 .. Len(<<fs.vrt_size>>) :
             head[Len(<<x, y>>) + k] = <<fs.vrt_size>>[k]
    BY <2>1, Joined
  <2>5. head \in Seq(Byte)
    BY <2>1
  <2> HIDE DEF head
  <2> QED BY <2>2, <2>3, <2>4, <2>5
<1>5. Len(tail) = m /\ tail \in Seq(Byte)
  <2>1. \A k \in 1 .. m : EntryBytes(e)[1 + ((k - 1) % 3)] \in Byte
    <3> TAKE k \in 1 .. m
    <3>1. e.bit \in Byte /\ e.prob[1] \in Byte /\ e.prob[2] \in Byte
      BY DEF VrtEntry, Byte2
    <3>2. 1 + ((k - 1) % 3) \in {1, 2, 3}
      BY <1>1
    <3>3. EntryBytes(e)[1] \in Byte /\ EntryBytes(e)[2] \in Byte /\ EntryBytes(e)[3] \in Byte
      BY <3>1 DEF EntryBytes
    <3> QED BY <3>2, <3>3
  <2>2. tail \in [1 .. m -> Byte]
    BY <2>1
  <2> HIDE DEF tail, m
  <2> QED BY <1>1, <2>2
<1>6. /\ EntryBytes(e)[1] = e.bit /\ EntryBytes(e)[2] = e.prob[1]
      /\ EntryBytes(e)[3] = e.prob[2]
  BY DEF EntryBytes
<1>7. \A j \in 1 .. fs.vrt_size :
        /\ tail[3 * (j - 1) + 1] = e.bit
        /\ tail[3 * (j - 1) + 2] = e.prob[1]
        /\ tail[3 * (j - 1) + 3] = e.prob[2]
  <2> TAKE j \in 1 .. fs.vrt_size
  <2>1. /\ 3 * (j - 1) + 1 \in 1 .. m /\ 3 * (j - 1) + 2 \in 1 .. m
        /\ 3 * (j - 1) + 3 \in 1 .. m
    BY <1>1
  <2>2. /\ 1 + (((3 * (j - 1) + 1) - 1) % 3) = 1
        /\ 1 + (((3 * (j - 1) + 2) - 1) % 3) = 2
        /\ 1 + (((3 * (j - 1) + 3) - 1) % 3) = 3
    BY <1>1
  <2> HIDE DEF m
  <2> QED BY <1>6, <2>1, <2>2
<1> HIDE DEF tail, head
<1>8. /\ \A k \in 1 .. m : (head \o tail)[3 + k] = tail[k]
      /\ \A k \in 1 .. 3 : (head \o tail)[k] = head[k]
  <2>1. head \in Seq(Byte) /\ tail \in Seq(Byte)
    BY <1>4, <1>5
  <2>2. /\ \A k \in 1 .. Len(tail) : (head \o tail)[Len(head) + k] = tail[k]
        /\ \A k \in 1 .. Len(head) : (head \o tail)[k] = head[k]
    BY ONLY <2>1, Joined
  <2> QED BY <1>4, <1>5, <2>2, Zenon
<1>9. (head \o tail)[1] = x /\ (head \o tail)[2] = y /\ (head \o tail)[3] = fs.vrt_size
  <2>1. 1 \in 1 .. 3 /\ 2 \in 1 .. 3 /\ 3 \in 1 .. 3
    OBVIOUS
  <2> QED BY <1>4, <1>8, <2>1
<1>10. \A j \in 1 .. fs.vrt_size :
         /\ (head \o tail)[3 + 3 * (j - 1) + 1] = e.bit
         /\ (head \o tail)[3 + 3 * (j - 1) + 2] = e.prob[1]
         /\ (head \o tail)[3 + 3 * (j - 1) + 3] = e.prob[2]
  <2> TAKE j \in 1 .. fs.vrt_size
  <2>1. /\ 3 * (j - 1) + 1 \in 1 .. m /\ 3 * (j - 1) + 2 \in 1 .. m
        /\ 3 * (j - 1) + 3 \in 1 .. m
        /\ 3 + 3 * (j - 1) + 1 = 3 + (3 * (j - 1) + 1)
        /\ 3 + 3 * (j - 1) + 2 = 3 + (3 * (j - 1) + 2)
        /\ 3 + 3 * (j - 1) + 3 = 3 + (3 * (j - 1) + 3)
    BY <1>1
  <2> HIDE DEF m
  <2>2. /\ (head \o tail)[3 + (3 * (j - 1) + 1)] = tail[3 * (j - 1) + 1]
        /\ (head \o tail)[3 + (3 * (j - 1) + 2)] = tail[3 * (j - 1) + 2]
        /\ (head \o tail)[3 + (3 * (j - 1) + 3)] = tail[3 * (j - 1) + 3]
    BY ONLY <1>8, <2>1
  <2> QED BY <1>7, <2>1, <2>2, Zenon
<1>11. fs.hardfault[1] = x /\ fs.hardfault[2] = y
  BY <1>2
<1> QED BY <1>3, <1>9, <1>10, <1>11, Zenon

\* What one turn of Read reads into a struct that is still cleared.
SizeRead == Bytes(get + 2, 1, <<0>>)[1]
PairsRead == PairsFrom(get + 3, SizeRead)
NewStruct ==
  [hardfault |-> Bytes(get, 2, <<0, 0>>),
   vrt_size  |-> SizeRead,
   vrt       |-> <<>> \o EntriesRead(SizeRead, PairsRead)]

(* A read of one byte and one of two, as values. *)
LEMMA ReadsReturn ==
  ASSUME get \in Nat, Len(file) \in Nat
  PROVE  /\ SizeRead = IF get + 3 <= Len(file) THEN file[get + 3] ELSE 0
         /\ NewStruct.hardfault =
              <<IF get + 1 <= Len(file) THEN file[get + 1] ELSE 0,
                IF get + 2 <= Len(file) THEN file[get + 2] ELSE 0>>
<1>1. SizeRead = IF get + 2 + 1 <= Len(file) THEN file[get + 2 + 1] ELSE 0
  BY DEF SizeRead, Bytes
<1>2. get + 2 + 1 = get + 3
  OBVIOUS
<1> DEFINE f == Bytes(get, 2, <<0, 0>>)
<1>3. f = [b \in 1 .. 2 |-> IF get + b <= Len(file) THEN file[get + b] ELSE <<0, 0>>[b]]
  BY DEF Bytes
<1>4. /\ f[1] = IF get + 1 <= Len(file) THEN file[get + 1] ELSE 0
      /\ f[2] = IF get + 2 <= Len(file) THEN file[get + 2] ELSE 0
  BY <1>3
<1>5. f = <<f[1], f[2]>>
  BY <1>3, TwoBytes
<1>6. NewStruct.hardfault = f
  BY DEF NewStruct
<1> HIDE DEF f
<1> QED BY <1>1, <1>2, <1>4, <1>5, <1>6, Zenon

(* Behind the end of the file a turn leaves the struct cleared. *)
LEMMA NothingRead ==
  ASSUME get \in Nat, Len(file) \in Nat, Len(file) <= get
  PROVE  SizeRead = 0 /\ NewStruct = Cleared
<1>1. /\ ~ get + 1 <= Len(file) /\ ~ get + 2 <= Len(file) /\ ~ get + 3 <= Len(file)
  OBVIOUS
<1>2. SizeRead = 0 /\ NewStruct.hardfault = <<0, 0>>
  BY <1>1, ReadsReturn, Zenon
<1>3. <<>> \o EntriesRead(0, PairsRead) = <<>>
  <2>1. EntriesRead(0, PairsRead) = <<>>
    BY DEF EntriesRead
  <2> QED BY <2>1
<1>4. NewStruct.vrt = <<>> /\ NewStruct.vrt_size = 0
  BY <1>2, <1>3 DEF NewStruct
<1>5. NewStruct = [hardfault |-> NewStruct.hardfault, vrt_size |-> NewStruct.vrt_size,
                   vrt |-> NewStruct.vrt]
  BY DEF NewStruct
<1> QED BY <1>2, <1>4, <1>5 DEF Cleared

(* The bytes of the file at turn n, while Read is in step. *)
LEMMA FileAtTurn ==
  ASSUME LoadInv, FileIsPrefix, wturn <= Turns(wconfig),
         NEW off \in Offsets, Recorded(off),
         NEW n \in 0 .. wturn - 1, get = off[n]
  PROVE  \E e \in EntriesAt(n) :
           \A k \in 1 .. StructSize(n) :
             get + k <= Len(file) => file[get + k] = StructBytes(StructAt(n), e)[k]
<1>1. PICK e \in EntriesAt(n) : \A k \in 1 .. StructSize(n) :
            written[off[n] + k] = StructBytes(StructAt(n), e)[k]
  BY DEF Recorded
<1>2. BytesOK /\ get \in Nat /\ Len(file) \in Nat /\ Len(written) \in Nat
  BY DEF LoadInv, BytesOK
<1>3. n \in Nat /\ n < Turns(wconfig)
  <2>1. wturn \in Nat
    BY DEF LoadInv, BytesOK
  <2>2. Turns(wconfig) \in Nat
    BY TurnsAreCounted DEF LoadInv, BytesOK
  <2> QED BY <2>1, <2>2
<1>4. StructSize(n) \in Nat
  BY <1>2, <1>3, StructsAreStructs
<1>5. \A k \in 1 .. StructSize(n) : get + k <= Len(file) => get + k \in 1 .. Len(file)
  BY <1>2, <1>4
<1>6. \A k \in 1 .. StructSize(n) : get + k <= Len(file) =>
             file[get + k] = StructBytes(StructAt(n), e)[k]
  BY <1>1, <1>5 DEF FileIsPrefix
<1> QED BY <1>6

(* Entry i of v is within its struct, and the struct within the file. *)
LEMMA EntryFits ==
  ASSUME NEW g \in Nat, NEW L \in Nat, NEW v \in Nat, NEW i \in Nat, i < v,
         g + (3 + 3 * v) <= L, NEW k \in {1, 2, 3}
  PROVE  /\ (g + 3 + 3 * i) + k = g + ((3 + 3 * i) + k)
         /\ (3 + 3 * i) + k \in 1 .. 3 + 3 * v
         /\ (g + 3 + 3 * i) + k <= L
<1>1. k \in 1 .. 3 /\ i + 1 <= v
  OBVIOUS
<1>2. 3 * i + 3 <= 3 * v
  BY <1>1
<1> QED BY <1>1, <1>2

(* The struct of turn n, or the part of it that the file still has. *)
LEMMA TurnReadsBack ==
  ASSUME LoadInv, FileIsPrefix, wturn <= Turns(wconfig),
         NEW off \in Offsets, Recorded(off),
         NEW n \in 0 .. wturn - 1, get = off[n]
  PROVE  /\ get + 3 <= Len(file) =>
              /\ SizeRead = StructAt(n).vrt_size
              /\ NewStruct.hardfault = StructAt(n).hardfault
         /\ ~ get + 3 <= Len(file) => SizeRead = 0
         /\ \A b \in 1 .. 2 : NewStruct.hardfault[b] \in {0, StructAt(n).hardfault[b]}
         /\ file = written => \A j \in 1 .. SizeRead : PairsRead[j] \in EntriesAt(n)
<1> DEFINE fs == StructAt(n)
<1>1. BytesOK /\ get \in Nat /\ Len(file) \in Nat
  BY DEF LoadInv, BytesOK
<1>2. n \in Nat /\ n < Turns(wconfig)
  <2>1. wturn \in Nat
    BY DEF LoadInv, BytesOK
  <2>2. Turns(wconfig) \in Nat
    BY TurnsAreCounted DEF LoadInv, BytesOK
  <2> QED BY <2>1, <2>2
<1>3. fs \in FaultStruct /\ EntriesAt(n) \subseteq VrtEntry
  BY <1>1, <1>2, StructsAreStructs
<1>4. StructSize(n) \in Nat /\ 3 <= StructSize(n) /\ StructSize(n) = 3 + 3 * fs.vrt_size
  BY <1>1, <1>2, StructsAreStructs DEF StructSize
<1>5. PICK e \in EntriesAt(n) :
         \A k \in 1 .. StructSize(n) :
           get + k <= Len(file) => file[get + k] = StructBytes(fs, e)[k]
  BY FileAtTurn
<1> HIDE DEF fs
<1> DEFINE t == StructBytes(fs, e)
<1>6. e \in VrtEntry
  BY <1>3
<1>7. /\ t[1] = fs.hardfault[1] /\ t[2] = fs.hardfault[2] /\ t[3] = fs.vrt_size
      /\ \A j \in 1 .. fs.vrt_size :
                 /\ t[3 + 3 * (j - 1) + 1] = e.bit
                 /\ t[3 + 3 * (j - 1) + 2] = e.prob[1]
                 /\ t[3 + 3 * (j - 1) + 3] = e.prob[2]
  BY <1>3, <1>6, StructFields
<1> HIDE DEF t
<1>8. \A k \in 1 .. StructSize(n) : get + k <= Len(file) => file[get + k] = t[k]
  BY <1>5 DEF t
<1>9. 1 \in 1 .. StructSize(n) /\ 2 \in 1 .. StructSize(n) /\ 3 \in 1 .. StructSize(n)
  BY <1>4
<1>10. /\ get + 1 <= Len(file) => file[get + 1] = fs.hardfault[1]
       /\ get + 2 <= Len(file) => file[get + 2] = fs.hardfault[2]
       /\ get + 3 <= Len(file) => file[get + 3] = fs.vrt_size
  BY <1>7, <1>8, <1>9
<1>11. /\ SizeRead = IF get + 3 <= Len(file) THEN fs.vrt_size ELSE 0
       /\ NewStruct.hardfault =
            <<IF get + 1 <= Len(file) THEN fs.hardfault[1] ELSE 0,
              IF get + 2 <= Len(file) THEN fs.hardfault[2] ELSE 0>>
  BY <1>1, <1>10, ReadsReturn, Zenon
<1>12. fs.hardfault = <<fs.hardfault[1], fs.hardfault[2]>>
  <2>1. fs.hardfault \in Byte \X Byte
    BY <1>3 DEF FaultStruct, Byte2
  <2> QED BY <2>1
<1>13. ASSUME get + 3 <= Len(file)
       PROVE  SizeRead = fs.vrt_size /\ NewStruct.hardfault = fs.hardfault
  <2>1. get + 1 <= Len(file) /\ get + 2 <= Len(file)
    BY <1>1, <1>13
  <2> QED BY <1>11, <1>12, <1>13, <2>1, Zenon
<1>14. ASSUME NEW b \in 1 .. 2
       PROVE  NewStruct.hardfault[b] \in {0, fs.hardfault[b]}
  <2>1. b = 1 \/ b = 2
    OBVIOUS
  <2> QED BY <1>11, <2>1
<1>15. ASSUME file = written, NEW j \in 1 .. SizeRead
       PROVE  PairsRead[j] \in EntriesAt(n)
  <2>1. get + StructSize(n) <= Len(file)
    <3>1. off[n + 1] <= Len(written) /\ off[n + 1] = off[n] + StructSize(n)
      BY DEF Recorded, Offsets
    <3> QED BY <1>15, <3>1
  <2>2. get + 3 <= Len(file)
    BY <1>1, <1>4, <2>1
  <2>3. SizeRead = fs.vrt_size /\ fs.vrt_size \in Nat
    <3>1. fs.vrt_size \in Byte
      BY <1>3 DEF FaultStruct
    <3>2. SizeRead = fs.vrt_size
      BY <1>13, <2>2
    <3> QED BY <3>1, <3>2 DEF Byte
  <2>4. j \in 1 .. fs.vrt_size
    BY <2>3
  <2> DEFINE o == get + 3 + 3 * (j - 1)
             p == PairsRead
  <2>5. /\ o = get + (3 + 3 * (j - 1))
        /\ o + 1 = get + (3 + 3 * (j - 1) + 1) /\ 3 + 3 * (j - 1) + 1 \in 1 .. StructSize(n)
        /\ o + 2 = get + (3 + 3 * (j - 1) + 2) /\ 3 + 3 * (j - 1) + 2 \in 1 .. StructSize(n)
        /\ o + 3 = get + (3 + 3 * (j - 1) + 3) /\ 3 + 3 * (j - 1) + 3 \in 1 .. StructSize(n)
        /\ o \in Nat
        /\ o + 1 <= Len(file) /\ o + 2 <= Len(file) /\ o + 3 <= Len(file)
    <3> DEFINE v == fs.vrt_size
               i == j - 1
    <3>1. v \in Nat /\ i \in Nat /\ i < v
      BY <2>3, <2>4
    <3>2. StructSize(n) = 3 + 3 * v /\ get + (3 + 3 * v) <= Len(file)
      BY <1>4, <2>1
    <3> HIDE DEF v, i
    <3>3. \A k \in {1, 2, 3} : /\ (get + 3 + 3 * i) + k = get + ((3 + 3 * i) + k)
                               /\ (3 + 3 * i) + k \in 1 .. 3 + 3 * v
                               /\ (get + 3 + 3 * i) + k <= Len(file)
      <4> TAKE k \in {1, 2, 3}
      <4>1. get \in Nat /\ Len(file) \in Nat /\ get + (3 + 3 * v) <= Len(file)
        BY <1>1, <3>2
      <4> QED BY ONLY <4>1, <3>1, EntryFits
    <3>4. o = get + 3 + 3 * i /\ get + 3 + 3 * i = get + (3 + 3 * i) /\ get + 3 + 3 * i \in Nat
      BY <1>1, <3>1 DEF i
    <3>5. 1 \in {1, 2, 3} /\ 2 \in {1, 2, 3} /\ 3 \in {1, 2, 3}
      OBVIOUS
    <3> HIDE DEF o
    <3> QED BY <3>2, <3>3, <3>4, <3>5, Zenon DEF i
  <2> HIDE DEF o
  <2>7. file[o + 1] = e.bit /\ file[o + 2] = e.prob[1] /\ file[o + 3] = e.prob[2]
    <3>1. /\ file[o + 1] = t[3 + 3 * (j - 1) + 1] /\ file[o + 2] = t[3 + 3 * (j - 1) + 2]
          /\ file[o + 3] = t[3 + 3 * (j - 1) + 3]
      BY <1>8, <2>5
    <3> QED BY <1>7, <2>4, <3>1
  <2>8. p[j] = NextPair(get + 3, j, p[j - 1])
    <3>1. SizeRead \in Nat
      BY <2>3
    <3>2. p = [i \in 0 .. SizeRead |-> IF i = 0 THEN temp_pair ELSE NextPair(get + 3, i, p[i - 1])]
      BY <3>1, PairsFromIsDefined DEF PairsUpTo, PairsRead
    <3> HIDE DEF p
    <3>3. j \in 0 .. SizeRead /\ j # 0
      BY <2>3, <2>4
    <3> QED BY <3>2, <3>3
  <2> HIDE DEF p
  <2>9. Bytes(o, 1, <<p[j - 1].bit>>)[1] = e.bit
    <3>1. Bytes(o, 1, <<p[j - 1].bit>>)[1] =
            IF o + 1 <= Len(file) THEN file[o + 1] ELSE p[j - 1].bit
      BY DEF Bytes
    <3> QED BY <2>5, <2>7, <3>1, Zenon
  <2>10. Bytes(o + 1, 2, p[j - 1].prob) = e.prob
    <3> DEFINE f == Bytes(o + 1, 2, p[j - 1].prob)
    <3>1. f = [b \in 1 .. 2 |-> IF (o + 1) + b <= Len(file) THEN file[(o + 1) + b]
                                ELSE p[j - 1].prob[b]]
      BY DEF Bytes
    <3>2. (o + 1) + 1 = o + 2 /\ (o + 1) + 2 = o + 3
      BY <2>5
    <3>3. f[1] = file[o + 2] /\ f[2] = file[o + 3]
      BY <2>5, <3>1, <3>2
    <3>4. f = <<f[1], f[2]>>
      BY <3>1, TwoBytes
    <3>5. e.prob = <<e.prob[1], e.prob[2]>>
      <4>1. e.prob \in Byte \X Byte
        BY <1>6 DEF VrtEntry, Byte2
      <4> QED BY <4>1
    <3> HIDE DEF f
    <3>6. f = e.prob
      BY <2>7, <3>3, <3>4, <3>5, Zenon
    <3> QED BY <3>6 DEF f
  <2>11. p[j] = [bit |-> e.bit, prob |-> e.prob]
    BY <2>8, <2>9, <2>10, Zenon DEF NextPair, o
  <2>12. e = [bit |-> e.bit, prob |-> e.prob]
    BY <1>6 DEF VrtEntry
  <2> QED BY <2>11, <2>12 DEF p
<1>16. ~ get + 3 <= Len(file) => SizeRead = 0
  BY <1>11
<1> QED BY <1>13, <1>14, <1>15, <1>16 DEF fs

(* What ReadColumn does, in terms of turns. *)
LEMMA TurnOfRead ==
  ASSUME LoadInv, rturn <= Turns(rconfig), ReadColumn
  PROVE  /\ phase = "reading" /\ phase' = "reading"
         /\ rturn \in Nat /\ rturn < Turns(rconfig) /\ rturn' = rturn + 1
         /\ get' = get + 3 + 3 * SizeRead
         /\ UNCHANGED <<wconfig, fault_map, rconfig, wturn, written, file>>
         /\ \A n \in Nat : n = rturn => ReadAt(n)' = NewStruct
         /\ \A n \in Nat : n < rturn => ReadAt(n)' = ReadAt(n)
<1> DEFINE at == Coordinate(rconfig, rturn)
           fs == loaded[at]
<1>1. /\ phase = "reading" /\ phase' = "reading"
      /\ rturn \in Nat /\ rturn < Turns(rconfig) /\ rturn' = rturn + 1
      /\ UNCHANGED <<wconfig, fault_map, rconfig, wturn, written, file>>
      /\ rconfig \in Configs /\ Turns(rconfig) \in Nat
  BY TurnsAreCounted DEF ReadColumn, LoadInv, BytesOK
<1>2. fs = Cleared
  <2>1. \A n \in Nat : rturn <= n /\ n < Turns(rconfig) =>
                        loaded[Coordinate(rconfig, n)] = Cleared
    <3> HIDE DEF at, fs
    <3> QED BY <1>1 DEF LoadInv, ToReadIsCleared, Loading
  <2>2. rturn <= rturn
    BY <1>1
  <2> QED BY <1>1, <2>1, <2>2, Zenon
<1>3. fs.hardfault = <<0, 0>> /\ fs.vrt_size = 0 /\ fs.vrt = <<>>
  BY <1>2 DEF Cleared
<1>4. /\ loaded' = [loaded EXCEPT ![at] =
                      [hardfault |-> Bytes(get, 2, fs.hardfault),
                       vrt_size  |-> Bytes(get + 2, 1, <<fs.vrt_size>>)[1],
                       vrt |-> fs.vrt \o EntriesRead(Bytes(get + 2, 1, <<fs.vrt_size>>)[1],
                                 PairsFrom(get + 3, Bytes(get + 2, 1, <<fs.vrt_size>>)[1]))]]
      /\ get' = get + 3 + 3 * Bytes(get + 2, 1, <<fs.vrt_size>>)[1]
  BY Zenon DEF ReadColumn
<1>5. loaded' = [loaded EXCEPT ![at] = NewStruct] /\ get' = get + 3 + 3 * SizeRead
  <2> HIDE DEF fs, at
  <2> QED BY <1>3, <1>4, Zenon DEF NewStruct, SizeRead, PairsRead
<1>6. loaded = [x \in Coordinates(rconfig) |-> loaded[x]]
  BY <1>1 DEF LoadInv, LoadedHasShape, Loading
<1>7. at \in Coordinates(rconfig)
  BY <1>1, TurnHasCoordinate
<1> HIDE DEF fs
<1>8. \A n \in Nat : n = rturn => ReadAt(n)' = NewStruct
  <2>1. loaded'[at] = NewStruct
    <3> HIDE DEF at
    <3> QED BY <1>5, <1>6, <1>7
  <2>2. \A n \in Nat : ReadAt(n)' = loaded'[Coordinate(rconfig, n)]
    BY <1>1 DEF ReadAt
  <2> QED BY <2>1, <2>2
<1>9. ASSUME NEW n \in Nat, n < rturn
      PROVE  ReadAt(n)' = ReadAt(n)
  <2>1. n < Turns(rconfig)
    BY <1>1, <1>9
  <2>2. Coordinate(rconfig, n) # at
    <3>1. n # rturn
      BY <1>1, <1>9
    <3> QED BY <1>1, <2>1, <3>1, NoCoordinateTwice
  <2>3. Coordinate(rconfig, n) \in Coordinates(rconfig)
    BY <1>1, <2>1, TurnHasCoordinate
  <2> HIDE DEF at
  <2>4. loaded'[Coordinate(rconfig, n)] = loaded[Coordinate(rconfig, n)]
    BY <1>5, <1>6, <2>2, <2>3
  <2> QED BY <1>1, <2>4 DEF ReadAt
<1> QED BY <1>1, <1>5, <1>8, <1>9

(* One turn of Read reads the struct Write has put there, or the part of it   *)
(* the file still has, or nothing.                                            *)
LEMMA ReadColumnKeepsMapInv ==
  ASSUME LoadInv, MapInv, ReadColumn
  PROVE  MapInv'
<1>1. /\ phase = "reading" /\ phase' = "reading"
      /\ rturn \in Nat /\ rturn < Turns(rconfig) /\ rturn' = rturn + 1
      /\ get' = get + 3 + 3 * SizeRead
      /\ UNCHANGED <<wconfig, fault_map, rconfig, wturn, written, file>>
      /\ \A n \in Nat : n = rturn => ReadAt(n)' = NewStruct
      /\ \A n \in Nat : n < rturn => ReadAt(n)' = ReadAt(n)
  BY TurnOfRead DEF MapInv
<1>2. /\ BytesOK /\ wturn \in Nat /\ get \in Nat /\ Len(file) \in Nat /\ Len(written) \in Nat
      /\ rconfig \in Configs /\ wconfig \in Configs
  BY DEF LoadInv, BytesOK
<1>3. Turns(rconfig) \in Nat /\ Turns(wconfig) \in Nat
  BY <1>2, TurnsAreCounted
<1>4. FileIsPrefix /\ wturn <= Turns(wconfig) /\ FileIsPrefix'
  BY <1>1 DEF MapInv, FileIsPrefix
<1>5. /\ Loading /\ Loading'
      /\ SameMemory' = SameMemory
  BY <1>1 DEF Loading, SameMemory, Divides
<1>6. PICK off \in Offsets : Recorded(off) /\ (SameMemory => SoFar(off))
  BY <1>1, <1>5 DEF MapInv
<1>7. off \in Offsets' /\ Recorded(off)'
  BY <1>1, <1>6 DEF Offsets, Recorded, StructSize, StructAt, EntriesAt
<1>8. ASSUME SameMemory PROVE SoFar(off)'
  <2>1. PICK cut \in 0 .. rturn : ReadUpTo(cut) /\ (InStep(off, cut) \/ Behind)
    BY <1>6, <1>8 DEF SoFar
  <2>2. /\ off \in [0 .. wturn -> Nat]
        /\ \A n \in 0 .. wturn - 1 : off[n + 1] = off[n] + StructSize(n)
        /\ off[wturn] = Len(written)
        /\ \A n \in 0 .. wturn - 1 : off[n + 1] <= Len(written)
    BY <1>6 DEF Offsets, Recorded
  <2>3. /\ Whole' = Whole
        /\ \A n \in Nat : /\ StructAt(n)' = StructAt(n) /\ StructSize(n)' = StructSize(n)
                          /\ EntriesAt(n)' = EntriesAt(n)
    BY <1>1 DEF Whole, StructAt, StructSize, EntriesAt
  \* The turns done before are as they were.
  <2>4. ASSUME NEW n \in 0 .. rturn - 1
        PROVE  /\ n < cut => Agrees(n)'
               /\ cut < n => ReadAt(n)' = Cleared
               /\ HalfRead(n)'
               /\ Whole => OwnEntries(n)'
    <3>1. n \in Nat /\ n < rturn
      BY <1>1
    <3>2. ReadAt(n)' = ReadAt(n) /\ StructAt(n)' = StructAt(n) /\ EntriesAt(n)' = EntriesAt(n)
      BY <1>1, <2>3, <3>1
    <3>3. /\ Agrees(n)' = Agrees(n) /\ HalfRead(n)' = HalfRead(n)
          /\ OwnEntries(n)' = OwnEntries(n)
      BY <3>2 DEF Agrees, HalfRead, OwnEntries
    <3>4. /\ n < cut => Agrees(n)
          /\ cut < n => ReadAt(n) = Cleared
          /\ HalfRead(n)
          /\ Whole => OwnEntries(n)
      BY <2>1 DEF ReadUpTo
    <3> QED BY <3>2, <3>3, <3>4
  \* It is enough to look at the turn just done.
  <2>5. ASSUME NEW c \in {cut, rturn + 1},
               c = rturn + 1 => cut = rturn,
               c = rturn + 1 \/ c = rturn \/ NewStruct = Cleared,
               \A n \in Nat : n = rturn =>
                 (n < c => Agrees(n)') /\ HalfRead(n)' /\ (Whole => OwnEntries(n)'),
               InStep(off, c)' \/ Behind'
        PROVE  SoFar(off)'
    <3>2. c \in 0 .. rturn'
      BY <1>1, <2>5
    <3>3. ASSUME NEW n \in 0 .. rturn' - 1
          PROVE  /\ n < c => Agrees(n)'
                 /\ c < n => ReadAt(n)' = Cleared
                 /\ HalfRead(n)'
                 /\ Whole => OwnEntries(n)'
      <4>1. n \in Nat /\ (n \in 0 .. rturn - 1 \/ n = rturn)
        BY <1>1
      <4>2. CASE n \in 0 .. rturn - 1
        <5>1. (n < c => n < cut) /\ (c < n => cut < n)
          BY <1>1, <2>5, <4>2
        <5> QED BY <2>4, <4>2, <5>1
      <4>3. CASE n = rturn
        <5>1. ReadAt(n)' = NewStruct
          BY <1>1, <4>1, <4>3
        <5>2. c < n => NewStruct = Cleared
          BY <1>1, <2>5, <4>3
        <5> QED BY <2>5, <4>1, <4>3, <5>1, <5>2
      <4> QED BY <4>1, <4>2, <4>3
    <3>4. ReadUpTo(c)'
      BY <2>3, <3>3 DEF ReadUpTo
    <3> QED BY <2>5, <3>2, <3>4 DEF SoFar
  \* Nothing is left to read.
  <2>6. CASE Len(file) <= get /\ ~ Whole
    <3>1. SizeRead = 0 /\ NewStruct = Cleared
      BY <1>2, <2>6, NothingRead
    <3>2. \A n \in Nat : n = rturn => ReadAt(n)' = Cleared
      BY <1>1, <3>1
    <3>3. \A n \in Nat : n = rturn =>
             (n < cut => Agrees(n)') /\ HalfRead(n)' /\ (Whole => OwnEntries(n)')
      <4> TAKE n \in Nat
      <4> HAVE n = rturn
      <4>1. ~ n < cut
        BY <1>1
      <4>2. HalfRead(n)'
        <5>1. \A b \in 1 .. 2 : Cleared.hardfault[b] = 0
          BY DEF Cleared
        <5> QED BY <3>2, <5>1 DEF HalfRead
      <4> QED BY <2>6, <4>1, <4>2
    <3>4. Behind'
      BY <1>1, <1>2, <2>3, <2>6, <3>1 DEF Behind
    <3>5. cut = rturn + 1 => cut = rturn
      BY <1>1
    <3> QED BY <2>5, <3>1, <3>3, <3>4, <3>5
  \* The file goes on here.
  <2>7. CASE InStep(off, cut) /\ rturn < wturn
    <3>1. cut = rturn /\ get = off[rturn] /\ rturn \in 0 .. wturn - 1
      BY <1>1, <1>2, <2>7 DEF InStep
    <3>2. /\ get + 3 <= Len(file) =>
               /\ SizeRead = StructAt(rturn).vrt_size
               /\ NewStruct.hardfault = StructAt(rturn).hardfault
          /\ ~ get + 3 <= Len(file) => SizeRead = 0
          /\ \A b \in 1 .. 2 : NewStruct.hardfault[b] \in {0, StructAt(rturn).hardfault[b]}
          /\ file = written => \A j \in 1 .. SizeRead : PairsRead[j] \in EntriesAt(rturn)
      BY <1>4, <1>6, <3>1, TurnReadsBack
    <3>3. /\ off[rturn + 1] = get + StructSize(rturn)
          /\ off[rturn + 1] <= Len(written)
          /\ StructSize(rturn) = 3 + 3 * StructAt(rturn).vrt_size
          /\ 3 <= StructSize(rturn) /\ StructSize(rturn) \in Nat
          /\ StructAt(rturn).vrt_size \in Nat
      <4>1. /\ off[rturn + 1] = get + StructSize(rturn)
            /\ off[rturn + 1] <= Len(written)
        BY <2>2, <3>1
      <4>2. rturn < Turns(wconfig)
        BY <1>1, <1>2, <1>3, <1>4, <2>7
      <4>3. StructSize(rturn) \in Nat /\ 3 <= StructSize(rturn) /\ StructAt(rturn) \in FaultStruct
        BY <1>1, <1>2, <4>2, StructsAreStructs
      <4>4. StructAt(rturn).vrt_size \in Byte
        BY <4>3 DEF FaultStruct
      <4>5. StructAt(rturn).vrt_size \in Nat
        BY <4>4 DEF Byte
      <4>6. StructSize(rturn) = 3 + 3 * StructAt(rturn).vrt_size
        BY DEF StructSize
      <4> QED BY <4>1, <4>3, <4>5, <4>6
    <3>4. Whole => get + 3 <= Len(file)
      BY <1>2, <3>3 DEF Whole
    <3>5. ASSUME NEW n \in Nat, n = rturn
          PROVE  HalfRead(n)'
      <4>1. ReadAt(n)' = NewStruct /\ StructAt(n)' = StructAt(rturn)
        BY <1>1, <2>3, <3>5
      <4> QED BY <3>2, <4>1 DEF HalfRead
    <3>6. ASSUME NEW n \in Nat, n = rturn, Whole
          PROVE  OwnEntries(n)'
      <4>1. ReadAt(n)' = NewStruct /\ EntriesAt(n)' = EntriesAt(rturn)
        BY <1>1, <2>3, <3>6
      <4>2. \A j \in 1 .. SizeRead : PairsRead[j] \in EntriesAt(rturn)
        BY <3>2, <3>6 DEF Whole
      <4>3. SizeRead \in Nat
        BY <3>2, <3>3, <3>4, <3>6
      <4>4. /\ Len(NewStruct.vrt) = SizeRead
            /\ \A j \in 1 .. SizeRead : NewStruct.vrt[j] = PairsRead[j]
        <5> DEFINE new == EntriesRead(SizeRead, PairsRead)
        <5>1. new = [j \in 1 .. SizeRead |-> PairsRead[j]]
          BY DEF EntriesRead
        <5>2. new = [j \in 1 .. SizeRead |-> new[j]]
          BY <5>1
        <5>3. NewStruct.vrt = <<>> \o new
          BY DEF NewStruct
        <5> HIDE DEF new
        <5>4. Len(new) = SizeRead /\ new \in Seq({new[j] : j \in 1 .. SizeRead})
          BY <4>3, <5>2, SequenceOf
        <5>5. <<>> \o new = new
          BY <5>4
        <5> QED BY <5>1, <5>3, <5>4, <5>5
      <4> QED BY <4>1, <4>2, <4>4 DEF OwnEntries
    <3>7. CASE get + 3 <= Len(file)
      <4> PICK c \in {cut, rturn + 1} : c = rturn + 1
        OBVIOUS
      <4>1. InStep(off, c)'
        <5>1. get' = get + 3 + 3 * StructAt(rturn).vrt_size
          BY <1>1, <3>2, <3>7
        <5>2. get' = off[rturn + 1]
          <6>1. PICK g \in Nat, v \in Nat : g = get /\ v = StructAt(rturn).vrt_size
            BY <1>2, <3>3
          <6>2. get' = g + 3 + 3 * v /\ off[rturn + 1] = g + (3 + 3 * v)
            BY ONLY <3>3, <5>1, <6>1
          <6> QED BY ONLY <6>1, <6>2
        <5>3. c = rturn' /\ rturn' <= wturn' /\ get' = off[rturn']
          BY <1>1, <1>2, <2>7, <5>2
        <5> QED BY <5>3 DEF InStep
      <4>2. ASSUME NEW n \in Nat, n = rturn
            PROVE  Agrees(n)'
        <5>1. ReadAt(n)' = NewStruct /\ StructAt(n)' = StructAt(rturn)
          BY <1>1, <2>3, <4>2
        <5>2. NewStruct.vrt_size = SizeRead
          BY DEF NewStruct
        <5> QED BY <3>2, <3>7, <5>1, <5>2 DEF Agrees
      <4>3. \A n \in Nat : n = rturn =>
              (n < c => Agrees(n)') /\ HalfRead(n)' /\ (Whole => OwnEntries(n)')
        BY <3>5, <3>6, <4>2
      <4> QED BY <2>5, <3>1, <4>1, <4>3
    <3>8. CASE ~ get + 3 <= Len(file)
      <4>1. Behind'
        <5>1. get' = get + 3
          BY <1>1, <1>2, <3>2, <3>8
        <5> QED BY <1>1, <1>2, <2>3, <3>4, <3>8, <5>1 DEF Behind
      <4>2. \A n \in Nat : n = rturn =>
              (n < cut => Agrees(n)') /\ HalfRead(n)' /\ (Whole => OwnEntries(n)')
        BY <3>1, <3>5, <3>6
      <4>3. cut = rturn + 1 => cut = rturn
        BY <3>1
      <4> QED BY <2>5, <3>1, <4>1, <4>2, <4>3
    <3> QED BY <3>7, <3>8
  \* All that was written is read.
  <2>8. CASE InStep(off, cut) /\ ~ rturn < wturn
    <3>1. rturn = wturn /\ get = off[wturn]
      BY <1>1, <1>2, <2>8 DEF InStep
    <3>2. Len(file) <= get
      BY <1>4, <2>2, <3>1 DEF FileIsPrefix
    <3>3. ~ Whole
      <4>1. Turns(wconfig) = Turns(rconfig)
        BY <1>2, <1>8, SharedSizes
      <4> QED BY <1>1, <1>2, <1>3, <3>1, <4>1 DEF Whole
    <3> QED BY <2>6, <3>2, <3>3
  <2> QED BY <2>1, <2>6, <2>7, <2>8 DEF Behind
<1>9. /\ wturn' <= Turns(wconfig') /\ rturn' <= Turns(rconfig')
      /\ phase' # "generated" /\ phase' # "loaded"
  BY <1>1, <1>3, <1>4
<1>10. Loading' /\ SameMemory' => SoFar(off)'
  BY <1>5, <1>8
<1> QED BY <1>4, <1>7, <1>9, <1>10 DEF MapInv

(* No step disturbs the places of the structs. *)
LEMMA MapStep ==
  ASSUME LoadInv, MapInv, [Next]_vars
  PROVE  MapInv'
<1>1. CASE WriteHeader
  BY <1>1, WriteHeaderKeepsMapInv
<1>2. CASE WriteColumn
  BY <1>2, WriteColumnKeepsMapInv
<1>3. CASE CloseWriter \/ WriterDies
  BY <1>3, StoredKeepsMapInv
<1>4. CASE ReadHeader
  BY <1>4, ReadHeaderKeepsMapInv
<1>5. CASE ReadColumn
  BY <1>5, ReadColumnKeepsMapInv
<1>6. CASE ReadDone \/ UNCHANGED vars
  <2>1. /\ UNCHANGED <<wconfig, fault_map, rconfig, loaded, wturn, rturn, written, file, get>>
        /\ Loading' = Loading
        /\ phase' = "generated" <=> phase = "generated"
        /\ phase' \notin {"generated", "unstored", "aborted"} =>
             phase \notin {"generated", "unstored", "aborted"}
        /\ phase' = "loaded" => phase = "loaded" \/ rturn = Turns(rconfig)
    BY <1>6 DEF ReadDone, vars, Loading
  <2>2. /\ SameMemory' = SameMemory /\ FileIsPrefix' = FileIsPrefix
        /\ Whole' = Whole /\ Behind' = Behind
        /\ Offsets' = Offsets
    BY <2>1 DEF SameMemory, Divides, FileIsPrefix, Whole, Behind, Offsets, StructSize, StructAt
  <2>3. \A off : /\ Recorded(off)' = Recorded(off)
                 /\ SoFar(off)' = SoFar(off)
    <3> TAKE off
    <3>1. Recorded(off)' = Recorded(off)
      BY <2>1 DEF Recorded, StructSize, StructAt, EntriesAt
    <3>2. \A cut : ReadUpTo(cut)' = ReadUpTo(cut) /\ InStep(off, cut)' = InStep(off, cut)
      BY <2>1, <2>2 DEF ReadUpTo, InStep, Agrees, HalfRead, OwnEntries, ReadAt, StructAt, EntriesAt
    <3> QED BY <2>1, <2>2, <3>1, <3>2 DEF SoFar
  <2> QED BY <2>1, <2>2, <2>3 DEF MapInv
<1>7. CASE WriterCannotOpen \/ ReaderCannotOpen
  BY <1>7, CannotOpenKeepsMapInv
<1> QED BY <1>1, <1>2, <1>3, <1>4, <1>5, <1>6, <1>7 DEF Next

(* Read follows Write through the file, until the file ends. *)
LEMMA MapIsInvariant == Spec => [](LoadInv /\ MapInv)
<1>1. LoadInv /\ MapInv /\ [Next]_vars => (LoadInv /\ MapInv)'
  BY LoadStep, MapStep
<1> QED BY LoadInit, MapInit, <1>1, PTL DEF Spec

(* Each column has one turn, at which Write has stored and Read has loaded    *)
(* it.                                                                        *)
LEMMA ColumnIsTurn ==
  ASSUME BytesOK, SameMemory, NEW x \in Columns
  PROVE  \E n \in Nat : /\ n < Turns(rconfig) /\ ColumnAt(rconfig, n) = x
                        /\ Loaded(x) = ReadAt(n) /\ Stored(x) = StructAt(n)
                        /\ EntriesAt(n) = IndexedEntries(Stored(x), x[1])
<1>1. rconfig \in Configs /\ wconfig \in Configs /\ Divides(rconfig) /\ Divides(wconfig)
  BY DEF BytesOK, SameMemory
<1>2. PICK n \in Nat : n < Turns(rconfig) /\ ColumnAt(rconfig, n) = x
  BY <1>1, ColumnHasTurn
<1>3. Coordinate(rconfig, n) = Split(rconfig, x)
  BY <1>1, <1>2, TurnIsColumn
<1>4. Coordinate(wconfig, n) = Split(wconfig, x)
  <2>1. ColumnAt(wconfig, n) = x
    BY <1>1, <1>2, SharedSizes
  <2> QED BY <1>1, <2>1, TurnIsColumn
<1>5. Split(wconfig, x)[1] = x[1]
  BY DEF Split
<1> QED BY <1>2, <1>3, <1>4, <1>5 DEF Loaded, Stored, ReadAt, StructAt, EntriesAt

(* After a complete map nothing is missing. *)
LEMMA WholeMapIsRead ==
  ASSUME LoadInv, MapInv, WholeMapLoaded
  PROVE  \A n \in Nat : n < Turns(rconfig) => Agrees(n) /\ OwnEntries(n)
<1>1. /\ phase = "loaded" /\ SameMemory /\ Whole /\ Loading
      /\ rturn = Turns(rconfig) /\ rturn \in Nat
  BY DEF WholeMapLoaded, Whole, Loading, MapInv, LoadInv, BytesOK
<1>2. PICK off \in Offsets : SoFar(off)
  BY <1>1 DEF MapInv
<1>3. ReadUpTo(rturn)
  <2>1. PICK cut \in 0 .. rturn : ReadUpTo(cut) /\ (InStep(off, cut) \/ Behind)
    BY <1>2 DEF SoFar
  <2> QED BY <1>1, <2>1 DEF InStep, Behind
<1> QED BY <1>1, <1>3 DEF ReadUpTo

(* A complete map puts every hard fault and every entry count back to the     *)
(* column it came from, also under another burst length: Write and Read       *)
(* regroup the columns, but turn n of their loops is at the same column.      *)
THEOREM WholeMapRestoresFaults == Spec => []HardFaultsSurvive
<1>1. ASSUME LoadInv, MapInv PROVE HardFaultsSurvive
  <2> SUFFICES ASSUME WholeMapLoaded, NEW x \in Columns
               PROVE  /\ Loaded(x).hardfault = Stored(x).hardfault
                      /\ Loaded(x).vrt_size = Stored(x).vrt_size
    BY DEF HardFaultsSurvive
  <2>1. PICK n \in Nat : n < Turns(rconfig) /\ Loaded(x) = ReadAt(n) /\ Stored(x) = StructAt(n)
    BY <1>1, ColumnIsTurn DEF WholeMapLoaded, LoadInv
  <2> QED BY <1>1, <2>1, WholeMapIsRead DEF Agrees
<1> QED BY MapIsInvariant, <1>1, PTL

(* No column loads an entry it did not have, unless Write has read behind the *)
(* end of a vector: what FaultMapWriter::Write puts down for a column of      *)
(* channel i, the loop's vrt[i], FaultMapReader::Read gives to that column.   *)
THEOREM EntriesStayHome == Spec => []NoForeignEntries
<1>1. ASSUME LoadInv, MapInv PROVE NoForeignEntries
  <2> SUFFICES ASSUME WholeMapLoaded, NEW x \in Columns, x[1] < Len(Stored(x).vrt),
                      NEW j \in 1 .. Len(Loaded(x).vrt)
               PROVE  \E k \in 1 .. Len(Stored(x).vrt) : Loaded(x).vrt[j] = Stored(x).vrt[k]
    BY DEF NoForeignEntries
  <2>1. PICK n \in Nat : /\ n < Turns(rconfig) /\ Loaded(x) = ReadAt(n)
                         /\ Stored(x) = StructAt(n)
                         /\ EntriesAt(n) = IndexedEntries(Stored(x), x[1])
    BY <1>1, ColumnIsTurn DEF WholeMapLoaded, LoadInv
  <2>2. Agrees(n) /\ OwnEntries(n)
    BY <1>1, <2>1, WholeMapIsRead
  <2>3. Loaded(x).vrt[j] \in IndexedEntries(Stored(x), x[1])
    BY <2>1, <2>2 DEF OwnEntries
  <2>4. Stored(x).vrt_size # 0
    <3>1. rconfig \in Configs /\ Loading
      BY <1>1 DEF LoadInv, BytesOK, WholeMapLoaded, Loading
    <3>2. Coordinate(rconfig, n) \in Coordinates(rconfig)
      BY <2>1, <3>1, TurnHasCoordinate
    <3>3. ReadAt(n).vrt_size = Len(ReadAt(n).vrt)
      BY <1>1, <3>1, <3>2 DEF LoadInv, LoadedSizesMatch, Loading, ReadAt
    <3>4. Stored(x).vrt_size = Len(Loaded(x).vrt)
      BY <2>1, <2>2, <3>3 DEF Agrees
    <3> QED BY <3>4
  <2>5. Loaded(x).vrt[j] = Stored(x).vrt[x[1] + 1]
    BY <2>3, <2>4 DEF IndexedEntries
  <2>6. x[1] + 1 \in 1 .. Len(Stored(x).vrt)
    <3>1. x[1] \in Nat
      <4>1. rconfig.channels \in Nat
        BY <1>1, ConfigSizes DEF LoadInv, BytesOK
      <4>2. x[1] \in 0 .. rconfig.channels - 1
        BY DEF Columns
      <4> QED BY <4>1, <4>2
    <3>2. Len(Stored(x).vrt) \in Nat
      <4>1. StructAt(n) \in FaultStruct
        <5>1. Turns(wconfig) = Turns(rconfig)
          BY <1>1, SharedSizes DEF LoadInv, BytesOK, WholeMapLoaded
        <5> QED BY <1>1, <2>1, <5>1, StructsAreStructs DEF LoadInv
      <4>2. StructAt(n).vrt \in Seq(VrtEntry)
        BY <4>1 DEF FaultStruct
      <4> QED BY <2>1, <4>2
    <3> QED BY <3>1, <3>2
  <2> QED BY <2>5, <2>6
<1> QED BY MapIsInvariant, <1>1, PTL

(* Whatever prefix of the file is left, the map loaded from it is the stored  *)
(* one up to a column and healthy behind it: a read at the end of the file    *)
(* fails without a word, but it moves no fault and makes none.                *)
THEOREM CutMapIsPrefix == Spec => []PartialMapIsPrefix
<1>1. ASSUME LoadInv, MapInv PROVE PartialMapIsPrefix
  <2> SUFFICES ASSUME phase = "loaded", SameMemory
               PROVE  \E cut \in Columns : \A x \in Columns :
                        /\ Before(x, cut) => /\ Loaded(x).hardfault = Stored(x).hardfault
                                             /\ Loaded(x).vrt_size = Stored(x).vrt_size
                        /\ Before(cut, x) => Loaded(x) = Cleared
                        /\ \A b \in 1 .. 2 :
                             Loaded(x).hardfault[b] \in {0, Stored(x).hardfault[b]}
    BY DEF PartialMapIsPrefix
  <2>1. /\ rturn = Turns(rconfig) /\ rturn \in Nat /\ Loading /\ BytesOK
        /\ rconfig \in Configs /\ Divides(rconfig)
    BY <1>1 DEF MapInv, LoadInv, BytesOK, Loading, SameMemory
  <2>2. Turns(rconfig) # 0
    <3>1. /\ rconfig.channels \in Nat \ {0} /\ rconfig.planes \in Nat \ {0}
          /\ rconfig.columns \in Nat \ {0}
      BY <2>1, ConfigSizes
    <3>2. Turns(rconfig) = rconfig.channels * rconfig.planes * rconfig.columns
      BY <2>1, WholePlane DEF Turns
    <3>3. rconfig.channels * rconfig.planes \in Nat \ {0}
      BY <3>1
    <3> QED BY <3>1, <3>2, <3>3
  <2>3. PICK off \in Offsets : SoFar(off)
    BY <1>1, <2>1 DEF MapInv
  <2>4. PICK last \in 0 .. rturn : ReadUpTo(last)
    BY <2>3 DEF SoFar
  <2>5. PICK c \in Nat : c < rturn /\ c <= last /\ (c = last \/ c = rturn - 1)
    <3>1. CASE last < rturn
      BY <2>1, <3>1
    <3>2. CASE last = rturn
      <4>1. rturn - 1 \in Nat /\ rturn - 1 < rturn /\ rturn - 1 <= last
        BY <2>1, <2>2, <3>2
      <4> QED BY <4>1
    <3> QED BY <2>1, <3>1, <3>2
  <2>6. ColumnAt(rconfig, c) \in Columns
    BY <2>1, <2>5, TurnHasColumn
  <2>7. ASSUME NEW x \in Columns
        PROVE  /\ Before(x, ColumnAt(rconfig, c)) =>
                    /\ Loaded(x).hardfault = Stored(x).hardfault
                    /\ Loaded(x).vrt_size = Stored(x).vrt_size
               /\ Before(ColumnAt(rconfig, c), x) => Loaded(x) = Cleared
               /\ \A b \in 1 .. 2 : Loaded(x).hardfault[b] \in {0, Stored(x).hardfault[b]}
    <3>1. PICK n \in Nat : /\ n < Turns(rconfig) /\ ColumnAt(rconfig, n) = x
                           /\ Loaded(x) = ReadAt(n) /\ Stored(x) = StructAt(n)
      BY <2>1, ColumnIsTurn
    <3>2. /\ n < last => Agrees(n)
          /\ last < n => ReadAt(n) = Cleared
          /\ HalfRead(n)
      BY <2>1, <2>4, <3>1 DEF ReadUpTo
    <3>3. Before(x, ColumnAt(rconfig, c)) => n < last
      <4>1. Before(x, ColumnAt(rconfig, c)) => n < c
        BY <2>1, <3>1, TurnsInOrder
      <4> QED BY <2>1, <2>5, <4>1
    <3>4. Before(ColumnAt(rconfig, c), x) => last < n
      <4>1. Before(ColumnAt(rconfig, c), x) => c < n
        BY <2>1, <3>1, TurnsInOrder
      <4> QED BY <2>1, <2>5, <3>1, <4>1
    <3> QED BY <3>1, <3>2, <3>3, <3>4 DEF Agrees, HalfRead
  <2> QED BY <2>6, <2>7
<1> QED BY MapIsInvariant, <1>1, PTL
=============================================================================
