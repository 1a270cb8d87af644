---------------------------- MODULE FaultMapFile ----------------------------
(***************************************************************************)
(* The fault map between two runs of the program: FaultMapWriter stores it *)
(* (-w) when the fault model is destroyed, FaultMapReader loads it (-r)    *)
(* into a run whose configuration may be another one.                      *)
(*                                                                         *)
(* The file is a sequence of bytes; a kill or a full disk leaves any       *)
(* prefix of what was written, and neither side notices: Write never looks *)
(* at its stream and a read at the end of the file leaves its variable as  *)
(* it was, or with its first bytes changed.  A hard-fault word and a       *)
(* probability have two bytes here, every other field one.                 *)
(*                                                                         *)
(* planes stands for ranks x bank groups x banks x rows, which both sides  *)
(* walk in the same nested loops, and geometry for the fields of the       *)
(* header that no loop depends on.                                         *)
(***************************************************************************)
EXTENDS Integers, Sequences, FiniteSets

CONSTANTS
  Configs,     \* configurations of the two runs
  Structs,     \* fault structs the generators leave
  Junk,        \* what a read behind the end of a vrt vector may find
  DiskMayFill  \* writes may be lost

Byte  == 0 .. 255
Byte2 == Byte \X Byte

VrtEntry    == [bit : Byte, prob : Byte2]
FaultStruct == [hardfault : Byte2, vrt_size : Byte, vrt : Seq(VrtEntry)]

ASSUME ConfigAssumption ==
  Configs \subseteq [geometry : Byte, channels : Byte \ {0}, planes : Byte \ {0},
                     columns : Byte \ {0}, BL : Byte \ {0}]
ASSUME StructAssumption ==
  /\ Structs \subseteq FaultStruct
  /\ \A fs \in Structs : fs.vrt_size = Len(fs.vrt)
ASSUME DiskAssumption == Junk \subseteq VrtEntry /\ DiskMayFill \in BOOLEAN

VARIABLES
  phase,     \* where the two runs are
  wconfig,   \* configuration of the run that stores
  fault_map, \* its fault map
  rconfig,   \* configuration of the run that loads
  loaded,    \* the fault map it builds
  wturn,     \* turns the loops of Write have done
  rturn,     \* turns the loops of Read have done
  written,   \* bytes given to the output stream
  file,      \* bytes on disk
  get,       \* bytes the input stream has consumed
  temp_pair  \* temp_pair1 and temp_pair2 of Read

vars == <<phase, wconfig, fault_map, rconfig, loaded, wturn, rturn, written,
          file, get, temp_pair>>

-----------------------------------------------------------------------------
(* The loops over channel, plane, actual column and burst position. *)

ActualColumns(c) == c.columns \div c.BL

Coordinates(c) ==
  (0 .. c.channels - 1) \X (0 .. c.planes - 1)
    \X (0 .. ActualColumns(c) - 1) \X (0 .. c.BL - 1)

PlaneSize(c) == ActualColumns(c) * c.BL
Turns(c)     == c.channels * c.planes * PlaneSize(c)

(* Mutant: the loops over columns and burst positions change places. *)
CoordinateColumnFirst(c, n) ==
  <<n \div (c.planes * PlaneSize(c)), (n \div PlaneSize(c)) % c.planes,
    n % ActualColumns(c), (n % PlaneSize(c)) \div ActualColumns(c)>>

\* The coordinate of turn n of the innermost loop.
Coordinate(c, n) ==
  <<n \div (c.planes * PlaneSize(c)), (n \div PlaneSize(c)) % c.planes,
    (n % PlaneSize(c)) \div c.BL, n % c.BL>>

(* Mutant: the structs are left as new[] found them. *)
Uncleared == [hardfault |-> <<1, 0>>, vrt_size |-> 0, vrt |-> <<>>]

\* What the constructors of the fault models put into every struct.
Cleared == [hardfault |-> <<0, 0>>, vrt_size |-> 0, vrt |-> <<>>]

Init ==
  /\ phase = "generated"
  /\ wconfig \in Configs
  /\ fault_map \in [Coordinates(wconfig) -> Structs]
  /\ rconfig \in Configs
  /\ loaded = <<>>
  /\ wturn = 0 /\ rturn = 0
  /\ written = <<>> /\ file = <<>>
  /\ get = 0
  /\ temp_pair = [bit |-> 0, prob |-> <<0, 0>>]

-----------------------------------------------------------------------------
(* FaultMapWriter. *)

Header(c) == <<c.geometry, c.channels, c.planes, c.columns, c.BL>>

\* The constructor cannot open the file and the process aborts: the map is lost.
WriterCannotOpen ==
  /\ phase = "generated"
  /\ phase' = "unstored"
  /\ UNCHANGED <<wconfig, fault_map, rconfig, loaded, wturn, rturn, written,
                 file, get, temp_pair>>

\* The constructor truncates the file; Write starts with the header.
WriteHeader ==
  /\ phase = "generated"
  /\ phase' = "writing"
  /\ written' = Header(wconfig)
  /\ file' = <<>>
  /\ UNCHANGED <<wconfig, fault_map, rconfig, loaded, wturn, rturn, get,
                 temp_pair>>

(* Mutant: the two members of a pair change places. *)
EntryBytesSwapped(e) == <<e.prob[1], e.bit, e.prob[2]>>

(* Mutant: the low byte of the probability is not masked. *)
EntryBytesUnmasked(e) == <<e.bit, e.prob[1] + 256 * e.prob[2], e.prob[2]>>

\* One pair on disk.
EntryBytes(e) == <<e.bit, e.prob[1], e.prob[2]>>

\* hardfault, vrt_size, and one pair for each entry.  The loop over t indexes
\* the vector with i, the channel, so it writes one and the same entry e.
StructBytes(fs, e) ==
  fs.hardfault \o <<fs.vrt_size>>
    \o [k \in 1 .. 3 * fs.vrt_size |-> EntryBytes(e)[1 + ((k - 1) % 3)]]

\* vrt[i]: undefined where the vector has no more than i entries;
\* with no Junk to find the access crashes.
IndexedEntries(fs, channel) ==
  IF fs.vrt_size = 0 THEN {[bit |-> 0, prob |-> <<0, 0>>]}
  ELSE IF channel < Len(fs.vrt) THEN {fs.vrt[channel + 1]}
  ELSE Junk

\* One turn of Write's innermost loop.
WriteColumn ==
  /\ phase = "writing"
  /\ wturn < Turns(wconfig)
  /\ LET at == Coordinate(wconfig, wturn)
         fs == fault_map[at]
     IN \E e \in IndexedEntries(fs, at[1]) :
          written' = written \o StructBytes(fs, e)
  /\ wturn' = wturn + 1
  /\ UNCHANGED <<phase, wconfig, fault_map, rconfig, loaded, rturn, file, get,
                 temp_pair>>

Prefixes(s) == {SubSeq(s, 1, n) : n \in 0 .. Len(s)}

\* close() by ~FaultMapWriter.  Nobody asks whether the data got to the disk.
CloseWriter ==
  /\ phase = "writing"
  /\ wturn = Turns(wconfig)
  /\ phase' = "stored"
  /\ \/ file' = written
     \/ DiskMayFill /\ file' \in Prefixes(written)
  /\ UNCHANGED <<wconfig, fault_map, rconfig, loaded, wturn, rturn, written,
                 get, temp_pair>>

\* A kill, or the crash of an access behind a vector, while the map is stored.
WriterDies ==
  /\ phase = "writing"
  /\ phase' = "stored"
  /\ file' \in Prefixes(written)
  /\ UNCHANGED <<wconfig, fault_map, rconfig, loaded, wturn, rturn, written,
                 get, temp_pair>>

-----------------------------------------------------------------------------
(* FaultMapReader, in a new process. *)

\* read of n bytes at offset k into a variable that holds old.
Bytes(k, n, old) ==
  [b \in 1 .. n |-> IF k + b <= Len(file) THEN file[k + b] ELSE old[b]]

\* The fields compared: all but BL.
Compared == 1 .. 4

\* Fields behind the end of the file stay uninitialised and may equal anything.
HeaderMayMatch ==
  \A k \in Compared : k <= Len(file) => file[k] = Header(rconfig)[k]
HeaderMayDiffer ==
  \E k \in Compared : k <= Len(file) => file[k] # Header(rconfig)[k]

\* The constructor cannot open the file, which may not be there, and aborts.
ReaderCannotOpen ==
  /\ phase \in {"stored", "unstored"}
  /\ phase' = "aborted"
  /\ UNCHANGED <<wconfig, fault_map, rconfig, loaded, wturn, rturn, written,
                 file, get, temp_pair>>

\* The constructor of the fault model clears the map, then Read compares.
ReadHeader ==
  /\ phase = "stored"
  /\ \/ /\ HeaderMayMatch
        /\ phase' = "reading"
        /\ loaded' = [at \in Coordinates(rconfig) |-> Cleared]
     \/ /\ HeaderMayDiffer
        /\ phase' = "aborted"
        /\ UNCHANGED loaded
  /\ get' = 5
  /\ temp_pair' = [bit |-> 0, prob |-> <<0, 0>>]
  /\ UNCHANGED <<wconfig, fault_map, rconfig, wturn, rturn, written, file>>

\* The pairs read behind offset k; number 0 is what temp_pair holds before.
\* A read that fails leaves the pair of the entry before.
PairsFrom(k, size) ==
  LET pair[j \in 0 .. size] ==
        IF j = 0 THEN temp_pair
        ELSE LET o == k + 3 * (j - 1)
             IN [bit  |-> Bytes(o, 1, <<pair[j - 1].bit>>)[1],
                 prob |-> Bytes(o + 1, 2, pair[j - 1].prob)]
  IN pair

(* Mutant: the loop over entries runs once too often. *)
EntriesOneMore(size, pair) == [j \in 1 .. size + 1 |-> pair[IF j > size THEN size ELSE j]]

\* push_back of every pair.
EntriesRead(size, pair) == [j \in 1 .. size |-> pair[j]]

\* One turn of Read's innermost loop.
ReadColumn ==
  /\ phase = "reading"
  /\ rturn < Turns(rconfig)
  /\ LET at   == Coordinate(rconfig, rturn)
         fs   == loaded[at]
         size == Bytes(get + 2, 1, <<fs.vrt_size>>)[1]
         pair == PairsFrom(get + 3, size)
     IN /\ loaded' = [loaded EXCEPT ![at] =
                        [hardfault |-> Bytes(get, 2, fs.hardfault),
                         vrt_size  |-> size,
                         vrt       |-> fs.vrt \o EntriesRead(size, pair)]]
        /\ get' = get + 3 + 3 * size
        /\ temp_pair' = pair[size]
  /\ rturn' = rturn + 1
  /\ UNCHANGED <<phase, wconfig, fault_map, rconfig, wturn, written, file>>

\* The reader is deleted and the simulation begins.
ReadDone ==
  /\ phase = "reading"
  /\ rturn = Turns(rconfig)
  /\ phase' = "loaded"
  /\ UNCHANGED <<wconfig, fault_map, rconfig, loaded, wturn, rturn, written,
                 file, get, temp_pair>>

Next ==
  \/ WriterCannotOpen \/ WriteHeader \/ WriteColumn \/ CloseWriter \/ WriterDies
  \/ ReaderCannotOpen \/ ReadHeader \/ ReadColumn \/ ReadDone

Spec == Init /\ [][Next]_vars

-----------------------------------------------------------------------------
(* Types of the variables. *)
FileTypeOK ==
  /\ phase \in {"generated", "writing", "stored", "unstored", "reading", "loaded", "aborted"}
  /\ wconfig \in Configs /\ rconfig \in Configs
  /\ fault_map \in [Coordinates(wconfig) -> FaultStruct]
  /\ phase \in {"reading", "loaded"} =>
       loaded \in [Coordinates(rconfig) -> FaultStruct]
  /\ wturn \in Nat /\ rturn \in Nat /\ get \in Nat
  /\ written \in Seq(Byte) /\ file \in Seq(Byte)
  /\ temp_pair \in VrtEntry

(* A loaded map has exactly as many entries as its vrt_size says, whatever    *)
(* is in the file and wherever it ends: VRTFaultError indexes the vector up   *)
(* to vrt_size without a look at its length (FaultMapReader::Read).           *)
LoadedSizesMatch ==
  phase \in {"reading", "loaded"} =>
    \A at \in Coordinates(rconfig) : loaded[at].vrt_size = Len(loaded[at].vrt)

Divides(c) == c.columns % c.BL = 0

\* The run that loads has the memory of the run that stored, perhaps with
\* another burst length.
SameMemory ==
  /\ [wconfig EXCEPT !.BL = 1] = [rconfig EXCEPT !.BL = 1]
  /\ Divides(wconfig) /\ Divides(rconfig)

\* <<channel, plane, column>>, in the order of the loops, and its two structs.
Columns ==
  (0 .. rconfig.channels - 1) \X (0 .. rconfig.planes - 1) \X (0 .. rconfig.columns - 1)
Before(x, y) ==
  \/ x[1] < y[1]
  \/ x[1] = y[1] /\ x[2] < y[2]
  \/ x[1] = y[1] /\ x[2] = y[2] /\ x[3] < y[3]
Split(c, x) == <<x[1], x[2], x[3] \div c.BL, x[3] % c.BL>>
Stored(x) == fault_map[Split(wconfig, x)]
Loaded(x) == loaded[Split(rconfig, x)]

WholeMapLoaded ==
  phase = "loaded" /\ SameMemory /\ wturn = Turns(wconfig) /\ file = written

(* A complete map puts every hard fault and every entry count back to the     *)
(* column it came from, also under another burst length, which the header     *)
(* check of Read lets pass: the loops of Write and Read regroup the columns.  *)
HardFaultsSurvive ==
  WholeMapLoaded =>
    \A x \in Columns : /\ Loaded(x).hardfault = Stored(x).hardfault
                       /\ Loaded(x).vrt_size = Stored(x).vrt_size

(* What is left of the entries: a column loads none that it did not have, and *)
(* a column of channel 0 with one entry loads that one - unless Write has     *)
(* read behind the end of the vector (FaultMapWriter::Write, vrt[i]).         *)
NoForeignEntries ==
  WholeMapLoaded =>
    \A x \in Columns :
      x[1] < Len(Stored(x).vrt) =>
        \A j \in 1 .. Len(Loaded(x).vrt) :
          \E k \in 1 .. Len(Stored(x).vrt) : Loaded(x).vrt[j] = Stored(x).vrt[k]

(* Whatever prefix of the file is left, the map loaded from it is the stored  *)
(* one up to a column and healthy behind it: no hard fault moves or appears,  *)
(* and nothing tells the user that the rest is missing.                       *)
PartialMapIsPrefix ==
  phase = "loaded" /\ SameMemory =>
    \E cut \in Columns : \A x \in Columns :
      /\ Before(x, cut) => /\ Loaded(x).hardfault = Stored(x).hardfault
                           /\ Loaded(x).vrt_size = Stored(x).vrt_size
      /\ Before(cut, x) => Loaded(x) = Cleared
      /\ \A b \in 1 .. 2 : Loaded(x).hardfault[b] \in {0, Stored(x).hardfault[b]}

(* Doc claim, README.md:7-13: a stored fault map, loaded under the same       *)
(* configuration, is the fault map that was stored.                           *)
LoadedIsStored ==
  WholeMapLoaded /\ wconfig = rconfig /\ wconfig.channels = 1 =>
    \A x \in Columns : Loaded(x) = Stored(x)
=============================================================================
