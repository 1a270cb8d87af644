--------------------------- MODULE AddressMapping ---------------------------
(***************************************************************************)
(* Config: the sizes derived from the .ini file, the address layout, and   *)
(* the two conversions between a request address and a coordinate of the   *)
(* memory array; and the addresses the two generators make with them.      *)
(*                                                                         *)
(* An address, and each field of a coordinate, is the set of its bits that *)
(* are 1: a left shift adds to every member, "or" is union, masking keeps  *)
(* the members below the mask's width.                                     *)
(***************************************************************************)
EXTENDS Integers, Sequences, FiniteSets

CONSTANTS
  Configs,  \* what a .ini file may say
  Kilo      \* 1024 in the code

Fields == {"ch", "ra", "bg", "ba", "ro", "co"}

\* Nothing in the code refuses a negative size, or no channel at all; a file
\* that says so leaves no array to address.
ASSUME ConfigAssumption ==
  Configs \subseteq
    [channel_size : Nat, channels : Nat \ {0}, bus_width : Nat,
     bankgroups : Nat, banks_per_group : Nat, bankgroup_enable : BOOLEAN,
     rows : Nat, columns : Nat, device_width : Nat, BL : Nat,
     address_mapping : Seq(STRING), generator_system : STRING]

VARIABLES
  config,    \* the parsed parameters
  status,    \* "parsed", "ready", or how the constructor failed
  position,  \* coordinates the sequential generator has sent
  sent,      \* the coordinate it sent last, <<>> after a random request
  gen_addr,  \* the address of the last request
  recv_addr  \* what AddressMapping makes of it

vars == <<config, status, position, sent, gen_addr, recv_addr>>

-----------------------------------------------------------------------------
(* Sizes (InitDRAMParams, CalculateSize). *)

\* Rounds down, so it is a logarithm of powers of two only.
LogBase2[n \in Nat] == IF n > 1 THEN 1 + LogBase2[n \div 2] ELSE 0

\* The powers of two, 1 << n.
Pow2[n \in Nat] == IF n = 0 THEN 1 ELSE 2 * Pow2[n - 1]
PowerOfTwo(n) == n = Pow2[LogBase2[n]]

ASSUME KiloAssumption == Kilo \in Nat \ {0, 1} /\ PowerOfTwo(Kilo)

BankGroups(c)    == IF c.bankgroup_enable THEN c.bankgroups ELSE 1
BanksPerGroup(c) ==
  IF c.bankgroup_enable THEN c.banks_per_group
                        ELSE c.banks_per_group * c.bankgroups
Banks(c) == BankGroups(c) * BanksPerGroup(c)

\* The division of the code rounds towards zero, \div downwards; a file may say
\* negative sizes (Startup).
Abs(n) == IF n < 0 THEN -n ELSE n
Quotient(a, b) ==
  LET q == Abs(a) \div Abs(b) IN IF (a < 0) = (b < 0) THEN q ELSE -q

ActualColumns(c)  == Quotient(c.columns, c.BL)
ShiftBits(c)      == LogBase2[(c.bus_width \div 8) * c.BL]
DevicesPerRank(c) == Quotient(c.bus_width, c.device_width)
PageSize(c)       == Quotient(c.columns * c.device_width, 8)
MegsPerBank(c)    == Quotient(PageSize(c) * Quotient(c.rows, Kilo), Kilo)
MegsPerRank(c)    == MegsPerBank(c) * Banks(c) * DevicesPerRank(c)

\* A channel smaller than one rank is enlarged to it.
Ranks(c) ==
  IF MegsPerRank(c) > c.channel_size THEN 1
  ELSE Quotient(c.channel_size, MegsPerRank(c))
ChannelSize(c) == Ranks(c) * MegsPerRank(c)

(* Mutant: the address space forgets one factor of 1024. *)
AddressBitsTooFew(c) == LogBase2[ChannelSize(c)] + LogBase2[Kilo]

\* The width of a byte address, and of effective_addr_mask, which CalculateSize
\* shifts right to the width of a burst address.
AddressBits(c) == LogBase2[ChannelSize(c)] + LogBase2[Kilo] + LogBase2[Kilo]
EffectiveBits(c) == AddressBits(c) - ShiftBits(c)
EffectiveAddresses(c) == SUBSET (0 .. EffectiveBits(c) - 1)

\* The loop bounds of every walk over the array.
Size(c) == [ch |-> c.channels, ra |-> Ranks(c), bg |-> BankGroups(c),
            ba |-> BanksPerGroup(c), ro |-> c.rows, co |-> ActualColumns(c)]

-----------------------------------------------------------------------------
(* The layout (SetAddressMapping). *)

(* Mutant: the burst bits are not taken out of the column field. *)
FieldWidthsFullColumn(c) ==
  [f \in Fields |-> IF f = "co" THEN LogBase2[c.columns] ELSE LogBase2[Size(c)[f]]]

\* The width of each field; a burst's columns share one address.
FieldWidths(c) ==
  [f \in Fields |->
     IF f = "co" THEN LogBase2[c.columns] - LogBase2[c.BL] ELSE LogBase2[Size(c)[f]]]

\* A mapping has twelve characters and names each of the six fields.
ValidMapping(c) ==
  /\ Len(c.address_mapping) = 6
  /\ {c.address_mapping[i] : i \in 1 .. Len(c.address_mapping)} = Fields

\* The last field named is the lowest in the address.
FieldPos(c) ==
  LET m  == c.address_mapping
      w  == FieldWidths(c)
      p5 == w[m[6]]
      p4 == p5 + w[m[5]]
      p3 == p4 + w[m[4]]
      p2 == p3 + w[m[3]]
      p1 == p2 + w[m[2]]
      at == <<p1, p2, p3, p4, p5, 0>>
  IN [f \in Fields |-> at[CHOOSE i \in 1 .. 6 : m[i] = f]]

-----------------------------------------------------------------------------
(* The conversions. *)

ShiftLeft(a, n)  == {b + n : b \in a}
ShiftRight(a, n) == {b - n : b \in {x \in a : x >= n}}
Mask(a, width)   == {b \in a : b < width}

(* Mutant: the bits below one burst are not shifted out. *)
AddressMappingUnshifted(c, hex_addr) ==
  [f \in Fields |-> Mask(ShiftRight(hex_addr, FieldPos(c)[f]), FieldWidths(c)[f])]

\* Config::AddressMapping: a byte address to a coordinate.
AddressMap(c, hex_addr) ==
  LET a == ShiftRight(hex_addr, ShiftBits(c))
  IN [f \in Fields |-> Mask(ShiftRight(a, FieldPos(c)[f]), FieldWidths(c)[f])]

\* Config::ReverseAddressMapping: one shift and one "or" per field, in the
\* order of the mapping, then the shift to a byte address.
ReverseAddressMap(c, coord) ==
  LET m  == c.address_mapping
      w  == FieldWidths(c)
      Push(a, f) == ShiftLeft(a, w[f]) \cup coord[f]
      addr == Push(Push(Push(Push(Push(Push({}, m[1]), m[2]), m[3]), m[4]), m[5]), m[6])
  IN ShiftLeft(addr, ShiftBits(c))

\* A loop index as a bit set.
BitsOf(n) == {b \in 0 .. LogBase2[n] : (n \div Pow2[b]) % 2 = 1}

-----------------------------------------------------------------------------
(* The constructor and the generators. *)

Init ==
  /\ config \in Configs
  /\ status = "parsed"
  /\ position = 0
  /\ sent = <<>>
  /\ gen_addr = {} /\ recv_addr = <<>>

\* CalculateSize divides by two parameters, and by megs_per_rank, which small
\* arrays round to 0.
DividesByZero(c) == c.BL = 0 \/ c.device_width = 0 \/ MegsPerRank(c) = 0

Configure ==
  /\ status = "parsed"
  /\ status' = IF DividesByZero(config) THEN "crashed"
               ELSE IF ~ValidMapping(config) THEN "aborted"
               ELSE "ready"
  /\ UNCHANGED <<config, position, sent, gen_addr, recv_addr>>

\* The six nested loops of SequentialGenerator, column innermost.
SweepSize(c) ==
  LET s == Size(c) IN s.ch * s.ra * s.bg * s.ba * s.ro * s.co
SweepCoordinate(c, n) ==
  LET s  == Size(c)
      n5 == n \div s.co
      n4 == n5 \div s.ro
      n3 == n4 \div s.ba
      n2 == n3 \div s.bg
  IN [co |-> n % s.co, ro |-> n5 % s.ro, ba |-> n4 % s.ba, bg |-> n3 % s.bg,
      ra |-> n2 % s.ra, ch |-> n2 \div s.ra]

SequentialRequest ==
  /\ status = "ready"
  /\ config.generator_system = "SequentialGenerator"
  /\ position < SweepSize(config)
  /\ LET coord == SweepCoordinate(config, position)
     IN sent' = [f \in Fields |-> BitsOf(coord[f])]
  /\ gen_addr' = ReverseAddressMap(config, sent')
  /\ recv_addr' = AddressMap(config, gen_addr')
  /\ position' = position + 1
  /\ UNCHANGED <<config, status>>

\* RandomGenerator masks a random word with effective_addr_mask.
RandomRequest ==
  /\ status = "ready"
  /\ config.generator_system # "SequentialGenerator"
  /\ \E a \in EffectiveAddresses(config) :
       /\ gen_addr' = a
       /\ recv_addr' = AddressMap(config, a)
  /\ sent' = <<>>
  /\ UNCHANGED <<config, status, position>>

Next == Configure \/ SequentialRequest \/ RandomRequest

Spec == Init /\ [][Next]_vars

-----------------------------------------------------------------------------
PowersOfTwo(c) ==
  /\ \A f \in Fields : PowerOfTwo(Size(c)[f])
  /\ PowerOfTwo(c.columns) /\ PowerOfTwo(c.BL) /\ PowerOfTwo(c.bus_width)

(* No address, whatever its bits, leads outside the array: each masked       *)
(* field is below the loop bound its dimension was allocated with, also for  *)
(* dimensions that are not powers of two (AddressMapping against the         *)
(* allocations of NaiveMemorySystem and the fault models).  The burst length *)
(* must be a power of two, and no longer than a row has columns.             *)
CoordinateInBounds ==
  recv_addr # <<>> /\ PowerOfTwo(config.BL) /\ config.BL <= config.columns =>
    \A f \in Fields : \E n \in 0 .. Size(config)[f] - 1 : recv_addr[f] = BitsOf(n)

(* The coordinate a sequential request was made for is the one the memory    *)
(* system and the fault model look up, for every layout of the fields: the   *)
(* sweep visits every column once.                                           *)
SweepRoundTrip ==
  sent # <<>> /\ PowersOfTwo(config) => recv_addr = sent

(* With one channel, the six fields and the bits of one burst fill the byte  *)
(* address exactly: the size computed from megabytes and the layout computed *)
(* from dimensions agree (CalculateSize against SetAddressMapping).  The     *)
(* devices must have a power of two of pins, and the bus at least one byte.  *)
FieldsFillAddress ==
  status = "ready" /\ PowersOfTwo(config) /\ config.channels = 1
    /\ PowerOfTwo(config.device_width) /\ config.bus_width >= 8 =>
    LET w == FieldWidths(config)
    IN w["ra"] + w["bg"] + w["ba"] + w["ro"] + w["co"] + ShiftBits(config)
         = AddressBits(config)

(* Doc claim, configuration.cc:195: "memory addresses are byte addressable": *)
(* the addresses the random generator keeps after masking reach every burst  *)
(* of a channel.                                                             *)
RandomCoversMemory ==
  status = "ready" /\ PowersOfTwo(config) /\ config.channels = 1 =>
    Cardinality({AddressMap(config, a) : a \in EffectiveAddresses(config)})
      = SweepSize(config)
=============================================================================
