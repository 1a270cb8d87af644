-------------------------- MODULE MCAddressMapping --------------------------
(* Parameter files scaled down with a kilo of 2: every combination of a few *)
(* sizes, three layouts and two mappings the constructor refuses.           *)
EXTENDS AddressMapping

Mappings ==
  { <<"ro", "ch", "ra", "ba", "bg", "co">>,   \* rochrababgco, the sample files
    <<"ch", "ro", "ba", "bg", "ra", "co">>,   \* the default
    <<"co", "bg", "ba", "ra", "ch", "ro">>,
    <<"ro", "ch", "ra", "ba", "bg", "xx">>,
    <<"ro", "ch", "ra", "ba", "co">> }

MCConfigs ==
  [channel_size : {4, 16}, channels : {1, 2}, bus_width : {16},
   bankgroups : {2}, banks_per_group : {1, 2}, bankgroup_enable : BOOLEAN,
   rows : {1, 2, 3, 4}, columns : {4, 6}, device_width : {8}, BL : {2},
   address_mapping : Mappings,
   generator_system : {"SequentialGenerator", "RandomGenerator"}]

\* The shape of config/DDR4_*_x16: one sixteenth of a byte address per burst.
MCWideBurst ==
  [channel_size : {16}, channels : {1}, bus_width : {16, 32},
   bankgroups : {2}, banks_per_group : {2}, bankgroup_enable : {TRUE},
   rows : {4}, columns : {4}, device_width : {8}, BL : {2, 4},
   address_mapping : {<<"ro", "ch", "ra", "ba", "bg", "co">>},
   generator_system : {"RandomGenerator"}]
=============================================================================
