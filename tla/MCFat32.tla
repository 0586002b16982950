------------------------------ MODULE MCFat32 ------------------------------
(* Eighteen sectors of three units: three reserved, three of the FAT, and  *)
(* six clusters of two sectors.  The root directory has the clusters 2 and *)
(* 4, whose FAT entries are in different sectors, with old entries behind  *)
(* the mark that ends it; the file "a" has 3, 5 and 6.  On the other media *)
(* the file's chain is damaged: it ends early (with a mark whose sector    *)
(* wraps to 0), meets a free entry, meets a reserved one, or leaves the    *)
(* device; and on one of them the first cluster of the root has a mark.    *)
EXTENDS Fat32

MCDirEntry ==
    (201 :> [name |-> "a", cluster |-> 3, size |-> 14, dir |-> FALSE]) @@
    (202 :> [name |-> "empty", cluster |-> 0, size |-> 0, dir |-> FALSE]) @@
    (203 :> [name |-> "..", cluster |-> 0, size |-> 0, dir |-> TRUE]) @@
    (204 :> [name |-> "last", cluster |-> 7, size |-> 2, dir |-> FALSE]) @@
    (205 :> [name |-> "old", cluster |-> 7, size |-> 2, dir |-> FALSE])

Boot == <<101, 102, 103, 104, 105, 106, 107, 108, 109>>
Root == <<203, 299, 202, 298, 297, 201>>
RootEnding == <<203, 201, 202, 298, 0, 205>>
RootRest == <<204, 0, 205, 205, 296, 0>>
Data(c) == [k \in 1 .. 6 |-> 300 + 10 * c + k]

Medium(fat, root) ==
    LET units == Boot \o fat \o root \o Data(3) \o RootRest
                   \o Data(5) \o Data(6) \o Data(7)
    IN [a \in 0 .. 53 |-> units[a + 1]]

\* By the entries for the clusters 3 and 5.
Fat(third, fifth) == <<510, 510, 4, third, 510, fifth, 511, 510, 0>>

MCMedia ==
    {Medium(Fat(5, 6), Root), Medium(Fat(511, 6), Root), Medium(Fat(0, 6), RootEnding),
     Medium(Fat(5, 1), Root), Medium(Fat(101, 6), Root)}

MCOffsets == {-1, 1, 29, 55}
MCSizes == {1, 5, 60}
MCNames == {"a", "last", "old"}
MCFileOffsets == {0, 2, 7, 12}
MCFileSizes == {1, 5, 9}
MCCounts == {0, 2, 5}
=============================================================================
