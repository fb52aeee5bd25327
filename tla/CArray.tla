-------------------------------- MODULE CArray --------------------------------
(***************************************************************************)
(* csjp::CArray (src/devel/csjp_carray.h): one block of the C library for  *)
(* plain values, freed with the object.  A CArray is a record:             *)
(*   items   the block ptr points to, none when ptr is NULL                *)
(*   cap     how many values fit                                           *)
(* The values belong to the user of the object and are left out.           *)
(***************************************************************************)
LOCAL INSTANCE Naturals
LOCAL INSTANCE Sequences
INSTANCE Outcome

Empty == [items |-> <<>>, cap |-> 0]

\* The constructor; nothing is allocated for a count of zero.
New(count, block) == IF count = 0 THEN Empty ELSE [items |-> <<block>>, cap |-> count]

(* resize(): realloc gives the address "block".  A size of zero gives the  *)
(* block back and returns NULL, which is taken for a failure: ptr stays.   *)
Resize(a, count, block) ==
    IF count = 0 /\ a.items # <<>> THEN Raised(a)
    ELSE Done([items |-> <<block>>, cap |-> count])

\* Whether resize() has given back the block ptr points to.
FreesBlock(a, count) == a.items # <<>> /\ count = 0

\* What a move leaves behind, in either form; the destination frees its own block first.
MovedFrom(a) == Empty
==============================================================================
