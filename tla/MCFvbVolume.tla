---------------------------- MODULE MCFvbVolume ----------------------------
(* Instances of FvbVolume for TLC: three blocks of two cells.  The modulus  *)
(* is small so that an offset and a length can wrap.                        *)
EXTENDS FvbVolume

\* Every combination of the status flags, with the other flags of either
\* header, or with one of them toggled.
MCAttrRequests ==
  {S \union F : S \in SUBSET StatusFlags,
                F \in {A \ (StatusFlags \union X) :
                         A \in {FdfAttributes, InfoAttributes},
                         X \in {{}, {"LOCK_CAP"}, {"ALIGNMENT"}}}}

\* Up to and behind the end of a block, over its end, and a sum that wraps.
MCWriteOffsets == 0 .. BlockLen + 1
MCWriteLengths == 0 .. BlockLen + 1 \union {Modulus - 1}

\* Lists that leave the header block alone: valid, empty range, past the end.
MCEraseLists == {<< <<1, 1>> >>, << <<1, 2>> >>, << <<2, 1>>, <<1, 1>> >>,
                 << <<1, 0>> >>, << <<1, 1>>, <<2, 2>> >>, << <<3, 1>> >>}
=============================================================================
